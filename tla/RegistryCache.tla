----------------------------- MODULE RegistryCache -----------------------------
(***************************************************************************)
(* The registry sources (sources/registry/{mod,index,remote,local}.rs) and *)
(* what several invocations of Cargo share through CARGO_HOME: the git     *)
(* repository of the index, the .crate files and the unpacked sources.     *)
(*                                                                         *)
(* A process resolves one package, Want[p], through its registry and then  *)
(* gets the sources of that package.  A process of Locked has the package  *)
(* in its lock file, so it looks before it updates.  The index is the      *)
(* number of a commit; commit n lists the packages published up to n, and  *)
(* 0 is a repository without commits.                                      *)
(***************************************************************************)
EXTENDS FileLock, Naturals

CONSTANTS
  Package,
  Want,       \* process -> package
  Published,  \* package -> the first commit that lists it
  Yanked,     \* package -> the first commit that lists it as yanked
  MaxCommit,  \* bound on the commits of the index
  Entries,    \* number of files in a .crate file
  Scenes      \* who takes part, and what may happen

(***************************************************************************)
(* A scene: the processes that take part, those with a lock file (so with  *)
(* a precise source id), those run with -Z offline; whether the registry   *)
(* is a RemoteRegistry or a LocalRegistry; what may happen: "fail", the    *)
(* network may; "torn", the write of a .crate file may be cut short; and   *)
(* bounds on the kills and on the invocations by one process.              *)
(***************************************************************************)
ASSUME RegistryAssumption ==
  /\ File = Package \cup {"index"} /\ "index" \notin Package
  /\ Want \in [Process -> Package]
  /\ MaxCommit \in Nat /\ Entries \in Nat \ {0}
  /\ Published \in [Package -> 1..MaxCommit] /\ Yanked \in [Package -> Nat]
  /\ \A s \in Scenes :
       /\ s.locked \subseteq s.process /\ s.offline \subseteq s.process
       /\ s.process \subseteq Process /\ s.remote \in BOOLEAN
       /\ s.may \subseteq {"fail", "torn"}
       /\ s.maxCrashes \in Nat /\ s.maxRuns \in Nat \ {0}

VARIABLES
  scene,
  upstream,  \* head of the index on the server
  repo,      \* the index repository can be opened
  ref,       \* its refs/remotes/origin/master
  crate,     \* package -> its .crate file
  src,       \* package -> its unpacked files
  marked,    \* the packages with a .cargo-ok
  pc,        \* process -> where it is
  ret,       \* process -> where RemoteRegistry::repo returns to
  opened,    \* the processes whose RemoteRegistry::repo is filled
  head,      \* process -> RemoteRegistry::head and tree
  cache,     \* process -> RegistryIndex::cache for the package wanted
  fellback,  \* the processes whose query of a locked package updated
  n,         \* process -> half steps of unpacking done
  fetched,   \* process -> commit its own last update fetched
  crashes, runs

Locked == scene.locked
Offline == scene.offline
Remote == scene.remote
MayFail == "fail" \in scene.may
Torn == "torn" \in scene.may
MaxCrashes == scene.maxCrashes
MaxRuns == scene.maxRuns

shared == <<scene, upstream, repo, ref, crate, src, marked>>
memory == <<opened, head, cache, fellback, n, fetched>>
vars == <<locks, shared, memory, pc, ret, crashes, runs>>

Init ==
  /\ FileLockInit
  /\ scene \in Scenes
  /\ upstream \in 0..MaxCommit
  /\ repo = FALSE /\ ref = 0
  /\ crate = [k \in Package |-> IF Remote THEN "absent" ELSE "full"]
  /\ src = [k \in Package |-> [i \in 1..Entries |-> "none"]]
  /\ marked = {}
  /\ pc = [p \in Process |-> IF p \in scene.process THEN "start" ELSE "done"]
  /\ ret = [p \in Process |-> "start"]
  /\ opened = {} /\ fellback = {}
  /\ head = [p \in Process |-> 0] /\ fetched = [p \in Process |-> 0]
  /\ cache = [p \in Process |-> "unknown"]
  /\ n = [p \in Process |-> 0]
  /\ crashes = 0 /\ runs = [p \in Process |-> IF p \in scene.process THEN 1 ELSE MaxRuns]

Goto(p, l) == pc' = [pc EXCEPT ![p] = l]
Call(p, l, back) == Goto(p, l) /\ ret' = [ret EXCEPT ![p] = back]
At(p, l) == pc[p] = l

\* An error returned with `?` ends the process and closes its handles.
Fail(p) == Goto(p, "failed") /\ ReleaseAll(p)

--------------------------------------------------------------------------------
(* The index                                                               *)

\* Source::update, as the package registry calls it: a locked source is lazy.
Update(p) ==
  /\ At(p, "start")
  /\ Goto(p, IF p \in Locked THEN "query" ELSE "update")
  /\ UNCHANGED <<locks, shared, memory, ret, crashes, runs>>

\* RegistrySource::do_update: update_index, then a new RegistryIndex.
do_update(p) ==
  /\ At(p, "update")
  /\ IF Remote /\ p \notin Offline
     THEN /\ Call(p, "prepare", "fetch_lock")
          /\ UNCHANGED cache
     ELSE /\ Goto(p, "query")
          /\ cache' = [cache EXCEPT ![p] = "unknown"]
          /\ UNCHANGED ret
  /\ UNCHANGED <<locks, shared, opened, head, fellback, n, fetched, crashes, runs>>

\* RemoteRegistry::repo, the fast path without a lock.
Prepare(p) ==
  /\ At(p, "prepare")
  /\ IF p \in opened \/ repo
     THEN opened' = opened \cup {p} /\ Goto(p, ret[p])
     ELSE Goto(p, "init_lock") /\ UNCHANGED opened
  /\ UNCHANGED <<locks, shared, head, cache, fellback, n, fetched, ret, crashes, runs>>

InitLock(p) ==
  /\ At(p, "init_lock")
  /\ Acquire(p, "index", "Exclusive")
  /\ Goto(p, "init")
  /\ UNCHANGED <<shared, memory, ret, crashes, runs>>

\* "try the whole thing over again"; else empty the directory, and init.
InitRepo(p) ==
  /\ At(p, "init")
  /\ ref' = IF repo THEN ref ELSE 0
  /\ repo' = TRUE
  /\ opened' = opened \cup {p}
  /\ Release(p, "index")
  /\ Goto(p, ret[p])
  /\ UNCHANGED <<scene, upstream, crate, src, marked, head, cache, fellback, n, fetched,
                 ret, crashes, runs>>

\* update_index forgets head and tree before it takes the lock.
update_index(p) ==
  /\ At(p, "fetch_lock")
  /\ Acquire(p, "index", "Exclusive")
  /\ head' = [head EXCEPT ![p] = 0]
  /\ Goto(p, "fetch")
  /\ UNCHANGED <<shared, opened, cache, fellback, n, fetched, ret, crashes, runs>>

\* git::fetch of the index moves the ref at its end, or fails.
Fetch(p) ==
  /\ At(p, "fetch")
  /\ \/ /\ ref' = upstream
        /\ fetched' = [fetched EXCEPT ![p] = upstream]
        /\ cache' = [cache EXCEPT ![p] = "unknown"]
        /\ Release(p, "index")
        /\ Goto(p, "query")
     \/ /\ MayFail
        /\ Fail(p)
        /\ UNCHANGED <<ref, fetched, cache>>
  /\ UNCHANGED <<scene, upstream, repo, crate, src, marked, opened, head, fellback, n,
                 ret, crashes, runs>>

summaries_unprepared(p) ==
  /\ At(p, "query")
  /\ IF cache[p] # "unknown"
     THEN Goto(p, "answer") /\ UNCHANGED ret
     ELSE IF Remote THEN Call(p, "load_lock", "load_lock")
                    ELSE Goto(p, "load") /\ UNCHANGED ret
  /\ UNCHANGED <<locks, shared, memory, crashes, runs>>

\* RegistryIndex::summaries, and load_summaries up to its lock: `prepare`
\* comes first, as opening the repository may itself need the index lock.
summaries(p) ==
  /\ At(p, "query")
  /\ IF cache[p] # "unknown"
     THEN Goto(p, "answer") /\ UNCHANGED ret
     ELSE IF Remote THEN Call(p, "prepare", "load_lock")
                    ELSE Goto(p, "load") /\ UNCHANGED ret
  /\ UNCHANGED <<locks, shared, memory, crashes, runs>>

LoadLock(p) ==
  /\ At(p, "load_lock")
  /\ Acquire(p, "index", "Shared")
  /\ Goto(p, "load")
  /\ UNCHANGED <<shared, memory, ret, crashes, runs>>

\* RemoteRegistry::head; a repository without the ref is an error.
HeadOf(p) == IF head[p] # 0 THEN head[p] ELSE ref

\* parse_registry_package of the line for the package, if there is one.
Listing(p) ==
  IF ~Remote THEN "listed"
  ELSE CASE HeadOf(p) < Published[Want[p]] -> "missing"
         [] HeadOf(p) >= Published[Want[p]] /\ HeadOf(p) >= Yanked[Want[p]] -> "yanked"
         [] OTHER -> "listed"

\* RegistryData::load: a failed lookup is a package that does not exist.
\* Offline, every version is kept only if its .crate file is there.
Load(p) ==
  /\ At(p, "load")
  /\ IF Remote /\ p \notin opened
     THEN /\ Call(p, "prepare", "load")
          /\ UNCHANGED <<locks, head, cache>>
     ELSE /\ head' = IF Remote THEN [head EXCEPT ![p] = HeadOf(p)] ELSE head
          /\ IF Listing(p) # "missing" /\ Remote /\ p \in Offline
             THEN Goto(p, "probe") /\ UNCHANGED <<locks, cache>>
             ELSE /\ cache' = [cache EXCEPT ![p] = Listing(p)]
                  /\ Release(p, "index")
                  /\ Goto(p, "answer")
          /\ UNCHANGED ret
  /\ UNCHANGED <<shared, opened, fellback, n, fetched, crashes, runs>>

\* is_crate_downloaded, called while the index is locked.
is_crate_downloaded(p) ==
  /\ At(p, "probe")
  /\ crate[Want[p]] = "absent" \/ Grantable(Want[p], "Shared")
  /\ cache' = [cache EXCEPT ![p] = IF crate[Want[p]] \in {"absent", "empty"}
                                   THEN "missing" ELSE Listing(p)]
  /\ Release(p, "index")
  /\ Goto(p, "answer")
  /\ UNCHANGED <<shared, opened, head, fellback, n, fetched, ret, crashes, runs>>

\* query_inner offers a yanked version only to who has it locked.
Found(p) == cache[p] = "listed" \/ (cache[p] = "yanked" /\ p \in Locked)

query_no_fallback(p) ==
  /\ At(p, "answer")
  /\ Goto(p, IF Found(p) THEN "download" ELSE "failed")
  /\ UNCHANGED <<locks, shared, memory, ret, crashes, runs>>

query_always_updates(p) ==
  /\ At(p, "answer")
  /\ Goto(p, IF ~Found(p) /\ p \in Locked THEN "update"
             ELSE IF Found(p) THEN "download" ELSE "failed")
  /\ UNCHANGED <<locks, shared, memory, ret, crashes, runs>>

\* Source::query: when a locked package is not found, update once and look again.
query(p) ==
  /\ At(p, "answer")
  /\ IF ~Found(p) /\ p \in Locked \ fellback
     THEN /\ fellback' = fellback \cup {p}
          /\ Goto(p, "update")
     ELSE /\ Goto(p, IF Found(p) THEN "download" ELSE "failed")
          /\ UNCHANGED fellback
  /\ UNCHANGED <<locks, shared, opened, head, cache, n, fetched, ret, crashes, runs>>

--------------------------------------------------------------------------------
(* The .crate file                                                         *)

\* RegistryData::download.  The remote one takes a file that is not empty.
download(p) ==
  /\ At(p, "download")
  /\ \/ /\ crate[Want[p]] = "absent"
        /\ Goto(p, "config")
        /\ UNCHANGED locks
     \/ /\ crate[Want[p]] = "empty"
        /\ Grantable(Want[p], "Shared")
        /\ Goto(p, "config")
        /\ UNCHANGED locks
     \/ /\ crate[Want[p]] \in {"partial", "full"}
        /\ Acquire(p, Want[p], "Shared")
        /\ Goto(p, "unpack")
  /\ UNCHANGED <<shared, memory, ret, crashes, runs>>

\* RemoteRegistry::config, for the url; then the HTTP handle, refused offline.
Config(p) ==
  /\ At(p, "config")
  /\ Grantable("index", "Shared")
  /\ Goto(p, IF p \in Offline THEN "failed" ELSE "network")
  /\ UNCHANGED <<locks, shared, memory, ret, crashes, runs>>

\* The download (see Downloads) and the test of its checksum.
Network(p) ==
  /\ At(p, "network")
  /\ Goto(p, "finish") \/ (MayFail /\ Goto(p, "failed"))
  /\ UNCHANGED <<locks, shared, memory, ret, crashes, runs>>

\* finish_download: open_rw creates the file before it waits for the lock.
OpenCrate(p) ==
  /\ At(p, "finish")
  /\ crate' = [crate EXCEPT ![Want[p]] = IF @ = "absent" THEN "empty" ELSE @]
  /\ Goto(p, "rw_lock")
  /\ UNCHANGED <<locks, scene, upstream, repo, ref, src, marked, memory, ret, crashes, runs>>

finish_download(p) ==
  /\ At(p, "rw_lock")
  /\ Acquire(p, Want[p], "Exclusive")
  /\ Goto(p, IF crate[Want[p]] = "empty" THEN "write" ELSE "unpack")
  /\ UNCHANGED <<shared, memory, ret, crashes, runs>>

\* write_all, in two halves; the second may fail (the disk is full).
WriteCrate(p) ==
  /\ At(p, "write")
  /\ LET k == Want[p] IN
     \/ /\ crate[k] # "partial"
        /\ crate' = [crate EXCEPT ![k] = "partial"]
        /\ UNCHANGED <<pc, locks>>
     \/ /\ crate[k] = "partial"
        /\ crate' = [crate EXCEPT ![k] = "full"]
        /\ Goto(p, "unpack")
        /\ UNCHANGED locks
     \/ /\ Torn /\ crate[k] = "partial"
        /\ Fail(p)
        /\ UNCHANGED crate
  /\ UNCHANGED <<scene, upstream, repo, ref, src, marked, memory, ret, crashes, runs>>

--------------------------------------------------------------------------------
(* The unpacked sources                                                    *)

unpack_package_marks_first(p) ==
  /\ At(p, "unpack")
  /\ n' = [n EXCEPT ![p] = 0]
  /\ marked' = marked \cup {Want[p]}
  /\ Goto(p, IF Want[p] \in marked THEN "read" ELSE "extract")
  /\ UNCHANGED <<locks, scene, upstream, repo, ref, crate, src, opened, head, cache, fellback,
                 fetched, ret, crashes, runs>>

unpack_package_always(p) ==
  /\ At(p, "unpack")
  /\ n' = [n EXCEPT ![p] = 0]
  /\ Goto(p, "extract")
  /\ UNCHANGED <<locks, shared, opened, head, cache, fellback, fetched, ret, crashes, runs>>

\* unpack_package takes a directory with a .cargo-ok as it is.
unpack_package(p) ==
  /\ At(p, "unpack")
  /\ n' = [n EXCEPT ![p] = 0]
  /\ Goto(p, IF Want[p] \in marked THEN "read" ELSE "extract")
  /\ UNCHANGED <<locks, shared, opened, head, cache, fellback, fetched, ret, crashes, runs>>

\* Entry::unpack_in creates, or truncates, the file and then fills it.  A
\* .crate file that was cut short ends in its last entry.
Extract(p) ==
  LET k == Want[p]
      i == 1 + n[p] \div 2
  IN /\ At(p, "extract") /\ n[p] < 2 * Entries
     /\ \/ /\ n[p] % 2 = 0
           /\ src' = [src EXCEPT ![k][i] = "partial"]
           /\ n' = [n EXCEPT ![p] = @ + 1]
           /\ UNCHANGED <<pc, locks>>
        \/ /\ n[p] % 2 = 1 /\ (crate[k] = "full" \/ i < Entries)
           /\ src' = [src EXCEPT ![k][i] = "whole"]
           /\ n' = [n EXCEPT ![p] = @ + 1]
           /\ UNCHANGED <<pc, locks>>
        \/ /\ n[p] % 2 = 1 /\ crate[k] # "full" /\ i = Entries
           /\ Fail(p)
           /\ UNCHANGED <<src, n>>
     /\ UNCHANGED <<scene, upstream, repo, ref, crate, marked, opened, head, cache, fellback,
                    fetched, ret, crashes, runs>>

\* File::create(.cargo-ok)
Mark(p) ==
  /\ At(p, "extract") /\ n[p] = 2 * Entries
  /\ marked' = marked \cup {Want[p]}
  /\ Goto(p, "read")
  /\ UNCHANGED <<locks, scene, upstream, repo, ref, crate, src, memory, ret, crashes, runs>>

\* The rest of get_pkg reads the manifest, the first entry here, and drops
\* the lock of the .crate file.  The sources are then used without a lock.
get_pkg(p) ==
  /\ At(p, "read")
  /\ IF src[Want[p]][1] = "whole"
     THEN Goto(p, "using") /\ Release(p, Want[p])
     ELSE Fail(p)
  /\ UNCHANGED <<shared, memory, ret, crashes, runs>>

Done(p) ==
  /\ At(p, "using")
  /\ Goto(p, "done")
  /\ UNCHANGED <<locks, shared, memory, ret, crashes, runs>>

--------------------------------------------------------------------------------
(* The world, and the specification                                        *)

Ended(p) == pc[p] \in {"done", "failed"}

Publish ==
  /\ upstream < MaxCommit
  /\ upstream' = upstream + 1
  /\ UNCHANGED <<locks, scene, repo, ref, crate, src, marked, memory, pc, ret, crashes, runs>>

Crash(p) ==
  /\ crashes < MaxCrashes
  /\ ~Ended(p)
  /\ Torn \/ ~(At(p, "write") /\ crate[Want[p]] = "partial")
  /\ crashes' = crashes + 1
  /\ Fail(p)
  /\ UNCHANGED <<shared, memory, ret, runs>>

\* A new invocation has an empty memory.
Rerun(p) ==
  /\ Ended(p) /\ runs[p] < MaxRuns
  /\ runs' = [runs EXCEPT ![p] = @ + 1]
  /\ Call(p, "start", "start")
  /\ opened' = opened \ {p} /\ fellback' = fellback \ {p}
  /\ head' = [head EXCEPT ![p] = 0] /\ fetched' = [fetched EXCEPT ![p] = 0]
  /\ cache' = [cache EXCEPT ![p] = "unknown"]
  /\ n' = [n EXCEPT ![p] = 0]
  /\ UNCHANGED <<locks, shared, crashes>>

Step(p) ==
  \/ Update(p) \/ do_update(p) \/ Prepare(p) \/ InitLock(p) \/ InitRepo(p)
  \/ update_index(p) \/ Fetch(p) \/ summaries(p) \/ LoadLock(p) \/ Load(p)
  \/ is_crate_downloaded(p) \/ query(p) \/ download(p) \/ Config(p) \/ Network(p)
  \/ OpenCrate(p) \/ finish_download(p) \/ WriteCrate(p) \/ unpack_package(p)
  \/ Extract(p) \/ Mark(p) \/ get_pkg(p) \/ Done(p)

Next ==
  \/ \E p \in Process : Step(p) \/ Crash(p) \/ Rerun(p)
  \/ Publish
  \/ (\A p \in Process : Ended(p)) /\ UNCHANGED vars

Spec == Init /\ [][Next]_vars

\* A process that may run does; a lock that is free is granted in the end.
FairSpec == Spec /\ \A p \in Process : WF_vars(Step(p))

--------------------------------------------------------------------------------
(* Properties                                                              *)

\* Two processes never unpack a package at the same time: there is only one, or
\* the one that wrote the .crate file holds it locked until it has unpacked it.
OneUnpacks == (\E p \in Process : scene.process = {p}) \/ (Remote /\ MaxCrashes = 0)

\* A directory with a .cargo-ok holds every file of the package: that is what
\* unpack_package takes the file to mean, also after a process was killed.
MarkedWhole == OneUnpacks => \A k \in marked : \A i \in 1..Entries : src[k][i] = "whole"

\* While a process compiles a package, which it does without a lock, no other
\* process rewrites its files; and a .crate file in which it starts to unpack was
\* written to its end: the test of the length in RemoteRegistry::download, under
\* a lock.  (A write cut short leaves a file that is neither empty nor whole.)
WholeWhileUsed ==
  \A p \in Process :
    /\ At(p, "using") => \A i \in 1..Entries : src[Want[p]][i] = "whole"
    /\ pc[p] \in {"unpack", "extract"} /\ ~Torn => crate[Want[p]] = "full"

\* A locked package is found, yanked or not, unless the index that the process
\* has fetched for its sake does not list it.
LockedFound ==
  [][\A p \in Locked \ Offline :
       At(p, "answer") /\ pc'[p] = "failed" /\ crashes' = crashes
         => Published[Want[p]] > fetched[p] /\ p \in fellback]_vars

\* The lock that each process waits for, if any.
Wants(p) ==
  CASE pc[p] \in {"init_lock", "fetch_lock"} -> {<<"index", "Exclusive">>}
    [] pc[p] \in {"load_lock", "config"} -> {<<"index", "Shared">>}
    [] pc[p] \in {"probe", "download"} /\ crate[Want[p]] # "absent" -> {<<Want[p], "Shared">>}
    [] pc[p] = "rw_lock" -> {<<Want[p], "Exclusive">>}
    [] OTHER -> {}

WaitsFor(p, q) == \E w \in Wants(p) : q \in Blockers(w[1], w[2])

\* Processes never wait for each other, nor one for itself, in a circle,
\* although some take the lock of a .crate file while they hold the index's.
NoWaitCycle ==
  \A S \in SUBSET Process :
    S # {} => \E p \in S : \A q \in S : ~WaitsFor(p, q)

\* Every invocation comes to its end.
EveryoneEnds == \A p \in Process : <>[]Ended(p)
================================================================================
