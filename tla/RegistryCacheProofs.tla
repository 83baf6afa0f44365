-------------------------- MODULE RegistryCacheProofs --------------------------
(***************************************************************************)
(* Proofs about the registry index and the locks of the cache, for any     *)
(* number of processes, packages, commits and runs.  The proofs about the  *)
(* .crate files and the unpacked sources are in RegistrySourcesProofs.     *)
(***************************************************************************)
EXTENDS RegistryCache, TLAPS

--------------------------------------------------------------------------------
(* What acquiring and releasing do to the table of locks                   *)

LocksTyped == locks \in [File -> [Process -> State]]

\* No two handles hold conflicting locks on a file.
Compatible ==
  \A f \in File : \A p, q \in Process : p # q => ~Conflict(locks[f][p], locks[f][q])

\* Nobody else's lock, and no lock of another file, is touched by `acquire`; a
\* file without working locks is left as it is.
LEMMA AcquireEffect ==
  ASSUME NEW p \in Process, NEW f \in File, NEW s \in State, LocksTyped, Acquire(p, f, s)
  PROVE  /\ LocksTyped'
         /\ f \notin NoLocking => locks'[f][p] = s
         /\ f \in NoLocking => locks'[f][p] = locks[f][p]
         /\ \A g \in File, q \in Process :
              g # f \/ q # p => locks'[g][q] = locks[g][q]
BY DEF LocksTyped, Acquire

\* FileLock::drop gives up this one lock.
LEMMA ReleaseEffect ==
  ASSUME NEW p \in Process, NEW f \in File, LocksTyped, Release(p, f)
  PROVE  /\ LocksTyped'
         /\ locks'[f][p] = "Unlocked"
         /\ \A g \in File, q \in Process :
              g # f \/ q # p => locks'[g][q] = locks[g][q]
BY DEF LocksTyped, Release, State

\* A process that ends gives up all its locks and nobody else's.
LEMMA ReleaseAllEffect ==
  ASSUME NEW p \in Process, LocksTyped, ReleaseAll(p)
  PROVE  /\ LocksTyped'
         /\ \A g \in File : locks'[g][p] = "Unlocked"
         /\ \A g \in File, q \in Process : q # p => locks'[g][q] = locks[g][q]
BY DEF LocksTyped, ReleaseAll, State

\* A lock is granted only when it goes together with those held.
LEMMA AcquireCompatible ==
  ASSUME NEW p \in Process, NEW f \in File, NEW s \in State, LocksTyped, Compatible,
         Acquire(p, f, s)
  PROVE  Compatible'
<1>1. /\ LocksTyped'
      /\ f \notin NoLocking => locks'[f][p] = s
      /\ f \in NoLocking => locks'[f][p] = locks[f][p]
      /\ \A g \in File, q \in Process :
           g # f \/ q # p => locks'[g][q] = locks[g][q]
  BY AcquireEffect
<1>2. f \notin NoLocking => \A q \in Process : ~Conflict(s, locks[f][q])
  BY DEF Acquire, Grantable
<1> QED BY <1>1, <1>2 DEF Compatible, Conflict

\* Giving up locks never makes two of them conflict.
LEMMA ReleaseCompatible ==
  ASSUME LocksTyped, Compatible,
         \A g \in File, q \in Process : locks'[g][q] \in {locks[g][q], "Unlocked"}
  PROVE  Compatible'
BY DEF Compatible, Conflict

--------------------------------------------------------------------------------
(* The inductive invariant                                                 *)

\* f is a function on S; what its values are is said where it matters.
Function(f, S) == f = [x \in S |-> f[x]]

Typed ==
  /\ LocksTyped
  /\ scene \in Scenes
  /\ upstream \in Nat /\ repo \in BOOLEAN /\ ref \in Nat
  /\ crate \in [Package -> {"absent", "empty", "partial", "full"}]
  /\ src \in [Package -> [1..Entries -> {"none", "partial", "whole"}]]
  /\ marked \subseteq Package
  /\ Function(pc, Process) /\ Function(ret, Process)
  /\ opened \subseteq Process /\ fellback \subseteq Process
  /\ head \in [Process -> Nat] /\ fetched \in [Process -> Nat]
  /\ cache \in [Process -> {"unknown", "missing", "yanked", "listed"}]
  /\ n \in [Process -> Nat]
  /\ crashes \in Nat /\ runs \in [Process -> Nat]

(***************************************************************************)
(* Where locks are held.  The lock of the index is held only in the four   *)
(* places that use the index, the lock of a .crate file only from its      *)
(* download to the end of get_pkg; the index is never opened while it is   *)
(* locked for a look-up, because `prepare` came first.                     *)
(***************************************************************************)
LockPlaces ==
  /\ \A p \in Process :
       /\ locks["index"][p] # "Unlocked" => pc[p] \in {"init", "fetch", "load", "probe"}
       /\ \A k \in Package : locks[k][p] # "Unlocked" =>
            k = Want[p] /\ pc[p] \in {"write", "unpack", "extract", "read"}
       /\ pc[p] \in {"prepare", "init_lock", "init"} => ret[p] \in {"fetch_lock", "load_lock"}
       /\ Remote /\ pc[p] \in {"load_lock", "load"} => p \in opened
       /\ pc[p] \in {"fetch_lock", "fetch"} => p \in opened

(* The index a process looks at is at least as new as what it has fetched. *)
IndexInv ==
  /\ ~repo => ref = 0
  /\ ref <= upstream
  /\ \A p \in Process :
       /\ p \in opened => repo
       /\ fetched[p] <= ref
       /\ head[p] # 0 => fetched[p] <= head[p]
       /\ pc[p] = "fetch" => head[p] = 0
       /\ pc[p] = "probe" => p \in Offline
       /\ pc[p] = "answer" => cache[p] # "unknown"
       /\ p \notin Offline /\ cache[p] = "missing" => fetched[p] < Published[Want[p]]

Inv == Typed /\ LockPlaces /\ IndexInv

--------------------------------------------------------------------------------
(* The invariant is inductive                                              *)

(* How a step of `p` changes the table of locks. *)
LockMove(p) ==
  \/ locks' = locks
  \/ \E f \in File, s \in State : Acquire(p, f, s)
  \/ \E f \in File : Release(p, f)
  \/ ReleaseAll(p)

\* A step takes one lock, drops one, drops all its locks or none.
LEMMA LockMoves ==
  ASSUME NEW p \in Process, Step(p) \/ Crash(p) \/ Rerun(p)
  PROVE  LockMove(p)
<1>1. Want[p] \in File /\ "index" \in File /\ "Shared" \in State /\ "Exclusive" \in State
  BY RegistryAssumption DEF State
<1> USE DEF LockMove, Fail, shared
<1>2. CASE InitLock(p) \/ update_index(p) \/ LoadLock(p) \/ download(p) \/ finish_download(p)
  BY <1>1, <1>2 DEF InitLock, update_index, LoadLock, download, finish_download
<1>3. CASE InitRepo(p) \/ Fetch(p) \/ Load(p) \/ is_crate_downloaded(p) \/ get_pkg(p)
  BY <1>1, <1>3 DEF InitRepo, Fetch, Load, is_crate_downloaded, get_pkg
<1>4. CASE WriteCrate(p) \/ Extract(p) \/ Crash(p) \/ Rerun(p)
  BY <1>4 DEF WriteCrate, Extract, Crash, Rerun
<1>5. CASE \/ Update(p) \/ do_update(p) \/ Prepare(p) \/ summaries(p) \/ query(p) \/ Config(p)
           \/ Network(p) \/ OpenCrate(p) \/ unpack_package(p) \/ Mark(p) \/ Done(p)
  BY <1>5 DEF Update, do_update, Prepare, summaries, query, Config, Network, OpenCrate,
              unpack_package, Mark, Done
<1> QED BY <1>2, <1>3, <1>4, <1>5 DEF Step

(* A step of `p` leaves the memory and the locks of everybody else alone.  *)
LEMMA Frame ==
  ASSUME Typed, NEW p \in Process, Step(p) \/ Crash(p) \/ Rerun(p)
  PROVE  /\ scene' = scene
         /\ \A q \in Process \ {p} :
              /\ pc'[q] = pc[q] /\ ret'[q] = ret[q]
              /\ head'[q] = head[q] /\ cache'[q] = cache[q]
              /\ n'[q] = n[q] /\ fetched'[q] = fetched[q] /\ runs'[q] = runs[q]
              /\ q \in opened' <=> q \in opened
              /\ \A f \in File : locks'[f][q] = locks[f][q]
<1>1. LockMove(p) /\ LocksTyped
  BY LockMoves DEF Typed
<1>2. \A f \in File : \A q \in Process \ {p} : locks'[f][q] = locks[f][q]
  BY <1>1, AcquireEffect, ReleaseEffect, ReleaseAllEffect DEF LockMove
<1> USE DEF Function, shared, memory, At, Goto, Call, Fail
<1>3. CASE \/ Update(p) \/ do_update(p) \/ Prepare(p) \/ InitLock(p) \/ InitRepo(p)
           \/ update_index(p) \/ Fetch(p) \/ summaries(p) \/ LoadLock(p) \/ Load(p)
  BY <1>2, <1>3 DEF Typed, Update, do_update, Prepare, InitLock, InitRepo, update_index,
                    Fetch, summaries, LoadLock, Load
<1>4. CASE \/ is_crate_downloaded(p) \/ query(p) \/ download(p) \/ Config(p) \/ Network(p)
           \/ OpenCrate(p) \/ finish_download(p) \/ WriteCrate(p)
  BY <1>2, <1>4 DEF Typed, is_crate_downloaded, query, download, Config, Network, OpenCrate,
                    finish_download, WriteCrate
<1>5. CASE \/ unpack_package(p) \/ Extract(p) \/ Mark(p) \/ get_pkg(p) \/ Done(p)
           \/ Crash(p) \/ Rerun(p)
  BY <1>2, <1>5 DEF Typed, unpack_package, Extract, Mark, get_pkg, Done, Crash, Rerun
<1> QED BY <1>3, <1>4, <1>5 DEF Step

\* Typed holds at the start: every process is outside, with nothing locked.
LEMMA TypedInit == Init => Typed
<1> SUFFICES ASSUME Init PROVE Typed
  OBVIOUS
<1>1. LocksTyped
  BY DEF Init, FileLockInit, LocksTyped, State
<1>2. scene \in Scenes /\ upstream \in Nat
  BY RegistryAssumption DEF Init
<1>3. runs \in [Process -> Nat]
  BY <1>2, RegistryAssumption DEF Init, MaxRuns
<1>4. Function(pc, Process) /\ Function(ret, Process)
  BY DEF Init, Function
<1> QED BY <1>1, <1>2, <1>3, <1>4 DEF Init, Typed

\* No step gives a variable a value of another type.
LEMMA TypedStep ==
  ASSUME Typed, LockPlaces, NEW p \in Process, Step(p) \/ Crash(p) \/ Rerun(p)
  PROVE  Typed'
<1>1. LockMove(p) /\ LocksTyped
  BY LockMoves DEF Typed
<1>2. LocksTyped'
  <2>1. locks' = locks => LocksTyped'
    BY <1>1 DEF LocksTyped
  <2> QED BY <1>1, <2>1, AcquireEffect, ReleaseEffect, ReleaseAllEffect DEF LockMove
<1>3. Want[p] \in Package
  BY RegistryAssumption
<1>4. Listing(p) \in {"missing", "yanked", "listed"} /\ HeadOf(p) \in Nat
  BY RegistryAssumption DEF Listing, HeadOf, Typed
<1>5. Function(pc', Process) /\ Function(ret', Process)
  <2> USE DEF Typed, Function, shared, Goto, Call, Fail
  <2>1. CASE Step(p)
    BY <2>1 DEF Step, Update, do_update, Prepare, InitLock, InitRepo, update_index, Fetch, summaries,
                LoadLock, Load, is_crate_downloaded, query, download, Config, Network, OpenCrate,
                finish_download, WriteCrate, unpack_package, Extract, Mark, get_pkg, Done
  <2>2. CASE Crash(p) \/ Rerun(p)
    BY <2>2 DEF Crash, Rerun
  <2> QED BY <2>1, <2>2
<1> DEFINE Rest == /\ scene' \in Scenes
                   /\ upstream' \in Nat /\ repo' \in BOOLEAN /\ ref' \in Nat
                   /\ crate' \in [Package -> {"absent", "empty", "partial", "full"}]
                   /\ src' \in [Package -> [1..Entries -> {"none", "partial", "whole"}]]
                   /\ marked' \subseteq Package
                   /\ opened' \subseteq Process /\ fellback' \subseteq Process
                   /\ head' \in [Process -> Nat] /\ fetched' \in [Process -> Nat]
                   /\ cache' \in [Process -> {"unknown", "missing", "yanked", "listed"}]
                   /\ n' \in [Process -> Nat]
                   /\ crashes' \in Nat /\ runs' \in [Process -> Nat]
<1> SUFFICES Rest
  BY <1>2, <1>5 DEF Typed
<1> USE DEF Typed, shared, memory
<1>6. CASE \/ Update(p) \/ InitLock(p) \/ summaries(p) \/ LoadLock(p) \/ Config(p) \/ Network(p)
           \/ download(p) \/ finish_download(p) \/ get_pkg(p) \/ Done(p) \/ Crash(p)
  <2>1. UNCHANGED <<shared, memory, runs>> /\ crashes' \in {crashes, crashes + 1}
    BY <1>6 DEF Update, InitLock, summaries, LoadLock, Config, Network, download, finish_download,
                get_pkg, Done, Crash
  <2> QED BY <2>1
<1>7. CASE do_update(p) \/ Prepare(p) \/ update_index(p)
  BY <1>7 DEF do_update, Prepare, update_index
<1>14. CASE InitRepo(p)
  BY <1>14 DEF InitRepo
<1>8. CASE Fetch(p)
  <2>1. ref' \in Nat /\ fetched' \in [Process -> Nat]
    BY <1>8 DEF Fetch
  <2>2. cache' \in [Process -> {"unknown", "missing", "yanked", "listed"}]
    BY <1>8 DEF Fetch
  <2> QED BY <1>8, <2>1, <2>2 DEF Fetch
<1>9. CASE Load(p) \/ is_crate_downloaded(p) \/ query(p)
  BY <1>9, <1>4 DEF Load, is_crate_downloaded, query
<1>10. CASE OpenCrate(p) \/ WriteCrate(p)
  BY <1>10 DEF OpenCrate, WriteCrate
<1>11. CASE unpack_package(p) \/ Mark(p)
  BY <1>3, <1>11 DEF unpack_package, Mark
<1>12. CASE Extract(p)
  <2> DEFINE i == 1 + n[p] \div 2
  <2>1. \/ src' = src
        \/ src' = [src EXCEPT ![Want[p]][i] = "partial"]
        \/ src' = [src EXCEPT ![Want[p]][i] = "whole"]
    BY <1>12 DEF Extract
  <2>2. n' \in [Process -> Nat]
    BY <1>12 DEF Extract
  <2> HIDE DEF i
  <2>3. ASSUME NEW v \in {"none", "partial", "whole"}
        PROVE  [src EXCEPT ![Want[p]][i] = v]
                 \in [Package -> [1..Entries -> {"none", "partial", "whole"}]]
    OBVIOUS
  <2>4. src' \in [Package -> [1..Entries -> {"none", "partial", "whole"}]]
    BY <2>1, <2>3
  <2> QED BY <1>12, <2>2, <2>4 DEF Extract
<1>13. CASE Rerun(p)
  BY <1>13 DEF Rerun
<1> QED BY <1>6, <1>7, <1>8, <1>9, <1>10, <1>11, <1>12, <1>13, <1>14 DEF Step

\* Nothing is locked at the start.
LEMMA LockPlacesInit == Init => LockPlaces
<1> SUFFICES ASSUME Init PROVE LockPlaces
  OBVIOUS
<1>1. \A f \in File, p \in Process : locks[f][p] = "Unlocked"
  BY DEF Init, FileLockInit
<1> QED BY <1>1, RegistryAssumption DEF Init, LockPlaces

(* Only the process that moves has to be looked at: it takes a lock on its *)
(* way into the places that use it and drops it on its way out.            *)
LEMMA LockPlacesStep ==
  ASSUME Typed, LockPlaces, NEW p \in Process, Step(p) \/ Crash(p) \/ Rerun(p)
  PROVE  LockPlaces'
<1> DEFINE k == Want[p]
           Own == /\ locks'["index"][p] # "Unlocked" => pc'[p] \in {"init", "fetch", "load", "probe"}
                  /\ \A j \in Package : locks'[j][p] # "Unlocked" =>
                       j = k /\ pc'[p] \in {"write", "unpack", "extract", "read"}
                  /\ pc'[p] \in {"prepare", "init_lock", "init"} => ret'[p] \in {"fetch_lock", "load_lock"}
                  /\ Remote /\ pc'[p] \in {"load_lock", "load"} => p \in opened'
                  /\ pc'[p] \in {"fetch_lock", "fetch"} => p \in opened'
<1>k. /\ k \in Package /\ k \in File /\ "index" \in File /\ "Shared" \in State /\ "Exclusive" \in State
      /\ \A j \in Package : j \in File /\ j # "index"
  BY RegistryAssumption DEF State
<1>t. Function(pc, Process) /\ Function(ret, Process) /\ LocksTyped
  BY DEF Typed
<1>p. /\ locks["index"][p] # "Unlocked" => pc[p] \in {"init", "fetch", "load", "probe"}
      /\ \A j \in Package : locks[j][p] # "Unlocked" =>
           j = k /\ pc[p] \in {"write", "unpack", "extract", "read"}
      /\ pc[p] \in {"prepare", "init_lock", "init"} => ret[p] \in {"fetch_lock", "load_lock"}
      /\ Remote /\ pc[p] \in {"load_lock", "load"} => p \in opened
      /\ pc[p] \in {"fetch_lock", "fetch"} => p \in opened
  BY DEF LockPlaces
<1>a. /\ Acquire(p, "index", "Shared") \/ Acquire(p, "index", "Exclusive") =>
           \A j \in Package : locks'[j][p] = locks[j][p]
      /\ Acquire(p, k, "Shared") \/ Acquire(p, k, "Exclusive") =>
           \A f \in File : f # k => locks'[f][p] = locks[f][p]
  BY <1>k, <1>t, AcquireEffect
<1>r. /\ Release(p, "index") => /\ locks'["index"][p] = "Unlocked"
                                /\ \A j \in Package : locks'[j][p] = locks[j][p]
      /\ Release(p, k) => /\ locks'[k][p] = "Unlocked"
                          /\ \A f \in File : f # k => locks'[f][p] = locks[f][p]
      /\ ReleaseAll(p) => \A f \in File : locks'[f][p] = "Unlocked"
  BY <1>k, <1>t, ReleaseEffect, ReleaseAllEffect
<1>s. SUFFICES Own
  <2>1. scene' = scene /\ \A q \in Process \ {p} :
          /\ pc'[q] = pc[q] /\ ret'[q] = ret[q] /\ (q \in opened' <=> q \in opened)
          /\ \A f \in File : locks'[f][q] = locks[f][q]
    BY Frame
  <2> QED BY <1>k, <2>1 DEF LockPlaces, Remote
<1> USE <1>k, <1>t, <1>p DEF Function, shared, memory, At, Goto, Call, Fail
<1>1. CASE Update(p) \/ do_update(p) \/ Prepare(p) \/ summaries(p) \/ query(p)
  BY <1>1 DEF Update, do_update, Prepare, summaries, query
<1>2. CASE InitLock(p) \/ update_index(p) \/ LoadLock(p)
  BY <1>2, <1>a DEF InitLock, update_index, LoadLock
<1>8. CASE download(p) \/ finish_download(p)
  BY <1>8, <1>a DEF download, finish_download
<1>3. CASE InitRepo(p) \/ Fetch(p)
  BY <1>3, <1>r DEF InitRepo, Fetch
<1>4. CASE Load(p) \/ is_crate_downloaded(p) \/ get_pkg(p)
  BY <1>4, <1>r DEF Load, is_crate_downloaded, get_pkg
<1>5. CASE WriteCrate(p) \/ Extract(p) \/ Crash(p)
  BY <1>5, <1>r DEF WriteCrate, Extract, Crash
<1>6. CASE Config(p) \/ Network(p) \/ OpenCrate(p) \/ Rerun(p)
  BY <1>6 DEF Config, Network, OpenCrate, Rerun, Ended
<1>7. CASE unpack_package(p) \/ Mark(p) \/ Done(p)
  BY <1>7 DEF unpack_package, Mark, Done
<1> QED BY <1>1, <1>2, <1>3, <1>4, <1>5, <1>6, <1>7, <1>8 DEF Step

\* Nothing is fetched or known at the start.
LEMMA IndexInit == Init => IndexInv
BY RegistryAssumption DEF Init, IndexInv

(* A commit is never lost from the local index, so that what a process has *)
(* fetched it sees, whoever fetches or initializes the repository after it.*)
LEMMA IndexStep ==
  ASSUME Typed, LockPlaces, IndexInv, NEW p \in Process, Step(p) \/ Crash(p) \/ Rerun(p)
  PROVE  IndexInv'
<1> DEFINE Repository == /\ ~repo' => ref' = 0
                         /\ ref <= ref' /\ ref' <= upstream'
                         /\ repo => repo'
           Own == /\ p \in opened' => repo'
                  /\ fetched'[p] <= ref'
                  /\ head'[p] # 0 => fetched'[p] <= head'[p]
                  /\ pc'[p] = "fetch" => head'[p] = 0
                  /\ pc'[p] = "probe" => p \in Offline
                  /\ pc'[p] = "answer" => cache'[p] # "unknown"
                  /\ p \notin Offline /\ cache'[p] = "missing" =>
                       fetched'[p] < Published[Want[p]]
<1>t. /\ Function(pc, Process) /\ head \in [Process -> Nat]
      /\ fetched \in [Process -> Nat] /\ ref \in Nat /\ upstream \in Nat
      /\ cache \in [Process -> {"unknown", "missing", "yanked", "listed"}]
  BY DEF Typed
<1>p. /\ ~repo => ref = 0
      /\ ref <= upstream
      /\ p \in opened => repo
      /\ fetched[p] <= ref
      /\ head[p] # 0 => fetched[p] <= head[p]
      /\ pc[p] = "fetch" => head[p] = 0
      /\ pc[p] = "probe" => p \in Offline
      /\ pc[p] = "answer" => cache[p] # "unknown"
      /\ p \notin Offline /\ cache[p] = "missing" => fetched[p] < Published[Want[p]]
  BY DEF IndexInv
<1>w. Published[Want[p]] \in Nat \ {0} /\ Yanked[Want[p]] \in Nat
  BY RegistryAssumption
<1>s. SUFFICES Repository /\ Own
  <2>1. scene' = scene /\ \A q \in Process \ {p} :
          /\ pc'[q] = pc[q] /\ head'[q] = head[q] /\ cache'[q] = cache[q]
          /\ fetched'[q] = fetched[q] /\ (q \in opened' <=> q \in opened)
    BY Frame
  <2>2. ref' \in Nat
    BY TypedStep DEF Typed
  <2>3. \A q \in Process \ {p} : fetched'[q] <= ref'
    BY <1>t, <2>1, <2>2 DEF IndexInv
  <2> QED BY <2>1, <2>3 DEF IndexInv, Offline
<1> USE <1>t, <1>p DEF Function, shared, memory, At, Goto, Call, Fail
<1>1. CASE Update(p) \/ do_update(p) \/ InitLock(p) \/ update_index(p) \/ summaries(p) \/ LoadLock(p)
  BY <1>1 DEF Update, do_update, InitLock, update_index, summaries, LoadLock
<1>2. CASE Prepare(p) \/ InitRepo(p)
  <2>1. pc'[p] \in {"fetch_lock", "load_lock", "init_lock"}
    BY <1>2 DEF Prepare, InitRepo, LockPlaces, Typed
  <2>2. ref' = ref /\ (repo => repo') /\ (p \in opened' => repo')
    BY <1>2 DEF Prepare, InitRepo
  <2>3. UNCHANGED <<upstream, head, cache, fetched>> /\ (repo' = repo \/ repo')
    BY <1>2 DEF Prepare, InitRepo
  <2> QED BY <2>1, <2>2, <2>3
<1>3. CASE Fetch(p)
  <2>1. CASE pc'[p] = "failed"
    BY <1>3, <2>1 DEF Fetch
  <2>2. CASE pc'[p] # "failed"
    <3>1. /\ pc'[p] = "query" /\ ref' = upstream /\ fetched'[p] = upstream
          /\ cache'[p] = "unknown" /\ head'[p] = 0 /\ upstream' = upstream /\ repo' = repo
      BY <1>3, <2>2 DEF Fetch
    <3>2. repo
      BY <1>3 DEF Fetch, LockPlaces
    <3> QED BY <3>1, <3>2
  <2> QED BY <2>1, <2>2
<1>4. CASE Load(p)
  <2>1. ~(Remote /\ p \notin opened)
    BY <1>4 DEF Load, LockPlaces
  <2>2. UNCHANGED <<repo, ref, upstream, fetched, opened>>
    BY <1>4 DEF Load
  <2>3. HeadOf(p) \in Nat /\ fetched[p] <= HeadOf(p)
    BY DEF HeadOf
  <2>4. head'[p] # 0 => fetched'[p] <= head'[p]
    BY <1>4, <2>1, <2>2, <2>3 DEF Load
  <2>5. Listing(p) # "unknown" /\ (Listing(p) = "missing" => fetched[p] < Published[Want[p]])
    BY <1>w, <2>3 DEF Listing
  <2>6. /\ pc'[p] \in {"probe", "answer"}
        /\ pc'[p] = "probe" => p \in Offline
        /\ pc'[p] = "answer" => cache'[p] = Listing(p)
        /\ cache'[p] \in {cache[p], Listing(p)}
    BY <1>4, <2>1 DEF Load
  <2> QED BY <2>2, <2>4, <2>5, <2>6
<1>5. CASE is_crate_downloaded(p)
  BY <1>5, <1>w DEF is_crate_downloaded, Listing, HeadOf
<1>6. CASE query(p) \/ download(p) \/ Config(p) \/ Network(p) \/ OpenCrate(p) \/ finish_download(p)
  BY <1>6 DEF query, download, Config, Network, OpenCrate, finish_download
<1>7. CASE WriteCrate(p) \/ unpack_package(p) \/ Extract(p) \/ Mark(p) \/ get_pkg(p)
  BY <1>7 DEF WriteCrate, unpack_package, Extract, Mark, get_pkg
<1>8. CASE Done(p) \/ Crash(p) \/ Rerun(p)
  BY <1>8 DEF Done, Crash, Rerun, Ended
<1> QED BY <1>1, <1>2, <1>3, <1>4, <1>5, <1>6, <1>7, <1>8 DEF Step

\* Every step keeps the three parts of the invariant, a Publish included.
LEMMA InvStep == Inv /\ [Next]_vars => Inv'
<1> SUFFICES ASSUME Inv, [Next]_vars PROVE Inv'
  OBVIOUS
<1>1. ASSUME NEW p \in Process, Step(p) \/ Crash(p) \/ Rerun(p) PROVE Inv'
  <2>1. Typed'
    BY <1>1, TypedStep DEF Inv
  <2>2. LockPlaces'
    BY <1>1, LockPlacesStep DEF Inv
  <2>3. IndexInv'
    BY <1>1, IndexStep DEF Inv
  <2> QED BY <2>1, <2>2, <2>3 DEF Inv
<1>2. CASE Publish
  <2> USE <1>2 DEF Inv, Publish, memory
  <2>1. Typed'
    BY DEF Typed, LocksTyped
  <2>2. LockPlaces'
    BY DEF LockPlaces, Remote
  <2>3. IndexInv'
    <3>1. ref' <= upstream'
      BY DEF IndexInv, Typed
    <3> QED BY <3>1 DEF IndexInv, Offline
  <2> QED BY <2>1, <2>2, <2>3
<1>3. CASE UNCHANGED vars
  BY <1>3 DEF Inv, vars, shared, memory, Typed, LocksTyped, LockPlaces, Remote, IndexInv, Offline
<1> QED BY <1>1, <1>2, <1>3 DEF Next

(***************************************************************************)
(* Cache invariant: whoever runs, whatever is killed or run again and      *)
(* whether or not file locks work, locks are held only where the index or  *)
(* a .crate file is used, and the local index never goes back.             *)
(***************************************************************************)
THEOREM CacheInvariant == Spec => []Inv
<1>1. Init => Inv
  BY TypedInit, LockPlacesInit, IndexInit DEF Inv
<1> QED BY <1>1, InvStep, PTL DEF Spec

(***************************************************************************)
(* No deadlock on the locks of the cache: in any set of processes there is *)
(* one that waits for none of them.  Who holds the lock of a .crate file   *)
(* waits for nothing more; of those that hold the index only is_crate_     *)
(* downloaded waits, and it waits for the lock of a .crate file.           *)
(***************************************************************************)
THEOREM NoCircularWait == Spec => []NoWaitCycle
<1>1. Inv => NoWaitCycle
  <2> SUFFICES ASSUME Inv, NEW S \in SUBSET Process, S # {}
               PROVE  \E p \in S : \A q \in S : ~WaitsFor(p, q)
    BY DEF NoWaitCycle
  <2>1. \A p \in Process :
          /\ Wants(p) # {} /\ pc[p] # "probe" => \A f \in File : locks[f][p] = "Unlocked"
          /\ Wants(p) # {} => \A k \in Package : locks[k][p] = "Unlocked"
    BY RegistryAssumption DEF Wants, Inv, LockPlaces
  <2>2. \A p \in Process : \A w \in Wants(p) :
          w[1] \in File /\ (pc[p] = "probe" => w[1] \in Package)
    BY RegistryAssumption DEF Wants
  <2>3. \A p, q \in Process : WaitsFor(p, q) => \E w \in Wants(p) : locks[w[1]][q] # "Unlocked"
    BY DEF WaitsFor, Blockers, Conflict
  <2>4. CASE \E p \in S : Wants(p) = {}
    BY <2>4 DEF WaitsFor
  <2>5. CASE (\A p \in S : Wants(p) # {}) /\ \E p \in S : pc[p] = "probe"
    BY <2>1, <2>2, <2>3, <2>5
  <2>6. CASE \A p \in S : Wants(p) # {} /\ pc[p] # "probe"
    BY <2>1, <2>2, <2>3, <2>6
  <2> QED BY <2>4, <2>5, <2>6
<1> QED BY <1>1, CacheInvariant, PTL

(***************************************************************************)
(* A locked package is found unless the index that was fetched for its     *)
(* sake lacks it, whatever other processes do to the index meanwhile.      *)
(***************************************************************************)
THEOREM LockedIsFound == Spec => LockedFound
<1> DEFINE A == \A p \in Locked \ Offline :
                  At(p, "answer") /\ pc'[p] = "failed" /\ crashes' = crashes
                    => Published[Want[p]] > fetched[p] /\ p \in fellback
<1>1. Inv /\ [Next]_vars => [A]_vars
  <2> SUFFICES ASSUME Inv, Next, NEW p \in Locked \ Offline,
                      At(p, "answer"), pc'[p] = "failed", crashes' = crashes
               PROVE  Published[Want[p]] > fetched[p] /\ p \in fellback
    OBVIOUS
  <2>t. p \in Process
    BY RegistryAssumption DEF Inv, Typed, Locked
  <2>1. query(p)
    <3>1. \A q \in Process \ {p} : ~(Step(q) \/ Crash(q) \/ Rerun(q))
      BY <2>t, Frame DEF Inv, At
    <3>2. ~Crash(p) /\ ~Rerun(p) /\ ~Publish /\ ~UNCHANGED vars
      BY <2>t DEF Crash, Rerun, Ended, Publish, vars, At, Inv, Typed
    <3>3. Step(p)
      BY <3>1, <3>2 DEF Next
    <3> QED BY <3>3 DEF Step, At, Update, do_update, Prepare, InitLock, InitRepo, update_index,
                        Fetch, summaries, LoadLock, Load, is_crate_downloaded, download, Config,
                        Network, OpenCrate, finish_download, WriteCrate, unpack_package,
                        Extract, Mark, get_pkg, Done
  <2>2. p \in fellback /\ ~Found(p)
    BY <2>1, <2>t DEF query, Goto, Inv, Typed, Function
  <2>3. cache[p] = "missing"
    BY <2>2, <2>t DEF Found, At, Inv, Typed, IndexInv
  <2> QED BY <2>2, <2>3, <2>t, RegistryAssumption DEF Inv, Typed, IndexInv
<1>2. QED BY <1>1, CacheInvariant, PTL DEF Spec, LockedFound
================================================================================
