------------------------- MODULE RegistrySourcesProofs -------------------------
(***************************************************************************)
(* Proofs about the .crate files and the sources unpacked from them, where *)
(* the file system has locks for the .crate files: for any number of       *)
(* processes and packages, any number of files in a package, any crashes.  *)
(***************************************************************************)
EXTENDS RegistryCacheProofs

(* Who writes a .crate file has it to itself, and nobody goes past one     *)
(* that is only half written, unless a write may be cut short.             *)
CrateInv ==
  /\ Compatible
  /\ \A p \in Process :
       /\ pc[p] = "write" => locks[Want[p]][p] = "Exclusive"
       /\ pc[p] \in {"unpack", "extract", "read"} => locks[Want[p]][p] # "Unlocked"
       /\ pc[p] = "rw_lock" => crate[Want[p]] # "absent"
       /\ pc[p] = "write" => crate[Want[p]] \in {"empty", "partial"}
       /\ pc[p] \in {"unpack", "extract", "read"} => crate[Want[p]] \in {"partial", "full"}
       /\ pc[p] \in {"unpack", "extract"} /\ ~Torn => crate[Want[p]] = "full"
  /\ \A k \in Package : crate[k] = "partial" /\ ~Torn =>
       \E w \in Process : Want[w] = k /\ pc[w] = "write"

(* The sources of a package that lacks its .cargo-ok are unpacked by one   *)
(* process, from the first file on.                                        *)
SourceInv ==
  /\ \A p \in Process \ scene.process : pc[p] = "done" /\ runs[p] = MaxRuns
  /\ \A k \in marked : crate[k] = "full"
  /\ \A p \in Process :
       /\ pc[p] \in {"read", "using"} => Want[p] \in marked
       /\ pc[p] = "extract" => /\ n[p] <= 2 * Entries
                               /\ n[p] = 2 * Entries => crate[Want[p]] = "full"
  /\ Remote /\ MaxCrashes = 0 =>
       \A k \in Package \ marked : crate[k] = "full" =>
         \E w \in Process : /\ Want[w] = k /\ locks[k][w] = "Exclusive"
                            /\ pc[w] \in {"unpack", "extract"}
  /\ OneUnpacks =>
       /\ \A k \in marked : \A i \in 1..Entries : src[k][i] = "whole"
       /\ \A p \in Process : pc[p] = "extract" =>
            /\ Want[p] \notin marked
            /\ crate[Want[p]] = "full" =>
                 \A i \in 1..Entries : 2 * i <= n[p] => src[Want[p]][i] = "whole"

--------------------------------------------------------------------------------
(* From here on the files of packages are on a file system with locks.     *)

\* A .crate file is absent, or full in a local registry, at the start.
LEMMA CrateInit == Init => CrateInv
<1> SUFFICES ASSUME Init PROVE CrateInv
  OBVIOUS
<1>1. Compatible
  BY DEF Init, FileLockInit, Compatible, Conflict
<1>2. \A k \in Package : crate[k] \in {"absent", "full"}
  BY DEF Init
<1>3. \A p \in Process : pc[p] \in {"start", "done"}
  BY DEF Init
<1> QED BY <1>1, <1>2, <1>3 DEF CrateInv

\* No step makes two locks conflict: a lock is granted or given up.
LEMMA CompatibleStep ==
  ASSUME Typed, Compatible, NEW p \in Process, Step(p) \/ Crash(p) \/ Rerun(p)
  PROVE  Compatible'
<1>1. LockMove(p) /\ LocksTyped
  BY LockMoves DEF Typed
<1>2. CASE locks' = locks
  BY <1>2 DEF Compatible
<1>3. CASE \E f \in File, s \in State : Acquire(p, f, s)
  BY <1>1, <1>3, AcquireCompatible
<1>4. CASE (\E f \in File : Release(p, f)) \/ ReleaseAll(p)
  <2>1. \A g \in File, q \in Process : locks'[g][q] \in {locks[g][q], "Unlocked"}
    BY <1>1, <1>4, ReleaseEffect, ReleaseAllEffect
  <2> QED BY <1>1, <2>1, ReleaseCompatible
<1> QED BY <1>1, <1>2, <1>3, <1>4 DEF LockMove

(* A step that neither touches the files of a package nor leads a process  *)
(* to them or away from them.                                              *)
Quiet(p) ==
  /\ UNCHANGED <<crate, src, marked>>
  /\ pc[p] \notin {"write", "unpack", "extract", "read"}
  /\ pc'[p] \notin {"rw_lock", "write", "unpack", "extract", "read", "using"}

\* The steps on the index and the network are quiet; the nine others are named.
LEMMA QuietSteps ==
  ASSUME Typed, LockPlaces, NEW p \in Process, Step(p) \/ Crash(p) \/ Rerun(p)
  PROVE  \/ Quiet(p)
         \/ download(p) \/ OpenCrate(p) \/ finish_download(p) \/ WriteCrate(p)
         \/ unpack_package(p) \/ Extract(p) \/ Mark(p) \/ get_pkg(p) \/ Crash(p)
<1>1. Function(pc, Process)
  BY DEF Typed
<1> USE <1>1 DEF Function, Quiet, shared, At, Goto, Call, Fail
<1>2. CASE Update(p) \/ do_update(p) \/ InitLock(p) \/ update_index(p) \/ summaries(p) \/ LoadLock(p)
  BY <1>2 DEF Update, do_update, InitLock, update_index, summaries, LoadLock
<1>3. CASE Prepare(p) \/ InitRepo(p)
  <2>1. ret[p] \in {"fetch_lock", "load_lock"}
    BY <1>3 DEF Prepare, InitRepo, LockPlaces
  <2> QED BY <1>3, <2>1 DEF Prepare, InitRepo
<1>4. CASE Fetch(p) \/ Load(p) \/ is_crate_downloaded(p) \/ query(p)
  BY <1>4 DEF Fetch, Load, is_crate_downloaded, query
<1>5. CASE Config(p) \/ Network(p) \/ Done(p) \/ Rerun(p)
  BY <1>5 DEF Config, Network, Done, Rerun, Ended
<1> QED BY <1>2, <1>3, <1>4, <1>5 DEF Step

(* A .crate file is written under an exclusive lock by a process that      *)
(* found it empty.  Whoever gets a lock of it later finds it full, unless  *)
(* the write was cut short.                                                *)
LEMMA CrateStep ==
  ASSUME Inv, CrateInv, NoLocking \cap Package = {},
         NEW p \in Process, Step(p) \/ Crash(p) \/ Rerun(p)
  PROVE  CrateInv'
<1> DEFINE k == Want[p]
           Row(q) == /\ pc'[q] = "write" => locks'[Want[q]][q] = "Exclusive"
                     /\ pc'[q] \in {"unpack", "extract", "read"} => locks'[Want[q]][q] # "Unlocked"
                     /\ pc'[q] = "rw_lock" => crate'[Want[q]] # "absent"
                     /\ pc'[q] = "write" => crate'[Want[q]] \in {"empty", "partial"}
                     /\ pc'[q] \in {"unpack", "extract", "read"} => crate'[Want[q]] \in {"partial", "full"}
                     /\ pc'[q] \in {"unpack", "extract"} /\ ~Torn => crate'[Want[q]] = "full"
           Written == \A j \in Package : crate'[j] = "partial" /\ ~Torn =>
                        \E w \in Process : Want[w] = j /\ pc'[w] = "write"
<1>k. /\ k \in Package /\ k \in File /\ k \notin NoLocking /\ "index" \in File /\ "index" # k
      /\ "Shared" \in State /\ "Exclusive" \in State
      /\ \A q \in Process : Want[q] \in Package /\ Want[q] \in File
  BY RegistryAssumption DEF State
<1>t. /\ Function(pc, Process) /\ LocksTyped
      /\ crate \in [Package -> {"absent", "empty", "partial", "full"}]
  BY DEF Inv, Typed
<1>f. scene' = scene /\ \A q \in Process \ {p} :
        pc'[q] = pc[q] /\ \A f \in File : locks'[f][q] = locks[f][q]
  BY Frame DEF Inv
<1>p. \A q \in Process :
        /\ pc[q] = "write" => locks[Want[q]][q] = "Exclusive"
        /\ pc[q] \in {"unpack", "extract", "read"} => locks[Want[q]][q] # "Unlocked"
        /\ pc[q] = "rw_lock" => crate[Want[q]] # "absent"
        /\ pc[q] = "write" => crate[Want[q]] \in {"empty", "partial"}
        /\ pc[q] \in {"unpack", "extract", "read"} => crate[Want[q]] \in {"partial", "full"}
        /\ pc[q] \in {"unpack", "extract"} /\ ~Torn => crate[Want[q]] = "full"
  BY DEF CrateInv
<1>w. \A j \in Package : crate[j] = "partial" /\ ~Torn =>
        \E w \in Process : Want[w] = j /\ pc[w] = "write"
  BY DEF CrateInv
<1>c. Compatible /\ Compatible'
  BY CompatibleStep DEF Inv, CrateInv
<1>alone. pc[p] = "write" => \A q \in Process \ {p} : Want[q] = k =>
            pc[q] \notin {"write", "unpack", "extract", "read"}
  BY <1>p, <1>c, <1>k DEF Compatible, Conflict
<1> SUFFICES (\A q \in Process : Row(q)) /\ Written
  BY <1>c, <1>f DEF CrateInv, Torn
<1> USE DEF Function, shared, memory, At, Goto
<1>s. ASSUME crate' = crate, Row(p), pc[p] # "write" \/ Torn \/ crate[k] # "partial"
      PROVE  (\A q \in Process : Row(q)) /\ Written
  <2>1. \A q \in Process \ {p} : Row(q)
    BY <1>s, <1>f, <1>p, <1>k
  <2>2. Written
    BY <1>s, <1>f, <1>w
  <2> QED BY <1>s, <2>1, <2>2
<1>m. pc'[p] \notin {"rw_lock", "write", "unpack", "extract", "read"} => Row(p)
  OBVIOUS
<1>a. ASSUME NEW s \in State, Acquire(p, k, s)
      PROVE  /\ locks'[k][p] = s
             /\ s \in {"Shared", "Exclusive"} =>
                  \A q \in Process \ {p} : Want[q] = k => pc[q] # "write"
  <2>1. locks'[k][p] = s
    BY <1>a, <1>t, <1>k, AcquireEffect
  <2>2. ASSUME NEW q \in Process \ {p}, Want[q] = k, pc[q] = "write",
               s \in {"Shared", "Exclusive"}
        PROVE FALSE
    <3>1. locks'[k][q] = "Exclusive"
      BY <2>2, <1>f, <1>p, <1>k
    <3> QED BY <3>1, <2>1, <2>2, <1>c, <1>k DEF Compatible, Conflict
  <2> QED BY <2>1, <2>2
<1> HIDE DEF Row, Written, k
<1>1. CASE Quiet(p)
  BY <1>1, <1>s, <1>m DEF Quiet
<1>2. CASE download(p)
  <2>1. crate' = crate /\ pc[p] = "download" /\ pc'[p] \in {"config", "unpack"}
    BY <1>2, <1>t DEF download
  <2>2. CASE pc'[p] = "unpack"
    <3>1. Acquire(p, k, "Shared") /\ crate[k] \in {"partial", "full"}
      BY <1>2, <1>t, <2>2 DEF download, k
    <3>2. locks'[k][p] = "Shared" /\ \A q \in Process \ {p} : Want[q] = k => pc[q] # "write"
      BY <1>a, <1>k, <3>1
    <3>3. ~Torn => crate[k] = "full"
      BY <3>1, <3>2, <2>1, <1>w, <1>k
    <3>4. Row(p)
      BY <2>1, <2>2, <3>1, <3>2, <3>3 DEF Row, k
    <3> QED BY <1>s, <2>1, <3>4
  <2>3. CASE pc'[p] = "config"
    BY <1>s, <1>m, <2>1, <2>3
  <2> QED BY <2>1, <2>2, <2>3
<1>3. CASE OpenCrate(p)
  <2>1. /\ pc'[p] = "rw_lock"
        /\ crate' = [crate EXCEPT ![k] = IF @ = "absent" THEN "empty" ELSE @]
    BY <1>3, <1>t DEF OpenCrate, k
  <2>2. \A j \in Package : crate[j] # "absent" => crate'[j] = crate[j]
    BY <2>1, <1>t
  <2>3. \A j \in Package : crate'[j] # crate[j] => crate'[j] = "empty"
    BY <2>1, <1>t
  <2>4. crate'[k] # "absent"
    BY <2>1, <1>t, <1>k
  <2>5. Row(p)
    BY <2>1, <2>4 DEF Row, k
  <2>6. \A q \in Process \ {p} : Row(q)
    BY <2>2, <1>f, <1>p, <1>k DEF Row
  <2>7. Written
    BY <2>3, <1>3, <1>f, <1>w DEF Written, OpenCrate
  <2> QED BY <2>5, <2>6, <2>7
<1>4. CASE finish_download(p)
  <2>1. /\ crate' = crate /\ pc[p] = "rw_lock" /\ Acquire(p, k, "Exclusive")
        /\ pc'[p] = IF crate[k] = "empty" THEN "write" ELSE "unpack"
    BY <1>4, <1>t DEF finish_download, k
  <2>2. locks'[k][p] = "Exclusive" /\ \A q \in Process \ {p} : Want[q] = k => pc[q] # "write"
    BY <1>a, <1>k, <2>1
  <2>3. crate[k] # "absent"
    BY <2>1, <1>p DEF k
  <2>4. ~Torn => crate[k] # "partial"
    BY <2>1, <2>2, <1>w, <1>k
  <2>5. Row(p)
    BY <2>1, <2>2, <2>3, <2>4, <1>t, <1>k DEF Row, k
  <2> QED BY <1>s, <2>1, <2>5
<1>5. CASE WriteCrate(p)
  <2>1. pc[p] = "write"
    BY <1>5 DEF WriteCrate
  <2>2. \A j \in Package : j # k => crate'[j] = crate[j]
    BY <1>5, <1>t DEF WriteCrate, k
  <2>3. \A q \in Process \ {p} : Want[q] # k => Row(q)
    BY <2>2, <1>f, <1>p, <1>k DEF Row
  <2>4. \A q \in Process \ {p} : Want[q] = k => Row(q)
    <3>1. crate[k] # "absent" /\ crate'[k] # "absent"
      BY <1>5, <1>t, <1>p, <1>k, <2>1 DEF WriteCrate, k
    <3> QED BY <3>1, <2>1, <1>f, <1>alone DEF Row
  <2>5. CASE crate[k] # "partial" /\ crate' = [crate EXCEPT ![k] = "partial"] /\ UNCHANGED <<pc, locks>>
    <3>1. Row(p)
      BY <2>1, <2>5, <1>p, <1>t, <1>k DEF Row, k
    <3>2. Written
      BY <2>1, <2>2, <2>5, <1>w, <1>k DEF Written, k
    <3> QED BY <2>3, <2>4, <3>1, <3>2
  <2>6. CASE /\ crate[k] = "partial" /\ crate' = [crate EXCEPT ![k] = "full"]
             /\ pc' = [pc EXCEPT ![p] = "unpack"] /\ UNCHANGED locks
    <3>1. Row(p)
      BY <2>1, <2>6, <1>p, <1>t, <1>k DEF Row, k
    <3>2. ASSUME NEW j \in Package, crate'[j] = "partial", ~Torn
          PROVE  \E w \in Process : Want[w] = j /\ pc'[w] = "write"
      <4>1. j # k
        BY <3>2, <2>6, <1>t
      <4>2. PICK w \in Process : Want[w] = j /\ pc[w] = "write"
        BY <3>2, <4>1, <2>2, <1>w
      <4>3. w # p
        BY <4>1, <4>2 DEF k
      <4> QED BY <4>2, <4>3, <1>f
    <3> QED BY <2>3, <2>4, <3>1, <3>2 DEF Written
  <2>7. CASE Torn /\ crate[k] = "partial" /\ Fail(p) /\ UNCHANGED crate
    <3>1. pc'[p] = "failed"
      BY <2>7, <1>t DEF Fail
    <3> QED BY <1>s, <1>m, <2>7, <3>1
  <2> QED BY <1>5, <2>5, <2>6, <2>7 DEF WriteCrate, k
<1>6. CASE unpack_package(p)
  <2>1. crate' = crate /\ locks' = locks /\ pc[p] = "unpack" /\ pc'[p] \in {"read", "extract"}
    BY <1>6, <1>t DEF unpack_package
  <2>2. Row(p)
    BY <2>1, <1>p DEF Row
  <2> QED BY <1>s, <2>1, <2>2
<1>7. CASE Extract(p)
  <2>1. /\ crate' = crate /\ pc[p] = "extract"
        /\ (pc' = pc /\ locks' = locks) \/ pc'[p] = "failed"
    BY <1>7, <1>t DEF Extract, Fail
  <2>2. Row(p)
    BY <2>1, <1>p DEF Row
  <2> QED BY <1>s, <2>1, <2>2
<1>8. CASE Mark(p)
  <2>1. crate' = crate /\ locks' = locks /\ pc[p] = "extract" /\ pc'[p] = "read"
    BY <1>8, <1>t DEF Mark
  <2>2. Row(p)
    BY <2>1, <1>p DEF Row
  <2> QED BY <1>s, <2>1, <2>2
<1>9. CASE get_pkg(p)
  BY <1>9, <1>t, <1>s, <1>m DEF get_pkg, Fail
<1>10. CASE Crash(p)
  <2>1. crate' = crate /\ pc'[p] = "failed" /\ (pc[p] # "write" \/ Torn \/ crate[k] # "partial")
    BY <1>10, <1>t DEF Crash, Fail, k
  <2> QED BY <1>s, <1>m, <2>1
<1> QED BY QuietSteps, <1>1, <1>2, <1>3, <1>4, <1>5, <1>6, <1>7, <1>8, <1>9, <1>10 DEF Inv

\* No directory is marked at the start.
LEMMA SourceInit == Init => SourceInv
BY DEF Init, SourceInv, Remote, MaxRuns

(* A process that is outside of the scene does nothing. *)
LEMMA Insider ==
  ASSUME Typed, SourceInv, NEW p \in Process, Step(p) \/ Crash(p) \/ Rerun(p)
  PROVE  p \in scene.process
<1> SUFFICES ASSUME p \notin scene.process PROVE FALSE
  OBVIOUS
<1>1. pc[p] = "done" /\ runs[p] = MaxRuns /\ runs[p] \in Nat
  BY DEF SourceInv, Typed
<1>2. ~Crash(p) /\ ~Rerun(p)
  BY <1>1 DEF Crash, Rerun, Ended
<1> QED BY <1>1, <1>2 DEF Step, At, Update, do_update, Prepare, InitLock, InitRepo,
                    update_index, Fetch, summaries, LoadLock, Load, is_crate_downloaded, query,
                    download, Config, Network, OpenCrate, finish_download, WriteCrate,
                    unpack_package, Extract, Mark, get_pkg, Done

(* Two processes do not unpack a whole .crate file at the same time: the   *)
(* one that wrote it has it locked, or there is only one.                  *)
LEMMA SoleUnpacker ==
  ASSUME Typed, CrateInv, SourceInv, OneUnpacks, NEW p \in Process, NEW q \in Process, p # q,
         p \in scene.process,
         pc[p] = "extract", Want[q] = Want[p], crate[Want[p]] = "full"
  PROVE  pc[q] # "extract"
<1>1. CASE \E x \in Process : scene.process = {x}
  BY <1>1 DEF SourceInv
<1>2. CASE Remote /\ MaxCrashes = 0
  <2>1. Want[p] \in Package /\ Want[p] \in File
    BY RegistryAssumption
  <2>2. Want[p] \notin marked
    BY DEF SourceInv
  <2>3. PICK w \in Process : locks[Want[p]][w] = "Exclusive"
    BY <1>2, <2>1, <2>2 DEF SourceInv
  <2>4. locks[Want[p]][p] # "Unlocked" /\ (pc[q] = "extract" => locks[Want[p]][q] # "Unlocked")
    BY DEF CrateInv
  <2> QED BY <2>1, <2>3, <2>4 DEF CrateInv, Compatible, Conflict
<1> QED BY <1>1, <1>2 DEF OneUnpacks

(* The .cargo-ok is written by a process that has unpacked every file,     *)
(* while nobody else unpacks into the directory.                           *)
LEMMA SourceStep ==
  ASSUME Inv, CrateInv, SourceInv, NoLocking \cap Package = {},
         NEW p \in Process, Step(p) \/ Crash(p) \/ Rerun(p)
  PROVE  SourceInv'
<1> DEFINE k == Want[p]
           Row(q) == /\ pc'[q] \in {"read", "using"} => Want[q] \in marked'
                     /\ pc'[q] = "extract" =>
                          /\ n'[q] <= 2 * Entries
                          /\ n'[q] = 2 * Entries => crate'[Want[q]] = "full"
           Full == \A j \in marked' : crate'[j] = "full"
           Writer == Remote /\ MaxCrashes = 0 =>
                       \A j \in Package \ marked' : crate'[j] = "full" =>
                         \E w \in Process : /\ Want[w] = j /\ locks'[j][w] = "Exclusive"
                                            /\ pc'[w] \in {"unpack", "extract"}
           Whole == OneUnpacks => \A j \in marked' : \A i \in 1..Entries : src'[j][i] = "whole"
           Upto(q) == OneUnpacks => (pc'[q] = "extract" =>
                        /\ Want[q] \notin marked'
                        /\ crate'[Want[q]] = "full" =>
                             \A i \in 1..Entries : 2 * i <= n'[q] => src'[Want[q]][i] = "whole")
<1>k. /\ k \in Package /\ k \in File /\ k \notin NoLocking
      /\ \A j \in Package : j \in File
      /\ \A q \in Process : Want[q] \in Package
      /\ Entries \in Nat \ {0}
  BY RegistryAssumption
<1>t. /\ Function(pc, Process) /\ n \in [Process -> Nat] /\ marked \subseteq Package
      /\ crate \in [Package -> {"absent", "empty", "partial", "full"}]
      /\ src \in [Package -> [1..Entries -> {"none", "partial", "whole"}]]
  BY DEF Inv, Typed
<1>f. scene' = scene /\ \A q \in Process \ {p} :
        /\ pc'[q] = pc[q] /\ n'[q] = n[q] /\ runs'[q] = runs[q]
        /\ \A f \in File : locks'[f][q] = locks[f][q]
  BY Frame DEF Inv
<1>in. p \in scene.process
  BY Insider DEF Inv
<1>c. \A q \in Process :
        /\ pc[q] = "write" => locks[Want[q]][q] = "Exclusive" /\ crate[Want[q]] \in {"empty", "partial"}
        /\ pc[q] \in {"unpack", "extract", "read"} => locks[Want[q]][q] # "Unlocked"
        /\ pc[q] \in {"unpack", "extract", "read"} => crate[Want[q]] \in {"partial", "full"}
  BY DEF CrateInv
<1>o. \A q \in Process \ scene.process : pc'[q] = "done" /\ runs'[q] = MaxRuns
  BY <1>f, <1>in DEF SourceInv
<1>p. /\ \A j \in marked : crate[j] = "full"
      /\ \A q \in Process :
           /\ pc[q] \in {"read", "using"} => Want[q] \in marked
           /\ pc[q] = "extract" => /\ n[q] <= 2 * Entries
                                   /\ n[q] = 2 * Entries => crate[Want[q]] = "full"
  BY DEF SourceInv
<1>w. Remote /\ MaxCrashes = 0 =>
        \A j \in Package \ marked : crate[j] = "full" =>
          \E w \in Process : /\ Want[w] = j /\ locks[j][w] = "Exclusive"
                             /\ pc[w] \in {"unpack", "extract"}
  BY DEF SourceInv
<1>h. OneUnpacks =>
        /\ \A j \in marked : \A i \in 1..Entries : src[j][i] = "whole"
        /\ \A q \in Process : pc[q] = "extract" =>
             /\ Want[q] \notin marked
             /\ crate[Want[q]] = "full" =>
                  \A i \in 1..Entries : 2 * i <= n[q] => src[Want[q]][i] = "whole"
  BY DEF SourceInv
<1>sole. OneUnpacks /\ pc[p] = "extract" /\ crate[k] = "full" =>
           \A q \in Process \ {p} : Want[q] = k => pc[q] # "extract"
  BY <1>in, SoleUnpacker DEF Inv
<1> SUFFICES (\A q \in Process : Row(q) /\ Upto(q)) /\ Full /\ Writer /\ Whole
  BY SMTT(30), <1>o, <1>f DEF SourceInv, Remote, MaxCrashes, MaxRuns, OneUnpacks
<1> USE DEF Function, shared, memory, At, Goto
<1>s. ASSUME UNCHANGED <<marked, src, crate>>, pc[p] \notin {"unpack", "extract"},
             pc'[p] \notin {"extract", "read"}, pc'[p] = "using" => k \in marked
      PROVE  (\A q \in Process : Row(q) /\ Upto(q)) /\ Full /\ Writer /\ Whole
  <2>1. \A q \in Process : Row(q) /\ Upto(q)
    BY <1>s, <1>f, <1>p, <1>h
  <2>2. Full /\ Whole
    BY <1>s, <1>p, <1>h
  <2>3. Writer
    BY SMTT(30), <1>s, <1>f, <1>w, <1>k
  <2> QED BY <2>1, <2>2, <2>3
<1> HIDE DEF Row, Upto, Full, Writer, Whole, k
<1>1. CASE Quiet(p)
  BY <1>1, <1>s DEF Quiet
<1>2. CASE download(p)
  BY <1>2, <1>t, <1>s DEF download
<1>3. CASE OpenCrate(p)
  <2>1. /\ pc[p] = "finish" /\ pc'[p] = "rw_lock" /\ UNCHANGED <<marked, src>>
        /\ crate' = [crate EXCEPT ![k] = IF @ = "absent" THEN "empty" ELSE @]
    BY <1>3, <1>t DEF OpenCrate, k
  <2>2. \A j \in Package : crate'[j] = "full" <=> crate[j] = "full"
    BY <2>1, <1>t
  <2>3. \A q \in Process : Row(q) /\ Upto(q)
    BY <2>1, <2>2, <1>f, <1>p, <1>h, <1>k DEF Row, Upto
  <2>4. Full /\ Whole
    BY <2>1, <2>2, <1>p, <1>h, <1>t DEF Full, Whole
  <2>5. Writer
    BY <2>1, <2>2, <1>f, <1>w, <1>k DEF Writer
  <2> QED BY <2>3, <2>4, <2>5
<1>4. CASE finish_download(p)
  BY <1>4, <1>t, <1>s DEF finish_download
<1>5. CASE WriteCrate(p)
  <2>1. pc[p] = "write" /\ UNCHANGED <<marked, src>> /\ k \notin marked
    BY <1>5, <1>c, <1>p DEF WriteCrate, k
  <2>2. \A j \in Package : j # k => crate'[j] = crate[j]
    BY <1>5, <1>t DEF WriteCrate, k
  <2>3. \A q \in Process \ {p} : Want[q] = k => pc[q] # "extract"
    BY <2>1, <1>c, <1>k DEF CrateInv, Compatible, Conflict, k
  <2>4. pc'[p] \in {"write", "unpack", "failed"}
    BY <1>5, <2>1, <1>t DEF WriteCrate, Fail
  <2>5. \A q \in Process : Row(q)
    BY <2>1, <2>2, <2>3, <2>4, <1>f, <1>p, <1>k DEF Row
  <2>6. \A q \in Process : Upto(q)
    BY <2>1, <2>2, <2>3, <2>4, <1>f, <1>h, <1>k DEF Upto
  <2>7. Full /\ Whole
    BY <2>1, <2>2, <1>p, <1>h, <1>t DEF Full, Whole
  <2>8. crate'[k] = "full" => pc'[p] = "unpack" /\ locks' = locks
    BY <1>5, <1>c, <1>t, <1>k, <2>1 DEF WriteCrate, k
  <2>9. crate'[k] = "full" => pc'[p] = "unpack" /\ locks'[k][p] = "Exclusive"
    BY <2>1, <2>8, <1>c DEF k
  <2>10. ASSUME Remote /\ MaxCrashes = 0, NEW j \in Package \ marked', crate'[j] = "full"
         PROVE  \E w \in Process : /\ Want[w] = j /\ locks'[j][w] = "Exclusive"
                                   /\ pc'[w] \in {"unpack", "extract"}
    <3>1. CASE j = k
      BY <3>1, <2>9, <2>10 DEF k
    <3>2. CASE j # k
      <4>1. PICK w \in Process : /\ Want[w] = j /\ locks[j][w] = "Exclusive"
                                 /\ pc[w] \in {"unpack", "extract"}
        BY <3>2, <2>1, <2>2, <2>10, <1>w
      <4>2. w # p
        BY <4>1, <2>1
      <4> QED BY <4>1, <4>2, <1>f, <1>k
    <3> QED BY <3>1, <3>2
  <2> QED BY <2>5, <2>6, <2>7, <2>10 DEF Writer
<1>6. CASE unpack_package(p)
  <2>1. /\ UNCHANGED <<marked, src, crate, locks>> /\ pc[p] = "unpack" /\ n'[p] = 0
        /\ pc'[p] = IF k \in marked THEN "read" ELSE "extract"
    BY <1>6, <1>t DEF unpack_package, k
  <2>2. \A q \in Process : Row(q)
    BY SMTT(30), <2>1, <1>f, <1>p, <1>k DEF Row, k
  <2>3. Upto(p)
    BY <2>1 DEF Upto, k
  <2>4. \A q \in Process \ {p} : Upto(q)
    BY <2>1, <1>f, <1>h DEF Upto
  <2>5. Full /\ Whole
    BY <2>1, <1>p, <1>h DEF Full, Whole
  <2>6. Writer
    BY <2>1, <1>f, <1>w DEF Writer, k
  <2> QED BY <2>2, <2>3, <2>4, <2>5, <2>6
<1>7. CASE Extract(p)
  <2> DEFINE i == 1 + n[p] \div 2
  <2>1. UNCHANGED <<marked, crate>> /\ pc[p] = "extract" /\ n[p] \in Nat /\ n[p] < 2 * Entries
    BY <1>7, <1>t DEF Extract
  <2>2. \A j \in Package : j # k => src'[j] = src[j]
    BY <1>7, <1>t DEF Extract, k
  <2>3. \A q \in Process \ {p} : Row(q) /\ Upto(q)
    <3>1. \A q \in Process \ {p} : Row(q)
      BY <2>1, <1>f, <1>p DEF Row
    <3>2. ASSUME NEW q \in Process \ {p} PROVE Upto(q)
      <4>1. CASE Want[q] # k
        BY <4>1, <2>1, <2>2, <1>f, <1>h, <1>k DEF Upto
      <4>2. CASE Want[q] = k
        BY <4>2, <2>1, <1>f, <1>h, <1>sole DEF Upto
      <4> QED BY <4>1, <4>2
    <3> QED BY <3>1, <3>2
  <2>4. Full
    BY <2>1, <1>p DEF Full
  <2>5. Whole
    BY <2>1, <2>2, <1>h, <1>t DEF Whole, k
  <2>6. pc'[p] = "extract" => pc' = pc /\ locks' = locks
    BY <1>7, <1>t DEF Extract, Fail
  <2>7. pc'[p] # "extract" => pc'[p] = "failed" /\ crate[k] # "full"
    BY <1>7, <2>1, <1>t DEF Extract, Fail, k
  <2>8. Writer
    BY SMTT(30), <2>1, <2>6, <2>7, <1>f, <1>w, <1>k DEF Writer, k
  <2>9. CASE pc'[p] # "extract"
    BY <2>7, <2>9, <2>3, <2>4, <2>5, <2>8 DEF Row, Upto
  <2>10. CASE pc'[p] = "extract" /\ n[p] % 2 = 0
    <3>1. n'[p] = n[p] + 1 /\ src' = [src EXCEPT ![k][i] = "partial"]
      BY <1>7, <2>10, <1>t DEF Extract, Fail, k
    <3>2. /\ n'[p] <= 2 * Entries /\ n'[p] # 2 * Entries
          /\ \A j \in 1..Entries : 2 * j <= n'[p] => 2 * j <= n[p] /\ j # i
      BY <3>1, <2>1, <2>10, <1>k
    <3> HIDE DEF i
    <3>3. Row(p)
      BY <3>2, <2>10 DEF Row
    <3>4. Upto(p)
      BY <3>1, <3>2, <2>1, <1>h, <1>t, <1>k DEF Upto, k
    <3> QED BY <2>3, <2>4, <2>5, <2>8, <3>3, <3>4
  <2>11. CASE pc'[p] = "extract" /\ n[p] % 2 # 0
    <3>0. n[p] % 2 = 1
      BY SMTT(30), <2>1, <2>11
    <3>1. /\ n'[p] = n[p] + 1 /\ src' = [src EXCEPT ![k][i] = "whole"]
          /\ crate[k] = "full" \/ i < Entries
      BY <1>7, <2>11, <3>0, <1>t DEF Extract, Fail, k
    <3>2. /\ n'[p] <= 2 * Entries /\ i \in 1..Entries
          /\ n'[p] = 2 * Entries => i = Entries
          /\ \A j \in 1..Entries : 2 * j <= n'[p] => 2 * j <= n[p] \/ j = i
      BY <3>1, <2>1, <3>0, <1>k
    <3>3. n'[p] = 2 * Entries => crate[k] = "full"
      BY <3>1, <3>2, <1>k
    <3> HIDE DEF i
    <3>4. Row(p)
      BY <3>2, <3>3, <2>1, <2>11 DEF Row, k
    <3>5. Upto(p)
      BY <3>1, <3>2, <2>1, <1>h, <1>t, <1>k DEF Upto, k
    <3> QED BY <2>3, <2>4, <2>5, <2>8, <3>4, <3>5
  <2> QED BY <2>9, <2>10, <2>11
<1>8. CASE Mark(p)
  <2>1. /\ UNCHANGED <<src, crate, locks, n>> /\ pc[p] = "extract" /\ n[p] = 2 * Entries
        /\ pc'[p] = "read" /\ marked' = marked \cup {k}
    BY <1>8, <1>t DEF Mark, k
  <2>2. crate[k] = "full"
    BY <2>1, <1>p DEF k
  <2>3. \A q \in Process : Row(q)
    BY <2>1, <1>f, <1>p DEF Row, k
  <2>4. \A q \in Process : Upto(q)
    BY ZenonT(30), <2>1, <2>2, <1>f, <1>h, <1>sole DEF Upto
  <2>5. Full
    BY <2>1, <2>2, <1>p DEF Full
  <2>6. Whole
    <3>1. \A i \in 1..Entries : 2 * i <= n[p]
      BY <2>1, <1>k
    <3> QED BY <2>1, <2>2, <3>1, <1>h DEF Whole, k
  <2>7. Writer
    BY <2>1, <1>f, <1>w, <1>k DEF Writer, k
  <2> QED BY <2>3, <2>4, <2>5, <2>6, <2>7
<1>9. CASE get_pkg(p)
  <2>1. UNCHANGED <<marked, src, crate>> /\ pc[p] = "read" /\ pc'[p] \in {"using", "failed"}
    BY <1>9, <1>t DEF get_pkg, Fail
  <2> QED BY <1>s, <2>1, <1>p DEF k
<1>10. CASE Crash(p)
  <2>1. UNCHANGED <<marked, src, crate>> /\ pc'[p] = "failed" /\ MaxCrashes # 0
    BY <1>10, <1>t DEF Crash, Fail, Inv, Typed
  <2>2. \A q \in Process : Row(q) /\ Upto(q)
    <3>1. Row(p) /\ Upto(p)
      BY <2>1 DEF Row, Upto
    <3>2. \A q \in Process \ {p} : Row(q)
      BY <2>1, <1>f, <1>p DEF Row
    <3>3. \A q \in Process \ {p} : Upto(q)
      BY <2>1, <1>f, <1>h DEF Upto
    <3> QED BY <3>1, <3>2, <3>3
  <2>3. Full /\ Whole /\ Writer
    BY <2>1, <1>p, <1>h DEF Full, Whole, Writer
  <2> QED BY <2>2, <2>3
<1> QED BY QuietSteps, <1>1, <1>2, <1>3, <1>4, <1>5, <1>6, <1>7, <1>8, <1>9, <1>10 DEF Inv

CacheInv == Inv /\ CrateInv /\ SourceInv

(***************************************************************************)
(* Where the .crate files can be locked, a file that is being written      *)
(* belongs to its writer, who keeps it until the sources are unpacked and  *)
(* marked.                                                                 *)
(***************************************************************************)
THEOREM SourcesInvariant == NoLocking \cap Package = {} => (Spec => []CacheInv)
<1> SUFFICES ASSUME NoLocking \cap Package = {} PROVE Spec => []CacheInv
  OBVIOUS
<1>1. Init => CacheInv
  BY TypedInit, LockPlacesInit, IndexInit, CrateInit, SourceInit DEF Inv, CacheInv
<1>2. CacheInv /\ [Next]_vars => CacheInv'
  <2> SUFFICES ASSUME CacheInv, [Next]_vars PROVE CacheInv'
    OBVIOUS
  <2>1. Inv'
    BY InvStep DEF CacheInv
  <2>2. ASSUME NEW p \in Process, Step(p) \/ Crash(p) \/ Rerun(p) PROVE CrateInv' /\ SourceInv'
    BY <2>2, CrateStep, SourceStep DEF CacheInv
  <2>3. ASSUME Publish \/ UNCHANGED vars PROVE CrateInv' /\ SourceInv'
    <3>1. UNCHANGED <<locks, scene, crate, src, marked, n, pc, runs>>
      BY <2>3 DEF Publish, vars, shared, memory
    <3>2. CrateInv'
      BY <3>1 DEF CacheInv, CrateInv, Compatible, Torn
    <3>3. SourceInv'
      BY SMTT(30), <3>1 DEF CacheInv, SourceInv, OneUnpacks, Remote, MaxCrashes, MaxRuns
    <3> QED BY <3>2, <3>3
  <2> QED BY <2>1, <2>2, <2>3 DEF Next, CacheInv
<1> QED BY <1>1, <1>2, PTL DEF Spec

(***************************************************************************)
(* A .cargo-ok stands for sources that are whole: no interleaving of       *)
(* processes that download and unpack the same package, and no kill of a   *)
(* process that is alone, leaves a marked directory with a file missing.   *)
(***************************************************************************)
THEOREM MarkedIsWhole == NoLocking \cap Package = {} => (Spec => []MarkedWhole)
<1>1. CacheInv => MarkedWhole
  BY DEF CacheInv, SourceInv, MarkedWhole
<1> QED BY <1>1, SourcesInvariant, PTL

(***************************************************************************)
(* Sources stay whole while they are compiled, although they are read      *)
(* without a lock; and no process unpacks a .crate file that another one   *)
(* has only begun to write.                                                *)
(***************************************************************************)
THEOREM SourcesStayWhole ==
  NoLocking \cap Package = {} => (Spec => [](OneUnpacks => WholeWhileUsed))
<1>1. CacheInv => (OneUnpacks => WholeWhileUsed)
  BY DEF CacheInv, CrateInv, SourceInv, WholeWhileUsed, At
<1> QED BY <1>1, SourcesInvariant, PTL
================================================================================
