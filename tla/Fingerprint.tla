------------------------------ MODULE Fingerprint ------------------------------
(***************************************************************************)
(* What makes a unit fresh: core/compiler/fingerprint.rs with the jobs of  *)
(* core/compiler/mod.rs and core/compiler/custom_build.rs that write what  *)
(* the next session of Cargo reads back.                                   *)
(*                                                                         *)
(* A session computes the fingerprint of every unit, compares it with the  *)
(* one on disk, and then runs the jobs in dependency order, several at a   *)
(* time (see JobQueue); a job is dirty when its own fingerprint is, or     *)
(* when a dependency was rebuilt.  Between sessions files are edited,      *)
(* flags and environment change and outputs are deleted; jobs may fail,    *)
(* and Cargo is killed between any two writes.                             *)
(*                                                                         *)
(* Hashes are perfect (a hash is the value hashed), and an artifact is     *)
(* what it was built from.  A unit has one input file: its source, or, for *)
(* the run of a build script, the file the script reads.                   *)
(***************************************************************************)
EXTENDS Integers, FiniteSets, Sequences

CONSTANTS
  None,       \* no such file, mtime or hash
  Torn,       \* a file whose writing was interrupted
  AllUnits,   \* the units of all the scenes
  MaxVersion, \* bound on the versions of a file
  Scenes      \* the projects, and what may happen to them

(***************************************************************************)
(* A scene: its units, with the kind, dep_targets and package of each; the *)
(* possible flags (rustc, profile, RUSTFLAGS...), values of the script's   *)
(* variable, and directives a script may print; a bound on the clock;      *)
(* whether an edit and a build may fall in one tick, Cargo may be killed   *)
(* and jobs may fail.  Sources change between sessions only.               *)
(***************************************************************************)
ASSUME FingerprintAssumption ==
  /\ MaxVersion \in Nat
  /\ \A s \in Scenes :
       /\ s.unit \subseteq AllUnits
       /\ s.kind \in [s.unit -> {"path", "precalculated", "script", "run"}]
       /\ s.dep \in [s.unit -> SUBSET s.unit]
       /\ \A u \in s.unit : s.kind[u] = "run" => \E d \in s.dep[u] : s.kind[d] = "script"
       /\ s.maxTime \in Nat

VARIABLES
  scene,
  clock,     \* the file system's clock
  src,       \* unit -> its input file; a script's says what it prints
  flags, env,
  artifact,  \* unit -> its output files (a run's: the file `output`)
  depinfo,   \* unit -> mtime of its dep-info file (a run's: of `output`)
  short,     \* unit -> the hash file
  json,      \* unit -> the json file next to it
  session,   \* "idle" or "building"
  last,      \* how the last session ended
  quiet,     \* nothing has changed since the last session succeeded
  stage,     \* unit -> how far its job is
  dirty,     \* the units whose job is dirty
  reads,     \* unit -> what its running job has read
  local,     \* unit -> Fingerprint.local
  memo       \* unit -> Fingerprint.memoized_hash

Unit == scene.unit
Kind == scene.kind
Dep == scene.dep
Package == scene.package
Directives == scene.directives
MaxTime == scene.maxTime
Coarse == "coarse" \in scene.may
Interrupts == "interrupt" \in scene.may
MayFail == "fail" \in scene.may

world == <<scene, src, flags, env>>
disk == <<artifact, depinfo, short, json>>
sessionVars == <<session, last, stage, dirty, reads, local, memo>>
vars == <<clock, world, disk, sessionVars, quiet>>

Precalculated(v) == [kind |-> "Precalculated", val |-> v]
MtimeBased(m) == [kind |-> "MtimeBased", val |-> m]
EnvBased(e) == [kind |-> "EnvBased", val |-> e]

IsRun(u) == Kind[u] = "run"

\* "Skip the fingerprints of build scripts"; the run of one has no deps.
FpDeps(u) == IF IsRun(u) THEN {} ELSE {d \in Dep[u] : Kind[d] \notin {"script", "run"}}

--------------------------------------------------------------------------------
(* Calculating and comparing                                               *)

mtime_if_fresh_strict(output, mtime2) ==
  IF output = None \/ mtime2 > output THEN None ELSE output

mtime_if_fresh_swapped(output, mtime2) ==
  IF output = None \/ output >= mtime2 THEN None ELSE output

\* Equal mtimes are stale.
mtime_if_fresh(output, mtime2) ==
  IF output = None \/ mtime2 >= output THEN None ELSE output

\* PathSource::fingerprint: the last modified file of the package.
pkg_fingerprint(u) ==
  IF Kind[u] = "precalculated" THEN "version"
  ELSE LET files == {v \in Unit : Package[v] = Package[u]}
           latest == CHOOSE v \in files : \A w \in files : src[w].mtime <= src[v].mtime
       IN  <<src[latest].mtime, latest>>

\* The directives in the output file of the script's previous run.
prev_output(u) == IF artifact[u] = None THEN {} ELSE artifact[u].prints

local_fingerprints_deps(u, prints) ==
  (IF "file" \in prints THEN <<MtimeBased(mtime_if_fresh(depinfo[u], src[u].mtime))>> ELSE <<>>)
    \o (IF "env" \in prints THEN <<EnvBased(env)>> ELSE <<>>)

\* "If there are none then we're in the old mode": anything in the package counts.
build_script_local_fingerprints(u) ==
  IF prev_output(u) = {}
  THEN <<Precalculated(pkg_fingerprint(u))>>
  ELSE local_fingerprints_deps(u, prev_output(u))

use_dep_info(u) == Kind[u] \in {"path", "script"}

\* The local part of the fingerprint, by `calculate` unless u is the run of a script.
calculate_local(u) ==
  IF IsRun(u) THEN build_script_local_fingerprints(u)
  ELSE IF use_dep_info(u) THEN <<MtimeBased(mtime_if_fresh(depinfo[u], src[u].mtime))>>
  ELSE <<Precalculated(pkg_fingerprint(u))>>

FlagsOf(u) == IF IsRun(u) THEN None ELSE flags

\* Fingerprint::hash of every unit, given their local parts and what is memoized.
Hashes(loc, mem) ==
  LET hash[u \in Unit] ==
        IF mem[u] # None THEN mem[u]
        ELSE [flags |-> FlagsOf(u), local |-> loc[u], deps |-> [d \in FpDeps(u) |-> hash[d]]]
  IN  hash

\* The units whose hash the hash of u takes in.
Below == LET below[u \in Unit] == {u} \cup UNION {below[d] : d \in FpDeps(u)} IN below

\* Hashing the units in S memoizes theirs and the hashes below.
Memoized(S, hashes, mem) ==
  [u \in Unit |-> IF \E v \in S : u \in Below[v] THEN hashes[u] ELSE mem[u]]

should_rebuild(on_disk, previously_built) ==
  \/ on_disk = None /\ previously_built # None
  \/ on_disk # None /\ previously_built = None
  \/ on_disk # None /\ previously_built # None /\ on_disk > previously_built

compareLocal(new, old) ==
  /\ new.kind = old.kind
  /\ IF new.kind = "MtimeBased" THEN ~should_rebuild(new.val, old.val) ELSE new.val = old.val

\* Fingerprint::compare.
compare(u, loc, hashes, old) ==
  /\ FlagsOf(u) = old.flags
  /\ Len(loc) = Len(old.local)
  /\ \A i \in DOMAIN loc : compareLocal(loc[i], old.local[i])
  /\ \A d \in FpDeps(u) : hashes[d] = old.deps[d]

compare_old_fingerprint(u, loc, hashes) ==
  /\ short[u] # None
  /\ \/ short[u] = hashes[u]
     \/ json[u] \notin {None, Torn} /\ compare(u, loc[u], hashes, json[u])

missing_outputs(u) == ~IsRun(u) /\ artifact[u] = None

--------------------------------------------------------------------------------
(* A session                                                               *)

Prepare ==
  LET loc == [u \in Unit |-> calculate_local(u)]
      hashes == Hashes(loc, [u \in Unit |-> None])
  IN
  /\ session = "idle"
  /\ session' = "building"
  /\ local' = loc
  /\ memo' = Memoized({u \in Unit : short[u] # None}, hashes, [u \in Unit |-> None])
  /\ dirty' = {u \in Unit : ~compare_old_fingerprint(u, loc, hashes) \/ missing_outputs(u)}
  /\ stage' = [u \in Unit |-> "waiting"]
  /\ reads' = [u \in Unit |-> None]
  /\ last' = "none"
  /\ UNCHANGED <<clock, world, disk, quiet>>

Failed == \E u \in Unit : stage[u] = "failed"

MayStart(u) ==
  /\ session = "building" /\ ~Failed
  /\ stage[u] = "waiting"
  /\ \A d \in Dep[u] : stage[d] = "done"

\* The job of a fresh unit only links what is there.
RunFresh(u) ==
  /\ MayStart(u)
  /\ u \notin dirty
  /\ stage' = [stage EXCEPT ![u] = "done"]
  /\ UNCHANGED <<clock, world, disk, session, last, dirty, reads, local, memo, quiet>>

Content(u) == [ver |-> src[u].ver, prints |-> src[u].prints]

\* What a build of u from dependencies `built` is made of.
Build(u, built) ==
  LET prints == UNION {src[s].prints : s \in {d \in Dep[u] : IsRun(u) /\ Kind[d] = "script"}}
      usesFile == ~IsRun(u) \/ prints = {} \/ "file" \in prints
  IN  [src |-> IF usesFile THEN Content(u) ELSE None,
       flags |-> FlagsOf(u),
       env |-> IF "env" \in prints THEN env ELSE None,
       prints |-> prints,
       deps |-> [d \in Dep[u] |-> built[d]]]

\* rustc, or the build script, starts and reads its inputs.
StartDirty(u) ==
  /\ MayStart(u)
  /\ u \in dirty
  /\ reads' = [reads EXCEPT ![u] = Build(u, artifact)]
  /\ stage' = [stage EXCEPT ![u] = "running"]
  /\ UNCHANGED <<clock, world, disk, session, last, dirty, local, memo, quiet>>

\* rustc or the script fails, or a write does.
JobFails(u) ==
  /\ MayFail
  /\ stage[u] \in {"running", "built", "described", "hashed"}
  /\ stage' = [stage EXCEPT ![u] = "failed"]
  /\ UNCHANGED <<clock, world, disk, session, last, dirty, reads, local, memo, quiet>>

\* A build that does not share its clock tick with an edit.
TickForBuild == Coarse \/ \A v \in Unit : src[v].mtime # clock

\* rustc has written its outputs; a script's output file is written by Cargo.
WriteOutput(u) ==
  /\ stage[u] = "running"
  /\ artifact' = [artifact EXCEPT ![u] = reads[u]]
  /\ IF IsRun(u)
     THEN TickForBuild /\ depinfo' = [depinfo EXCEPT ![u] = clock]
     ELSE UNCHANGED depinfo
  /\ stage' = [stage EXCEPT ![u] = IF IsRun(u) THEN "described" ELSE "built"]
  /\ UNCHANGED <<clock, world, short, json, session, last, dirty, reads, local, memo, quiet>>

\* translate_dep_info
WriteDepInfo(u) ==
  /\ stage[u] = "built"
  /\ TickForBuild
  /\ depinfo' = [depinfo EXCEPT ![u] = clock]
  /\ stage' = [stage EXCEPT ![u] = "described"]
  /\ UNCHANGED <<clock, world, artifact, short, json>>
  /\ UNCHANGED <<session, last, dirty, reads, local, memo, quiet>>

\* update_local: the mtime slots take the mtime that the file has now.
Updated(loc, mtime) ==
  [i \in DOMAIN loc |-> IF loc[i].kind = "MtimeBased" THEN MtimeBased(mtime) ELSE loc[i]]

MemoKept(u, loc) == memo[u]

\* The memoized hash is dropped only if a slot was updated.
MemoAfterUpdate(u, loc) ==
  IF \E i \in DOMAIN loc : loc[i].kind = "MtimeBased" THEN None ELSE memo[u]

\* The closures that end in write_fingerprint: a build script that printed
\* directives has its local part replaced; one that did not is written as it was.
WriteShort(u) ==
  LET prints == reads[u].prints
      new == IF IsRun(u) THEN local_fingerprints_deps(u, prints) ELSE local[u]
      keep == IsRun(u) /\ prints = {}
      loc == IF keep THEN local ELSE [local EXCEPT ![u] = Updated(new, depinfo[u])]
      mem == IF keep THEN memo ELSE [memo EXCEPT ![u] = MemoAfterUpdate(u, new)]
      hashes == Hashes(loc, mem)
  IN
  /\ stage[u] = "described"
  /\ local' = loc
  /\ memo' = Memoized({u}, hashes, mem)
  /\ short' = [short EXCEPT ![u] = hashes[u]]
  /\ stage' = [stage EXCEPT ![u] = "hashed"]
  /\ UNCHANGED <<clock, world, artifact, depinfo, json, session, last, dirty, reads, quiet>>

\* The job is over; `finish` makes its dependents dirty.
WriteJson(u) ==
  /\ stage[u] = "hashed"
  /\ json' = [json EXCEPT ![u] =
                [flags |-> FlagsOf(u), local |-> local[u],
                 deps |-> [d \in FpDeps(u) |-> Hashes(local, memo)[d]]]]
  /\ stage' = [stage EXCEPT ![u] = "done"]
  /\ dirty' = dirty \cup {v \in Unit : u \in Dep[v]}
  /\ UNCHANGED <<clock, world, artifact, depinfo, short, session, last, reads, local, memo, quiet>>

Over == \A u \in Unit : stage[u] \in {"waiting", "failed", "done"}

EndSession(result) ==
  /\ session' = "idle"
  /\ last' = result
  /\ stage' = [u \in Unit |-> "none"]
  /\ dirty' = {}
  /\ reads' = [u \in Unit |-> None]
  /\ local' = [u \in Unit |-> <<>>]
  /\ memo' = [u \in Unit |-> None]

Finish ==
  /\ session = "building"
  /\ Over
  /\ Failed \/ \A u \in Unit : stage[u] = "done"
  /\ EndSession(IF Failed THEN "failed" ELSE "ok")
  /\ quiet' = ~Failed
  /\ UNCHANGED <<clock, world, disk>>

\* Cargo and its children are killed; what was being written may be left incomplete.
Interrupt(torn) ==
  /\ Interrupts
  /\ session = "building"
  /\ depinfo' = [u \in Unit |-> IF torn /\ stage[u] = "built" THEN None ELSE depinfo[u]]
  /\ short' = [u \in Unit |-> IF torn /\ stage[u] = "described" THEN Torn ELSE short[u]]
  /\ json' = [u \in Unit |-> IF torn /\ stage[u] = "hashed" THEN Torn ELSE json[u]]
  /\ EndSession("interrupted")
  /\ quiet' = FALSE
  /\ UNCHANGED <<clock, world, artifact>>

--------------------------------------------------------------------------------
(* The world                                                               *)

Tick ==
  /\ clock < MaxTime
  /\ clock' = clock + 1
  /\ UNCHANGED <<world, disk, sessionVars, quiet>>

EditSource(u, prints) ==
  /\ session = "idle"
  /\ Kind[u] # "precalculated"
  /\ src[u].ver < MaxVersion
  /\ clock < MaxTime
  /\ Coarse \/ \A v \in Unit : depinfo[v] # clock
  /\ prints \in IF Kind[u] = "script" THEN Directives ELSE {{}}
  /\ src' = [src EXCEPT ![u] = [ver |-> @.ver + 1, mtime |-> clock, prints |-> prints]]
  /\ quiet' = FALSE
  /\ UNCHANGED <<scene, clock, flags, env, disk, sessionVars>>

ChangeSettings(f, e) ==
  /\ session = "idle"
  /\ <<f, e>> # <<flags, env>>
  /\ flags' = f
  /\ env' = e
  /\ quiet' = FALSE
  /\ UNCHANGED <<scene, clock, src, disk, sessionVars>>

DeleteOutput(u) ==
  /\ session = "idle"
  /\ ~IsRun(u)
  /\ artifact[u] # None
  /\ artifact' = [artifact EXCEPT ![u] = None]
  /\ quiet' = FALSE
  /\ UNCHANGED <<clock, world, depinfo, short, json, sessionVars>>

Init ==
  /\ scene \in Scenes
  /\ clock = 1
  /\ src \in [Unit -> [ver : {1}, mtime : {0}, prints : Directives]]
  /\ \A u \in Unit : Kind[u] # "script" => src[u].prints = {}
  /\ flags \in scene.flags /\ env \in scene.env
  /\ artifact = [u \in Unit |-> None]
  /\ depinfo = [u \in Unit |-> None]
  /\ short = [u \in Unit |-> None]
  /\ json = [u \in Unit |-> None]
  /\ session = "idle"
  /\ last = "none"
  /\ quiet = FALSE
  /\ stage = [u \in Unit |-> "none"]
  /\ dirty = {}
  /\ reads = [u \in Unit |-> None]
  /\ local = [u \in Unit |-> <<>>]
  /\ memo = [u \in Unit |-> None]

Job(u) ==
  \/ RunFresh(u) \/ StartDirty(u) \/ JobFails(u)
  \/ WriteOutput(u) \/ WriteDepInfo(u) \/ WriteShort(u) \/ WriteJson(u)

World ==
  \/ \E u \in Unit, p \in Directives : EditSource(u, p)
  \/ \E f \in scene.flags, e \in scene.env : ChangeSettings(f, e)
  \/ \E u \in Unit : DeleteOutput(u)

Next ==
  \/ Prepare
  \/ \E u \in Unit : Job(u)
  \/ Finish
  \/ \E t \in BOOLEAN : Interrupt(t)
  \/ Tick
  \/ World

Spec == Init /\ [][Next]_vars

(***************************************************************************)
(* Somebody keeps running Cargo, it gets its work done, and time passes.   *)
(***************************************************************************)
Fairness ==
  /\ WF_vars(Prepare) /\ WF_vars(Finish) /\ WF_vars(Tick)
  /\ \A u \in AllUnits : WF_vars(u \in Unit /\ Job(u))

FairSpec == Spec /\ Fairness

--------------------------------------------------------------------------------

\* What a build from scratch with the present sources and settings would produce.
Ideal == LET ideal[u \in Unit] == Build(u, [d \in Unit |-> IF d \in Dep[u] THEN ideal[d] ELSE None])
         IN  ideal

(***************************************************************************)
(* No stale artifact: whatever was edited, changed, deleted or interrupted *)
(* before, a unit whose job is done (be it fresh or rebuilt) is what a     *)
(* build from scratch would have produced.                                 *)
(***************************************************************************)
UpToDate ==
  session = "building" => \A u \in Unit : stage[u] = "done" => artifact[u] = Ideal[u]

(***************************************************************************)
(* Path crates: building again when nothing has changed rebuilds nothing,  *)
(* unless a source file is as young as a dep-info ("equal mtimes are       *)
(* stale").  A build script that stops printing directives, or a registry  *)
(* crate above a path crate, costs one build more: see Settles.            *)
(***************************************************************************)
NothingRebuilt ==
  [][ /\ session = "idle" /\ session' = "building" /\ quiet
      /\ \A u \in Unit : Kind[u] = "path"
      /\ \A u, v \in Unit : depinfo[u] # None => src[v].mtime < depinfo[u]
      => dirty' = {} ]_vars

(***************************************************************************)
(* Building settles: once nothing is changed, deleted or interrupted and   *)
(* no job fails any more, there comes a session from which on every unit   *)
(* is fresh.                                                               *)
(***************************************************************************)
Settles ==
  <>[][~(World \/ (\E t \in BOOLEAN : Interrupt(t)) \/ (\E u \in Unit : JobFails(u)))]_vars
    => <>[](session = "building" => dirty = {})

(***************************************************************************)
(* "whenever an upstream crate is recompiled [...] all downstream          *)
(* dependants are also recompiled.  This is typically tracked through      *)
(* `DependencyQueue`, but it also needs to be retained here because Cargo  *)
(* can be interrupted while executing": a session that succeeds leaves     *)
(* everything up to date also after an interrupted one.                    *)
(***************************************************************************)
RebuiltAfterInterrupt == last = "ok" /\ quiet => \A u \in Unit : artifact[u] = Ideal[u]
================================================================================
