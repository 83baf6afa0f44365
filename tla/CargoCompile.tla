---------------------------- MODULE CargoCompile -----------------------------
(***************************************************************************)
(* Commands over one workspace: `cargo build`, `check`, `test`, `bench`,   *)
(* `doc` (ops/cargo_compile.rs and core/compiler) and `cargo clean`        *)
(* (ops/cargo_clean.rs), one after the other, from reading the workspace   *)
(* to the files in the target directory.                                   *)
(*                                                                         *)
(* A scene fixes what is on disk and the commands:                         *)
(*   tree         the manifests (see Workspace)                            *)
(*   pkgs         id -> package (see Manifest), with `links` and `path`    *)
(*   features     id -> features that are on in a build; all_features      *)
(*                id -> those on when the members have all of theirs       *)
(*   profiles; overrides, the <<links, kind>> whose script output is       *)
(*                configured; wasm32, is that what --target names?;        *)
(*   lib_metadata is __CARGO_DEFAULT_LIB_METADATA set?                     *)
(*   unsupported  the crate types the platform has no files for            *)
(*   cached       ids of the packages that need no download                *)
(*   commands     a sequence of                                            *)
(*     [op |-> "build", cur, spec, filter, mode, release, target]          *)
(*     [op |-> "clean", cur, spec, doc, release, target], spec a sequence  *)
(***************************************************************************)
EXTENDS CompilationFiles

W == INSTANCE Workspace

CONSTANT Scenes

VARIABLES scene, n,    \* the scene, and the command that is running
          pc,          \* what it does next
          ws,          \* Workspace::new's result
          bcx,         \* the BuildContext, as an option
          roots,       \* the units asked for
          units,       \* those of `clean`, in the order of its loops
          deps,        \* unit_dependencies
          asked,       \* every (unit, unit_for) deps_of was called with
          stack,       \* the calls of deps_of left, innermost last
          pkgs,        \* State::pkgs: ids at hand
          waiting,     \* State::waiting_on_download
          cached,      \* packages on disk
          metas,       \* CompilationFiles::metas
          scripts,     \* Context::build_scripts
          overridden,  \* Context::build_script_overridden
          state,       \* BuildState::outputs: key -> who put it there
          done,        \* units whose job is over
          disk,        \* the target directory: [file, pkg]
          error        \* an internal error or panic met

vars == <<scene, n, pc, ws, bcx, roots, units, deps, asked, stack, pkgs, waiting, cached, metas,
          scripts, overridden, state, done, disk, error>>
walkVars == <<deps, asked, stack, pkgs, waiting>>
jobVars == <<metas, scripts, overridden, state, done>>

Empty == [x \in {} |-> x]
cmd == scene.commands[n]
b == bcx[1]

ReadManifest(m) ==
  IF m.is = "package" /\ m.name \in DOMAIN scene.pkgs /\ ~targets(scene.pkgs[m.name]).ok
    THEN [m EXCEPT !.is = "broken"] ELSE m
Tree == [scene.tree EXCEPT !.at = [d \in DOMAIN scene.tree.at |-> ReadManifest(scene.tree.at[d])]]

Init ==
  /\ scene \in Scenes
  /\ n = 1 /\ pc = "load" /\ ws = W!Err /\ bcx = <<>> /\ roots = {} /\ units = <<>>
  /\ deps = Empty /\ asked = {} /\ stack = <<>> /\ pkgs = {} /\ waiting = {}
  /\ cached = scene.cached
  /\ metas = Empty /\ scripts = Empty /\ overridden = {} /\ state = Empty /\ done = {}
  /\ disk = {} /\ error = ""

-----------------------------------------------------------------------------
\* Workspace::new; a manifest with invalid profiles cannot be read.  Without
\* packages to clean, `cargo clean` then removes the whole target directory, or
\* its documentation.
Load ==
  /\ pc = "load"
  /\ ws' = IF Profiles_valid(scene.profiles) THEN W!Workspace_new(Tree, cmd.cur) ELSE W!Err
  /\ LET all == cmd.op = "clean" /\ (cmd.doc \/ cmd.spec = <<>>)
     IN  /\ pc' = IF ws'.ok /\ ~all THEN "select" ELSE "end"
         /\ disk' = IF ws'.ok /\ all
                      THEN {x \in disk : cmd.doc /\ x.file.dir # "doc"} ELSE disk
  /\ UNCHANGED <<scene, n, bcx, roots, units, walkVars, cached, jobVars, error>>

Names(dirs) == {scene.tree.at[d].name : d \in dirs}
members == Names(ws.val.members)

\* The dependencies the resolver keeps: development ones are for members only.
ResolvedDeps(id) == {d \in scene.pkgs[id].deps : d.kind = "Development" => id \in members}

\* `clean` resolves with the features of every member on (Method::Everything).
BuildContext_new ==
  [pkgs |-> [id \in DOMAIN scene.pkgs |->
               [targets |-> targets(scene.pkgs[id]).targets, deps |-> ResolvedDeps(id),
                links |-> scene.pkgs[id].links, path |-> scene.pkgs[id].path]],
   features |-> IF cmd.op = "clean" THEN scene.all_features ELSE scene.features,
   members |-> members, profiles |-> scene.profiles,
   overrides |-> scene.overrides, unsupported |-> scene.unsupported,
   mode |-> IF cmd.op = "clean" THEN "Build" ELSE cmd.mode,
   release |-> cmd.release, target |-> cmd.target,
   wasm32 |-> cmd.target /\ scene.wasm32, lib_metadata |-> scene.lib_metadata]

\* compile and compile_ws up to generate_targets: critical warnings of the
\* members' manifests, the packages asked for, a package that cannot be tested.
specs == to_package_id_specs(cmd.spec, members, Names(ws.val.default),
           IF W!is_virtual(scene.tree, ws.val) THEN {} ELSE Names({ws.val.cur}))
SelectFails(c) ==
  \/ \E d \in ws.val.members : targets(scene.pkgs[scene.tree.at[d].name]).critical
  \/ specs = {} \/ ~(specs \subseteq DOMAIN scene.pkgs)
  \/ \E id \in specs : /\ is_any_test(cmd.mode) /\ id \notin members
                       /\ \E d \in scene.pkgs[id].deps : d.kind = "Development"
  \/ ~validate_packages(scene.profiles, DOMAIN scene.pkgs)
  \/ ~generate_targets(c, specs, cmd.filter).ok

\* The targets of a package in the manifest's order; those of one kind are in
\* the order of their files or sections, here in any one.
Loop(xs, Body(_)) == FlattenSeq([i \in 1..Len(xs) |-> Body(xs[i])])
TargetOrder(ts) ==
  Loop(<<{"Lib"}, {"Bin"}, {"ExampleBin", "ExampleLib"}, {"Test"}, {"Bench"}, {"CustomBuild"}>>,
       LAMBDA kinds : SetToSeq({t \in ts : t.kind \in kinds}))

\* The calls left when those on a unit that has its dependencies return at once,
\* and so do those with no calls left.
CallsLeft(calls, known) ==
  LET left == [i \in 1..Len(calls) |-> {x \in calls[i] : x.unit \notin known}]
  IN  SubSeq(left, 1, Max({0} \cup {i \in 1..Len(left) : left[i] # {}}))

\* clean's units: every target, kind, mode and purpose.
CleanProfile(c, id, mode, uf) ==
  LET Get(m) == get_profile(c.profiles, id, id \in c.members, uf, m, c.release)
  IN  IF mode = "RunCustomBuild" THEN get_profile_run_custom_build(Get("Build")) ELSE Get(mode)
CleanUnits(c) ==
  Loop(cmd.spec, LAMBDA id :
    Loop(TargetOrder(c.pkgs[id].targets), LAMBDA t :
      Loop(<<"Host", "Target">>, LAMBDA kind :
        Loop(all_modes, LAMBDA mode :
          Loop(all_values, LAMBDA uf :
            <<Unit(id, t, CleanProfile(c, id, mode, uf), kind, mode)>>)))))

Select ==
  /\ pc = "select"
  /\ bcx' = <<BuildContext_new>>
  /\ LET c     == bcx'[1]
         fails == IF cmd.op = "clean" THEN ~(ToSet(cmd.spec) \subseteq DOMAIN scene.pkgs)
                  ELSE SelectFails(c)
     IN  IF fails
           THEN pc' = "end" /\ UNCHANGED <<roots, units, stack, pkgs>>
           ELSE /\ pc' = "walk"
                /\ units' = IF cmd.op = "clean" THEN CleanUnits(c) ELSE <<>>
                /\ roots' = IF cmd.op = "clean" THEN ToSet(units')
                            ELSE generate_targets(c, specs, cmd.filter).val
                /\ pkgs' = {u.pkg : u \in roots'}
                /\ stack' = CallsLeft(<<{Pair(u, RootFor(c, u)) : u \in roots'}>>, {})
  /\ UNCHANGED <<scene, n, ws, deps, asked, waiting, cached, jobVars, disk, error>>

-----------------------------------------------------------------------------
\* deps_of on one of the calls left, and the calls it makes.
deps_of(x) ==
  LET ask   == Wanted(b, x.unit) \ pkgs
      ds    == compute_deps(b, x.unit, x.for, pkgs \cup cached)
      known == DOMAIN deps \cup {x.unit}
  IN  /\ deps' = [u \in known |-> IF u = x.unit THEN {d.unit : d \in ds} ELSE deps[u]]
      /\ stack' = CallsLeft(Append(stack, ds), known)
      /\ asked' = asked \cup {x} \cup {y \in UNION Range(Append(stack, ds)) : y.unit \in known}
      /\ pkgs' = pkgs \cup (ask \cap cached)
      /\ waiting' = waiting \cup (ask \ cached)

\* The roots of a build come out of a hash set, and dependencies out of a hash
\* map, so any may be first; clean's units have an order.
Walk ==
  /\ pc = "walk" /\ stack # <<>>
  /\ LET left  == stack[Len(stack)]
         first == units[SelectInSeq(units, LAMBDA u : Pair(u, RootFor(b, u)) \in left)]
     IN  \E x \in IF cmd.op = "clean" /\ Len(stack) = 1
                     THEN {Pair(first, RootFor(b, first))} ELSE left : deps_of(x)
  /\ UNCHANGED <<scene, n, pc, ws, bcx, roots, units, cached, jobVars, disk, error>>

\* finish_some_downloads: one package, and more while five or more are left;
\* then the walk starts again from the roots.
Finished == {S \in SUBSET waiting : Cardinality(S) = IF Cardinality(waiting) <= 5 THEN 1
                                                   ELSE Cardinality(waiting) - 4}
\* Mutant: what was computed before the download is kept.
finish_kept ==
  /\ pc = "walk" /\ stack = <<>> /\ waiting # {}
  /\ \E S \in Finished :
       /\ waiting' = waiting \ S
       /\ pkgs' = pkgs \cup S
       /\ cached' = cached \cup S
  /\ asked' = {Pair(u, RootFor(b, u)) : u \in roots} /\ UNCHANGED deps
  /\ stack' = CallsLeft(<<{Pair(u, RootFor(b, u)) : u \in roots}>>, DOMAIN deps')
  /\ UNCHANGED <<scene, n, pc, ws, bcx, roots, units, jobVars, disk, error>>
finish_some_downloads ==
  /\ pc = "walk" /\ stack = <<>> /\ waiting # {}
  /\ \E S \in Finished :
       /\ waiting' = waiting \ S
       /\ pkgs' = pkgs \cup S
       /\ cached' = cached \cup S
  /\ deps' = Empty /\ asked' = {}
  /\ stack' = CallsLeft(<<{Pair(u, RootFor(b, u)) : u \in roots}>>, DOMAIN deps')
  /\ UNCHANGED <<scene, n, pc, ws, bcx, roots, units, jobVars, disk, error>>

DownloadFails ==
  /\ pc = "walk" /\ stack = <<>> /\ waiting # {}
  /\ pc' = "end"
  /\ UNCHANGED <<scene, n, ws, bcx, roots, units, walkVars, cached, jobVars, disk, error>>

\* connect_run_custom_build_deps and CompilationFiles::new.  A cycle would
\* exhaust the stack in metadata_of.
Connect ==
  /\ pc = "walk" /\ stack = <<>> /\ waiting = {}
  /\ deps' = connect_run_custom_build_deps(b, deps)
  /\ metas' = metadata_of(b, deps', Empty)
  /\ error' = IF DOMAIN metas' # DOMAIN deps' THEN "cycle" ELSE error
  /\ pc' = IF error' # "" THEN "end" ELSE IF cmd.op = "clean" THEN "remove" ELSE "plan"
  /\ UNCHANGED <<scene, n, ws, bcx, roots, units, asked, stack, pkgs, waiting, cached, scripts,
                 overridden, state, done, disk>>

\* The rest of `cargo clean -p`: every directory and file of the units, up to
\* one the platform has no files for, which is an error after its fingerprint.
RemoveUnits ==
  /\ pc = "remove"
  /\ LET bad   == SelectInSeq(units, LAMBDA u : ~is_custom_build(u.target) /\ FileTypes(b, u) = {})
         over  == ToSet(IF bad = 0 THEN units ELSE SubSeq(units, 1, bad - 1))
         files == UNION {Artifacts(b, metas, roots, u) : u \in {v \in over : ~is_custom_build(v.target)}}
         dirs  == {fingerprint_dir(b, metas, u) : u \in over \cup (IF bad = 0 THEN {} ELSE {units[bad]})}
         outs  == {build_script_out_dir(b, metas, u) :
                     u \in {v \in over : is_custom_build(v.target) /\ v.mode = "RunCustomBuild"}}
         under == {metas[u] : u \in {v \in over : is_custom_build(v.target)
                                                    /\ v.mode # "RunCustomBuild"}}
     IN  /\ done' = over
         /\ disk' = {x \in disk : /\ x.file \notin files \cup dirs \cup outs
                                  /\ ~(/\ x.file.dir = "build" /\ x.file.layout = layout(b, "Host")
                                       /\ x.file.sub \in under)}
  /\ pc' = "end"
  /\ UNCHANGED <<scene, n, ws, bcx, roots, units, walkVars, cached, metas, scripts, overridden,
                 state, error>>

-----------------------------------------------------------------------------
\* The units compile() queues: those reached when an overridden build script
\* depends on nothing.
RECURSIVE Reached(_, _)
Reached(us, over) ==
  LET more == UNION {dep_targets(deps, over, u) : u \in us} \ us
  IN  IF more = {} THEN us ELSE Reached(us \cup more, over)

\* Files made for a unit, as they are on disk.
Put(u, files) == {[file |-> f, pkg |-> u.pkg] : f \in files}

\* build_map, and compile() for every root: the jobs are put together, and the
\* directories they need are made, up to the first unit that is refused.
Plan ==
  /\ pc = "plan"
  /\ LET over  == Overridden(b, DOMAIN deps)
         queue == Reached(roots, over)
         maps  == build_map(b, deps, over, Empty)
         fails == \/ ~LinksValid(b, queue)
                  \/ \E u \in queue : u.mode \notin {"RunCustomBuild", "Doctest"} /\ FileTypes(b, u) = {}
     IN  /\ overridden' = over
         /\ scripts' = maps
         /\ state' = [k \in over |-> <<>>]
         /\ done' = DOMAIN deps \ queue
         /\ \E made \in IF fails THEN SUBSET queue ELSE {queue} :
              disk' = disk \cup UNION {Put(u, Directories(b, metas, over, u)) : u \in made}
         /\ pc' = IF fails THEN "end" ELSE "run"
  /\ UNCHANGED <<scene, n, ws, bcx, roots, units, walkVars, cached, metas, error>>

Ready(u) == u \in DOMAIN deps \ done /\ dep_targets(deps, overridden, u) \subseteq done
IsOverridden(u) == u.mode = "RunCustomBuild" /\ <<u.pkg, u.kind>> \in overridden

\* The keys a job looks up that are not there: an internal error.
Missing(u) == Reads(scripts, deps[u], u) \ DOMAIN state
Job(u) == pc = "run" /\ Ready(u)
jobUnchanged == <<scene, n, ws, bcx, roots, units, walkVars, cached, metas, scripts, overridden>>

\* A library goes before new metadata is put beside it.
Without(u) ==
  LET old == {file_stem(b, metas, u, "rlib") : e \in FileTypes(b, u) \cap {"rmeta"}}
  IN  {x \in disk : x.file \notin old}

\* rustc, and link_targets after it.
rustc(u) ==
  /\ Job(u) /\ Compiled(u) /\ Missing(u) = {}
  /\ done' = done \cup {u}
  /\ disk' = Without(u) \cup Put(u, Written(b, metas, roots, u) \cup Incremental(b, metas, u)
                                      \cup {rustc_dep_info_loc(b, metas, u)})
  /\ UNCHANGED <<jobUnchanged, pc, error, state>>

\* rustdoc's pages are left out, and a documentation test is for later.
rustdoc(u) ==
  /\ Job(u) /\ is_doc(u.mode)
  /\ done' = done \cup {u}
  /\ UNCHANGED <<jobUnchanged, pc, error, state, disk>>

\* A build script's output is recorded beside OUT_DIR and put into the build
\* state, where a configured one is already.
RunScript(u) ==
  /\ Job(u) /\ u.mode = "RunCustomBuild" /\ (IsOverridden(u) \/ Missing(u) = {})
  /\ done' = done \cup {u}
  /\ state' = IF IsOverridden(u) THEN state
              ELSE [k \in DOMAIN state \cup {<<u.pkg, u.kind>>} |->
                      IF k = <<u.pkg, u.kind>> THEN <<u>> ELSE state[k]]
  /\ disk' = IF IsOverridden(u) THEN disk ELSE disk \cup Put(u, Records(b, metas, u))
  /\ UNCHANGED <<jobUnchanged, pc, error>>

\* The compiler or a build script fails, and the command with it; so it must
\* when there is a key missing.  A script's output may be recorded and then not
\* parse.
JobFails(u) ==
  /\ Job(u) /\ u.mode # "Doctest" /\ ~IsOverridden(u)
  /\ pc' = "end"
  /\ error' = IF Missing(u) # {} THEN "build state" ELSE error
  /\ disk' \in CASE Missing(u) # {} \/ is_doc(u.mode) -> {disk}
                [] Missing(u) = {} /\ u.mode = "RunCustomBuild" ->
                     {disk, disk \cup Put(u, Records(b, metas, u))}
                [] OTHER -> {Without(u)}
  /\ UNCHANGED <<jobUnchanged, state, done>>

\* The rest of Context::compile: dep-info for the links of what was asked for.
RunEnds ==
  /\ pc = "run" /\ done = DOMAIN deps
  /\ pc' = "end"
  /\ disk' = disk \cup UNION {Put(u, output_depinfo(b, metas, roots, u)) : u \in roots}
  /\ UNCHANGED <<scene, n, ws, bcx, roots, units, walkVars, cached, jobVars, error>>

\* The next command is a new process.
NextCommand ==
  /\ pc = "end" /\ error = "" /\ n < Len(scene.commands)
  /\ n' = n + 1 /\ pc' = "load" /\ ws' = W!Err /\ bcx' = <<>> /\ roots' = {} /\ units' = <<>>
  /\ deps' = Empty /\ asked' = {} /\ stack' = <<>> /\ pkgs' = {} /\ waiting' = {}
  /\ metas' = Empty /\ scripts' = Empty /\ overridden' = {} /\ state' = Empty /\ done' = {}
  /\ UNCHANGED <<scene, cached, disk, error>>

Next ==
  \/ Load \/ Select \/ Walk \/ finish_some_downloads \/ DownloadFails \/ Connect \/ RemoveUnits
  \/ Plan \/ RunEnds \/ NextCommand
  \/ \E u \in DOMAIN deps : rustc(u)
  \/ \E u \in DOMAIN deps : rustdoc(u)
  \/ \E u \in DOMAIN deps : RunScript(u)
  \/ \E u \in DOMAIN deps : JobFails(u)

Spec == Init /\ [][Next]_vars

-----------------------------------------------------------------------------
\* Every member of a workspace Cargo accepts would, as the current manifest,
\* find the same root, the same members and the same default members, when the
\* root lists some (Workspace::new and validate): the lock file, the target
\* directory and such defaults do not depend on where Cargo is run.  Default
\* members are members.
SameWorkspace ==
  (pc \in {"select", "end"} /\ ws.ok /\ bcx = <<>>) =>
    LET root      == ws.val.root
        Lists     == W!IsRoot(Tree, root) /\ Tree.at[root].ws.default # <<>>
        Agrees(w) == /\ w.ok /\ w.val.root = root /\ w.val.members = ws.val.members
                     /\ Lists => w.val.default = ws.val.default
    IN  /\ \A d \in ws.val.members : Agrees(W!Workspace_new(Tree, d))
        /\ ws.val.default \subseteq ws.val.members

\* A profile with a build-override and an override that names the package:
\* the package's profile may hide what it is compiled for.
Hides(id) ==
  \E name \in DOMAIN scene.profiles :
    LET given == ToSet(scene.profiles[name].toml) \cup ToSet(scene.profiles[name].config)
    IN  /\ \E toml \in given : DOMAIN toml.build # {}
        /\ \E toml \in given : \E s \in toml.specs : id \in s.ids
\* The unit graph does not depend on the order the roots come out of the hash
\* set, on the downloads, or on the first caller: what is stored for a unit is
\* what each of its callers would have computed (deps_of keeps no UnitFor),
\* except for a package whose profile hides the caller's purpose.
PlanDetermined ==
  (pc = "walk" /\ stack = <<>> /\ waiting = {} /\ cmd.op = "build") =>
    \A x \in asked :
      \/ deps[x.unit] = {d.unit : d \in compute_deps(b, x.unit, x.for, DOMAIN scene.pkgs)}
      \/ Hides(x.unit.pkg)

\* What a unit waits for, and the unit itself.
RECURSIVE Below(_)
Below(us) ==
  LET more == UNION {dep_targets(deps, overridden, u) : u \in us} \ us
  IN  IF more = {} THEN us ELSE Below(us \cup more)
\* The script of a procedural macro runs for the host, and a script for the
\* target looks for it there.
ForHost(k) == k[2] = "Target" /\ \E t \in b.pkgs[k[1]].targets : is_lib(t) /\ t.for_host
\* A member whose tests need a package with `links`.
TestsLink ==
  \E i \in members : \E d \in scene.pkgs[i].deps : d.kind = "Development" /\ scene.pkgs[d.to].links # <<>>

\* Every build script output a job looks up is there, put there by a run the
\* job waited for (or configured), and the unit graph has no cycle.  The
\* exceptions: procedural macros as above; members with `links` that need each
\* other, one in its tests; and a script run with two profiles under one key,
\* whose output may be the other run's.
BuildStateFound ==
  /\ error = "cycle" => TestsLink
  /\ error = "build state" => \E u \in DOMAIN deps : \E k \in Missing(u) : ForHost(k)
  /\ pc = "run" =>
       \A u \in DOMAIN deps : Ready(u) /\ ~IsOverridden(u) =>
         \A k \in {x \in Reads(scripts, deps[u], u) : ~ForHost(x)} :
           /\ k \in DOMAIN state
           /\ LET runs == {r \in DOMAIN deps : r.mode = "RunCustomBuild" /\ <<r.pkg, r.kind>> = k}
              IN  state[k] # <<>> /\ state[k][1] \notin Below({u}) =>
                    Cardinality(runs) > 1 /\ runs \cap Below({u}) # {}

\* Two units of one command write the same file only where Cargo gives up the
\* hash: the links of targets of one name, dylibs of path dependencies, and an
\* example that is both built and tested (link_stem).
OutputsDistinct ==
  pc = "plan" =>
    \A u, v \in DOMAIN deps :
      u # v /\ Written(b, metas, roots, u) \cap Written(b, metas, roots, v) # {} =>
        \/ u.pkg # v.pkg /\ bin_stem(u) = bin_stem(v)
        \/ metas[u] = <<>> /\ metas[v] = <<>> /\ u.target = v.target
        \/ u.target = v.target /\ is_example(u.target) /\ is_any_test(u.mode) # is_any_test(v.mode)

\* The files `clean` has no name for: dep-info, the compiler's own, and what a
\* build script printed.
Unnamed(file) ==
  file.dir = "incremental" \/ file.ext \in {"d", "lib.d", "output", "stderr", "root-output"}

\* The hashes in the options `hs`, and those they are made from.
RECURSIVE Hashes(_)
Hashes(hs) == UNION {{h[1]} \cup Hashes(h[1].deps) : h \in hs \ {<<>>}}

\* A hash `clean` does not arrive at: other features than all, another profile
\* than the mode's (a benchmark is a Test unit with the bench profile, and a
\* build script runs with the profile of what it is run for), a profile that
\* depends on the purpose, which deps_of does not get from `clean`, or a build
\* script that waits for those of a development dependency only in the tests.
Strange(h) ==
  \/ h.features # scene.all_features[h.pkg]
  \/ {CleanProfile(b, h.pkg, h.mode, uf) : uf \in ToSet(all_values)} # {h.profile}
  \/ /\ has_custom_build(b, h.pkg)
     /\ \E d \in scene.pkgs[h.pkg].deps : d.kind = "Development" /\ scene.pkgs[d.to].links # <<>>

\* After a `cargo clean -p` that went through, no artifact, fingerprint or
\* OUT_DIR of the package is left in the directories --release and --target
\* name, wherever the commands before it stopped, unless its name has a hash
\* that `clean` cannot arrive at.
CleanComplete ==
  (pc = "end" /\ cmd.op = "clean" /\ roots # {} /\ done = roots) =>
    \A x \in disk :
      /\ x.pkg \in ToSet(cmd.spec)
      /\ x.file.layout \in {layout(b, kind) : kind \in {"Host", "Target"}}
      /\ ~Unnamed(x.file)
      => \E h \in Hashes({x.file.sub, x.file.meta}) : Strange(h)
=============================================================================
