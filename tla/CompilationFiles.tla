-------------------------- MODULE CompilationFiles ---------------------------
(***************************************************************************)
(* Where the units of a build put their files                              *)
(* (core/compiler/context/compilation_files.rs, layout.rs) and which build *)
(* scripts' outputs they read (core/compiler/custom_build.rs).             *)
(*                                                                         *)
(* A file is [layout, dir, sub, stem, meta, ext]: `sub` and `meta` are     *)
(* options of a metadata hash, in the name of a subdirectory of `dir` and  *)
(* in the file's own name.  `deps` maps a unit to its dependencies.        *)
(***************************************************************************)
EXTENDS Units

layout(b, kind) ==
  [triple |-> IF kind = "Target" /\ b.target THEN "target" ELSE "host", release |-> b.release]

dep_targets(deps, overridden, u) ==
  IF is_custom_build(u.target) /\ <<u.pkg, u.kind>> \in overridden THEN {} ELSE deps[u]

\* A dylib of a path dependency keeps its plain name, and so does a binary for
\* wasm32, unless the environment has __CARGO_DEFAULT_LIB_METADATA.
NoMetadata(b, u) ==
  /\ ~(is_any_test(u.mode) \/ is_check(u.mode))
  /\ is_dylib(u.target) \/ is_cdylib(u.target) \/ (is_bin(u.target) /\ b.wasm32)
  /\ b.pkgs[u.pkg].path
  /\ ~b.lib_metadata

\* Mutant: the profile is left out of the hash.
compute_metadata_unprofiled(b, u, ds, metas) ==
  IF NoMetadata(b, u) THEN <<>>
  ELSE <<[pkg |-> u.pkg, features |-> b.features[u.pkg], deps |-> {metas[d] : d \in ds} \ {<<>>},
          mode |-> u.mode, kind |-> u.kind, name |-> u.target.name, target |-> u.target.kind]>>

\* compute_metadata: the hash of all that goes into it is the record of it.
\* `metas` has the hashes of the dependencies, the missing ones counted.
compute_metadata(b, u, ds, metas) ==
  IF NoMetadata(b, u) THEN <<>>
  ELSE <<[pkg      |-> u.pkg,
          features |-> b.features[u.pkg],
          deps     |-> {metas[d] : d \in ds} \ {<<>>},
          missing  |-> Cardinality({d \in ds : metas[d] = <<>>}),
          profile  |-> u.profile,
          mode     |-> u.mode,
          kind     |-> u.kind,
          name     |-> u.target.name,
          target   |-> u.target.kind,
          types    |-> u.target.types]>>

\* metadata_of, for all units: dependencies first.  Units on a cycle get none.
RECURSIVE metadata_of(_, _, _)
metadata_of(b, deps, metas) ==
  LET ready == {u \in DOMAIN deps \ DOMAIN metas : deps[u] \subseteq DOMAIN metas}
  IN  IF ready = {} THEN metas
      ELSE metadata_of(b, deps, [u \in DOMAIN metas \cup ready |->
             IF u \in ready THEN compute_metadata(b, u, deps[u], metas) ELSE metas[u]])

-----------------------------------------------------------------------------
OutFile(l, dir, sub, stem, meta, ext) ==
  [layout |-> l, dir |-> dir, sub |-> sub, stem |-> stem, meta |-> meta, ext |-> ext]

bin_stem(u) ==
  IF is_bin(u.target) \/ is_example(u.target) \/ is_custom_build(u.target)
    THEN u.target.name ELSE crate_name(u.target.name)

\* pkg_dir names a directory after the package and the unit's hash.
pkg_dir(b, metas, u, l, dir, ext) == OutFile(l, dir, metas[u], u.pkg, <<>>, ext)
fingerprint_dir(b, metas, u) == pkg_dir(b, metas, u, layout(b, u.kind), "fingerprint", "dir")
build_script_out_dir(b, metas, u) == pkg_dir(b, metas, u, layout(b, u.kind), "build", "out")

\* out_dir, as the directory part of a file.
out_dir(b, u) ==
  CASE is_doc(u.mode) -> "doc"
    [] ~is_doc(u.mode) /\ is_custom_build(u.target) -> "build"
    [] ~is_doc(u.mode) /\ is_example(u.target) -> "examples"
    [] OTHER -> "deps"

\* The compiler's name for a file, and the names file_types gives by type.
file_stem(b, metas, u, ext) ==
  LET dir == out_dir(b, u)
      l   == layout(b, IF dir = "build" THEN "Host" ELSE u.kind)
  IN  OutFile(l, dir, IF dir = "build" THEN metas[u] ELSE <<>>,
            IF metas[u] = <<>> THEN bin_stem(u) ELSE crate_name(u.target.name), metas[u], ext)

\* link_stem: the name a file is linked to, as an option.
link_stem(b, metas, roots, u, ext) ==
  LET file == file_stem(b, metas, u, ext)
      dir  == out_dir(b, u)
  IN  CASE dir = "deps" /\ (is_bin(u.target) \/ u \in roots) ->
             IF is_any_test(u.mode) THEN <<[file EXCEPT !.dir = "."]>>
             ELSE <<[file EXCEPT !.dir = ".", !.stem = bin_stem(u), !.meta = <<>>]>>
        [] dir \in {"examples", "build"} /\ metas[u] # <<>> ->
             <<[file EXCEPT !.stem = bin_stem(u), !.meta = <<>>]>>
        [] OTHER -> <<>>

\* The kinds of file a unit is compiled to; those the platform has no form for
\* are left out, and with none left the command fails.
FileTypes(b, u) ==
  LET types == IF u.target.kind \in {"Lib", "ExampleLib"} /\ ~is_any_test(u.mode)
                 THEN {IF t = "lib" THEN "rlib" ELSE t : t \in u.target.types}
                 ELSE {"bin"}
  IN  IF is_check(u.mode) THEN {"rmeta"}
      ELSE IF u.target.for_host THEN types ELSE types \ b.unsupported

calc_outputs(b, metas, roots, u) ==
  {[path |-> file_stem(b, metas, u, e), hardlink |-> link_stem(b, metas, roots, u, e)] :
     e \in FileTypes(b, u)}

Compiled(u) == ~is_doc(u.mode) /\ u.mode # "RunCustomBuild"

\* The files a unit is expected to have.
Artifacts(b, metas, roots, u) ==
  IF ~Compiled(u) THEN {}
  ELSE UNION {{o.path} \cup ToSet(o.hardlink) : o \in calc_outputs(b, metas, roots, u)}

\* Those there are after link_targets, which leaves out what rustc did not
\* write: only libraries have metadata.
HasMetadata(u) == u.mode = "Check" /\ u.target.kind \in {"Lib", "ExampleLib"}
Written(b, metas, roots, u) ==
  IF is_check(u.mode) => HasMetadata(u) THEN Artifacts(b, metas, roots, u) ELSE {}

\* What is written beside them, under names nothing else looks up: the
\* compiler's dep-info, and the one output_depinfo derives for a link; what the
\* compiler keeps for the next time (incremental_args); what a build script
\* printed.
rustc_dep_info_loc(b, metas, u) ==
  [file_stem(b, metas, u, "d") EXCEPT !.stem = crate_name(u.target.name)]
output_depinfo(b, metas, roots, u) ==
  {[link EXCEPT !.ext = IF @ = "bin" THEN "d" ELSE "lib.d"] :
     link \in UNION {ToSet(o.hardlink) : o \in calc_outputs(b, metas, roots, u)}}
Incremental(b, metas, u) ==
  IF u.profile.incremental /\ b.pkgs[u.pkg].path
    THEN {OutFile(layout(b, u.kind), "incremental", <<>>, crate_name(u.target.name), metas[u], "dir")}
    ELSE {}
Records(b, metas, u) ==
  {[build_script_out_dir(b, metas, u) EXCEPT !.ext = e] : e \in {"output", "stderr", "root-output"}}

\* The directories made while the jobs are put together: prepare_init and
\* build_work.
Directories(b, metas, overridden, u) ==
  {fingerprint_dir(b, metas, u)}
    \cup (IF u.mode = "RunCustomBuild" /\ <<u.pkg, u.kind>> \notin overridden
            THEN {build_script_out_dir(b, metas, u)} ELSE {})

-----------------------------------------------------------------------------
has_custom_build(b, id) == \E t \in b.pkgs[id].targets : is_custom_build(t)

\* build_map's note of the scripts whose output is configured instead.
Overridden(b, units) ==
  {<<u.pkg, u.kind>> : u \in {v \in units :
     \E l \in ToSet(b.pkgs[v.pkg].links) : <<l, v.kind>> \in b.overrides}}

\* build_map: the keys of the build scripts' outputs each unit reads.  Units on
\* a cycle, on which the code panics, get none.
RECURSIVE build_map(_, _, _, _)
build_map(b, deps, overridden, out) ==
  LET D(u)  == dep_targets(deps, overridden, u)
      ready == {u \in DOMAIN deps \ DOMAIN out : D(u) \subseteq DOMAIN out}
      Scripts(u) ==
        [to_link |-> (IF ~is_custom_build(u.target) /\ has_custom_build(b, u.pkg)
                        THEN {<<u.pkg, u.kind>>} ELSE {})
                       \cup UNION {out[d].to_link :
                              d \in {x \in D(u) : ~x.target.for_host /\ linkable(x.target)}},
         plugins |-> UNION {{k[1] : k \in out[d].to_link} : d \in {x \in D(u) : x.target.for_host}}]
  IN  IF ready = {} THEN out
      ELSE build_map(b, deps, overridden,
             [u \in DOMAIN out \cup ready |-> IF u \in ready THEN Scripts(u) ELSE out[u]])

\* The keys looked up when a unit's job runs: those of the plugins it loads
\* (add_plugin_deps), and what it links (add_native_deps) or, for a build
\* script, those of the scripts it waits for, under its own kind.
PluginReads(scripts, u) == {<<id, "Host">> : id \in scripts[u].plugins}
ScriptReads(deps, u) == {<<d.pkg, u.kind>> : d \in {x \in deps : x.mode = "RunCustomBuild"}}
Reads(scripts, deps, u) ==
  IF is_doc(u.mode) THEN {}
  ELSE PluginReads(scripts, u)
         \cup (IF u.mode = "RunCustomBuild" THEN ScriptReads(deps, u) ELSE scripts[u].to_link)

\* Links::validate over the units compiled.
LinksValid(b, units) ==
  LET ids == {u.pkg : u \in units}
  IN  /\ \A i, j \in ids : i # j /\ b.pkgs[i].links # <<>> => b.pkgs[i].links # b.pkgs[j].links
      /\ \A i \in ids : b.pkgs[i].links # <<>> => has_custom_build(b, i)
=============================================================================
