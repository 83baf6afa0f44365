-------------------------------- MODULE Units --------------------------------
(***************************************************************************)
(* From a command line to units of work: the targets a command selects     *)
(* (ops/cargo_compile.rs) and what each unit depends on                    *)
(* (core/compiler/context/unit_dependencies.rs).  The walk that puts the   *)
(* dependencies together is in CargoCompile.                               *)
(*                                                                         *)
(* The build context `b` (BuildContext, BuildConfig) has                   *)
(*   b.pkgs      id -> [targets, deps, links, path]; `deps` as resolved:   *)
(*               [to, kind, optional, platform], `links` an option, `path` *)
(*               whether the source is a path                              *)
(*   b.features  id -> the features that are on                            *)
(*   b.members, b.profiles, b.mode, b.release                              *)
(*   b.target    was --target given?  b.wasm32, for wasm32?                *)
(*   b.lib_metadata  is __CARGO_DEFAULT_LIB_METADATA set?                  *)
(* A unit is [pkg, target, profile, kind, mode], kind "Host" or "Target".  *)
(***************************************************************************)
EXTENDS Manifest, Profiles

Unit(id, t, profile, kind, mode) ==
  [pkg |-> id, target |-> t, profile |-> profile, kind |-> kind, mode |-> mode]

for_target(kind, t) == IF t.for_host THEN "Host" ELSE kind
test(b) == b.mode \in {"Test", "Bench"}          \* BuildConfig::test

-----------------------------------------------------------------------------
\* FilterRule and CompileFilter.  A rule is [all, just].
matches(rule, t) == rule.all \/ t.name \in rule.just
is_specific(rule) == rule.all \/ rule.just # {}
CompileFilter_new(lib_only, bins, tests, examples, benches, all_targets) ==
  LET All == [all |-> TRUE, just |-> {}]
  IN  IF all_targets
        THEN [specific |-> TRUE, all_targets |-> TRUE, lib |-> TRUE, bins |-> All,
              examples |-> All, benches |-> All, tests |-> All]
        ELSE [specific |-> lib_only \/ \E r \in {bins, tests, examples, benches} : is_specific(r),
              all_targets |-> FALSE, lib |-> lib_only, bins |-> bins, examples |-> examples,
              benches |-> benches, tests |-> tests]

\* Packages::to_package_id_specs on the workspace's member and default member
\* names; `current` is empty for a virtual manifest.
to_package_id_specs(spec, members, default, current) ==
  CASE spec.is = "All" -> members
    [] spec.is = "OptOut" -> members \ spec.names
    [] spec.is = "Packages" -> IF spec.names = {} THEN current ELSE spec.names
    [] spec.is = "Default" -> default

filter_default_targets(ts, mode) ==
  {t \in ts : CASE mode = "Bench" -> t.benched
                [] mode = "Test" -> t.tested \/ is_example(t)
                [] mode \in {"Doc", "DocDeps"} ->
                     t.doc /\ (is_bin(t) => \A l \in ts : ~(is_lib(l) /\ l.name = t.name))
                [] OTHER -> is_bin(t) \/ is_lib(t)}

Proposal(id, t, required, mode) == [pkg |-> id, target |-> t, required |-> required, mode |-> mode]

\* The predicates generate_targets passes on, by name.
Is(t, what) ==
  CASE what = "bin" -> is_bin(t)          [] what = "example" -> is_example(t)
    [] what = "test" -> t.kind = "Test"   [] what = "tested" -> t.tested
    [] what = "bench" -> t.kind = "Bench" [] what = "benched" -> t.benched

\* The targets of the packages that are of the kind and satisfy the rule.
list_rule_targets(b, ids, rule, what, mode) ==
  UNION {{Proposal(id, t, ~rule.all, mode) :
            t \in {x \in b.pkgs[id].targets : Is(x, what) /\ matches(rule, x)}} : id \in ids}
\* find_named_targets fails for a name that no target has.
AllNamesFound(b, ids, rule, what) ==
  rule.all \/ \A n \in rule.just :
                \E id \in ids : \E t \in b.pkgs[id].targets : Is(t, what) /\ t.name = n

ProposeDefault(b, ids, f) ==
  UNION {{Proposal(id, t, FALSE, b.mode) : t \in filter_default_targets(b.pkgs[id].targets, b.mode)}
           \cup {Proposal(id, t, FALSE, "Doctest") :
                   t \in {x \in b.pkgs[id].targets :
                            b.mode = "Test" /\ is_lib(x) /\ x.doctest /\ doctestable(x)}} : id \in ids}

TestMode(mode) == CASE mode = "Build" -> "Test" [] is_check(mode) -> "CheckTest" [] OTHER -> mode
BenchMode(mode) == CASE mode = "Build" -> "Bench" [] is_check(mode) -> "CheckTest" [] OTHER -> mode

Libs(b, ids, f) ==
  IF f.lib THEN UNION {{Proposal(id, t, FALSE, b.mode) :
                          t \in {x \in b.pkgs[id].targets :
                                   is_lib(x) /\ (b.mode = "Doctest" => doctestable(x))}} : id \in ids}
           ELSE {}
ProposeOnly(b, ids, f) ==
  Libs(b, ids, f)
    \cup list_rule_targets(b, ids, f.bins, "bin", b.mode)
    \cup list_rule_targets(b, ids, f.examples, "example", b.mode)
    \cup list_rule_targets(b, ids, f.tests, IF f.tests.all THEN "tested" ELSE "test",
                           TestMode(b.mode))
    \cup list_rule_targets(b, ids, f.benches, IF f.benches.all THEN "benched" ELSE "bench",
                           BenchMode(b.mode))
OnlyFails(b, ids, f) ==
  \/ f.lib /\ ~f.all_targets /\ Libs(b, ids, f) = {}
  \/ ~AllNamesFound(b, ids, f.bins, "bin")
  \/ ~AllNamesFound(b, ids, f.examples, "example")
  \/ ~AllNamesFound(b, ids, f.tests, "test")
  \/ ~AllNamesFound(b, ids, f.benches, "bench")

\* The features a target may require: the package's, and its dependencies' as
\* "dep/feature".
resolve_all_features(b, id) ==
  b.features[id] \cup UNION {{d.to \o "/" \o f : f \in b.features[d.to]} : d \in b.pkgs[id].deps}

\* generate_targets' new_unit.  A benchmark's mode becomes Test once its
\* profile is known.
RootUnit(b, f, p) ==
  LET t    == p.target
      uf   == IF is_any_test(b.mode) THEN new_test
              ELSE IF t.for_host THEN new_compiler ELSE new_normal
      mode == CASE p.mode = "Test" /\ is_example(t) /\ ~f.specific /\ ~t.tested -> "Build"
                [] p.mode = "Build" /\ t.kind \in {"Test", "Bench"} -> t.kind
                [] OTHER -> p.mode
      kind == IF t.for_host THEN "Host" ELSE IF b.target THEN "Target" ELSE "Host"
  IN  Unit(p.pkg, t, get_profile(b.profiles, p.pkg, p.pkg \in b.members, uf, mode, b.release),
           kind, IF mode = "Bench" THEN "Test" ELSE mode)

\* generate_targets: [ok, val], val the set of units.
generate_targets(b, ids, f) ==
  LET proposals   == IF f.specific THEN ProposeOnly(b, ids, f) ELSE ProposeDefault(b, ids, f)
      Can(p)      == is_lib(p.target) \/ p.target.features \subseteq resolve_all_features(b, p.pkg)
  IN  IF (f.specific /\ OnlyFails(b, ids, f)) \/ \E p \in proposals : ~Can(p) /\ p.required
        THEN [ok |-> FALSE, val |-> {}]
        ELSE [ok |-> TRUE, val |-> {RootUnit(b, f, p) : p \in {q \in proposals : Can(q)}}]

-----------------------------------------------------------------------------
\* unit_dependencies.rs

check_or_build_mode(mode, t) ==
  IF (is_check(mode) \/ mode \in {"Doc", "DocDeps"}) /\ ~t.for_host THEN "Check" ELSE "Build"

new_unit(b, id, t, uf, kind, mode) ==
  Unit(id, t, get_profile(b.profiles, id, id \in b.members, uf, mode, b.release), kind, mode)

Pair(u, uf) == [unit |-> u, for |-> uf]

\* Mutant: the script runs for the host, as it is compiled for it.
dep_build_script_host(b, u) ==
  {Pair(Unit(u.pkg, t, get_profile_run_custom_build(u.profile), "Host", "RunCustomBuild"),
        new_build) : t \in {x \in b.pkgs[u.pkg].targets : is_custom_build(x)}}

\* The profile in the unit is that of what the script is run for.
dep_build_script(b, u) ==
  {Pair(Unit(u.pkg, t, get_profile_run_custom_build(u.profile), u.kind, "RunCustomBuild"),
        new_build) : t \in {x \in b.pkgs[u.pkg].targets : is_custom_build(x)}}

maybe_lib(b, u, uf) ==
  {Pair(new_unit(b, u.pkg, t, uf, for_target(u.kind, t), check_or_build_mode(u.mode, t)), uf) :
     t \in {x \in b.pkgs[u.pkg].targets : linkable(x)}}

\* dep_platform_activated: the host's platform and, with --target, the
\* target's differ.
dep_platform_activated(b, dep, kind) ==
  dep.platform \in {"any", IF kind = "Target" /\ b.target THEN "target" ELSE "host"}

\* The dependencies a unit uses, by package id.
UsedDeps(b, u) ==
  {d.to : d \in {e \in b.pkgs[u.pkg].deps :
     /\ is_custom_build(u.target) = (e.kind = "Build")
     /\ e.kind = "Development" =>
          u.target.kind \in {"Test", "ExampleBin", "ExampleLib"} \/ is_any_test(u.mode)
     /\ dep_platform_activated(b, e, u.kind)
     /\ e.optional => e.to \in b.features[u.pkg]}}
DocDeps(b, u) ==
  {d.to : d \in {e \in b.pkgs[u.pkg].deps :
     e.kind = "Normal" /\ dep_platform_activated(b, e, u.kind)}}

\* The units of the libraries of those of `ids` that are at hand (`got`), for
\* compiling against and in `more` modes.
DepLibs(b, u, ids, got, uf, more) ==
  UNION {UNION {{LET duf == with_for_host(uf, t.for_host)
                 IN  Pair(new_unit(b, id, t, duf, for_target(u.kind, t), m), duf) :
                   m \in {check_or_build_mode(u.mode, t)} \cup more} :
                  t \in {x \in b.pkgs[id].targets : is_lib(x)}} : id \in ids \cap got}

compute_deps_custom_build(b, u) ==
  {Pair(new_unit(b, u.pkg, u.target, new_build, "Host", "Build"), new_build)}

compute_deps_doc(b, u, got) ==
  DepLibs(b, u, DocDeps(b, u), got, new_normal, {u.mode} \cap {"DocDeps"})
    \cup dep_build_script(b, u)
    \cup (IF is_bin(u.target) THEN maybe_lib(b, u, new_normal) ELSE {})

\* Integration tests and benchmarks want the package's binaries.
Binaries(b, u) ==
  IF ~is_check(u.mode) /\ is_any_test(u.mode) /\ u.target.kind \in {"Test", "Bench"}
    THEN {Pair(new_unit(b, u.pkg, t, new_normal, for_target(u.kind, t), "Build"), new_normal) :
            t \in {x \in b.pkgs[u.pkg].targets :
                     is_bin(x) /\ x.features \subseteq b.features[u.pkg]}}
    ELSE {}

IsDocUnit(u) == is_doc(u.mode) /\ ~is_any_test(u.mode)

\* The packages compute_deps asks for.
Wanted(b, u) ==
  CASE u.mode = "RunCustomBuild" -> {}
    [] IsDocUnit(u) -> DocDeps(b, u)
    [] OTHER -> UsedDeps(b, u)

compute_deps(b, u, uf, got) ==
  CASE u.mode = "RunCustomBuild" -> compute_deps_custom_build(b, u)
    [] IsDocUnit(u) -> compute_deps_doc(b, u, got)
    [] OTHER ->
         DepLibs(b, u, UsedDeps(b, u), got, uf, {})
           \cup (IF is_custom_build(u.target) THEN {} ELSE
                  dep_build_script(b, u)
                    \cup (IF is_lib(u.target) /\ u.mode # "Doctest" THEN {}
                          ELSE maybe_lib(b, u, uf) \cup Binaries(b, u)))

\* The UnitFor build_unit_dependencies starts from.
RootFor(b, u) ==
  IF is_any_test(u.mode) \/ test(b) THEN new_test
  ELSE IF is_custom_build(u.target) THEN new_build
  ELSE IF u.target.for_host THEN new_compiler ELSE new_normal

\* connect_run_custom_build_deps: running a build script waits for the build
\* scripts of the `links` packages that what it is run for depends on.
connect_run_custom_build_deps(b, deps) ==
  LET Parents(u) == {v \in DOMAIN deps : u \in deps[v]}
      Others(u)  == {o \in UNION {deps[v] : v \in Parents(u)} :
                       o.pkg # u.pkg /\ linkable(o.target) /\ b.pkgs[o.pkg].links # <<>>}
  IN  [u \in DOMAIN deps |->
         IF u.mode # "RunCustomBuild" THEN deps[u]
         ELSE deps[u] \cup {p.unit : p \in UNION {dep_build_script(b, o) : o \in Others(u)}}]
=============================================================================
