------------------------------ MODULE Profiles -------------------------------
(***************************************************************************)
(* Profiles (core/profiles.rs): the settings a unit is compiled with, from *)
(* the defaults, [profile.*] of the workspace root and of .cargo/config,   *)
(* and the overrides in them, and from what the unit is compiled for.      *)
(*                                                                         *)
(* A section [profile.x] is                                                *)
(*   [set, build, all, specs]                                              *)
(* `set` maps the keys given to their values, `build` is build-override    *)
(* and `all` is overrides."*", both as such maps, and `specs` is the set   *)
(* of [ids, set] for the overrides of a package id specification, which    *)
(* matches the packages `ids`.  The profiles `ps` map "dev", "release",    *)
(* "test", "bench" and "doc" to [toml, config], each an option.            *)
(***************************************************************************)
EXTENDS Naturals, Sequences, SequencesExt, FiniteSets

\* Profile::default and default_dev.  Two profiles are equal when all but
\* their names are (comparable), so there is no name here.
Default == [opt |-> 0, lto |-> FALSE, codegen_units |-> 0, debuginfo |-> 0,
            debug_assertions |-> FALSE, overflow_checks |-> FALSE, rpath |-> FALSE,
            incremental |-> FALSE, panic |-> ""]
DefaultDev == [Default EXCEPT !.debuginfo = 2, !.debug_assertions = TRUE,
                              !.overflow_checks = TRUE, !.incremental = TRUE]
DefaultRelease == [Default EXCEPT !.opt = 3]
DefaultOf(name) == IF name \in {"release", "bench"} THEN DefaultRelease ELSE DefaultDev

\* UnitFor: is the unit for a build script (or a dependency of one), and may
\* `panic` be set?
new_normal == [custom_build |-> FALSE, panic_ok |-> TRUE]
new_build == [custom_build |-> TRUE, panic_ok |-> FALSE]
new_compiler == [custom_build |-> FALSE, panic_ok |-> FALSE]
new_test == [custom_build |-> FALSE, panic_ok |-> FALSE]
with_for_host(uf, for_host) == [uf EXCEPT !.panic_ok = @ /\ ~for_host]
all_values == <<new_normal, new_build, new_compiler>>

-----------------------------------------------------------------------------
\* TomlProfile::validate, on reading a manifest.
validate_override(set) == DOMAIN set \cap {"panic", "lto", "rpath"} = {}

ProfileValid(name, toml) ==
  /\ \A o \in {toml.build, toml.all} \cup {x.set : x \in toml.specs} : validate_override(o)
  /\ name \in {"dev", "release"} \/ (DOMAIN toml.build \cup DOMAIN toml.all = {} /\ toml.specs = {})

Profiles_valid(ps) ==
  \A name \in DOMAIN ps : \A toml \in ToSet(ps[name].toml) \cup ToSet(ps[name].config) :
    ProfileValid(name, toml)

\* validate_packages: no package is matched by two overrides of one profile.
validate_packages(ps, ids) ==
  \A name \in DOMAIN ps : \A toml \in ToSet(ps[name].toml) \cup ToSet(ps[name].config) :
    \A id \in ids : Cardinality({x \in toml.specs : id \in x.ids}) <= 1

-----------------------------------------------------------------------------
merge_profile(profile, set) ==
  [k \in DOMAIN profile |-> IF k \in DOMAIN set THEN set[k] ELSE profile[k]]

\* The later of the four wins.
merge_toml(profile, toml, id, is_member, unit_for) ==
  LET base  == merge_profile(profile, toml.set)
      build == IF unit_for.custom_build THEN merge_profile(base, toml.build) ELSE base
      all   == IF is_member THEN build ELSE merge_profile(build, toml.all)
      named == {x \in toml.specs : id \in x.ids}
  IN  IF named = {} THEN all ELSE merge_profile(all, (CHOOSE x \in named : TRUE).set)

\* ProfileMaker::get_profile: the manifest, then .cargo/config over it.
MakeProfile(ps, name, id, is_member, unit_for) ==
  FoldLeft(LAMBDA profile, toml : merge_toml(profile, toml, id, is_member, unit_for),
           DefaultOf(name), ps[name].toml \o ps[name].config)

\* CompileMode; "CheckTest" is Check { test: true }, "DocDeps" is
\* Doc { deps: true }.
is_any_test(mode) == mode \in {"Test", "Bench", "CheckTest", "Doctest"}
is_check(mode) == mode \in {"Check", "CheckTest"}
is_doc(mode) == mode \in {"Doc", "DocDeps", "Doctest"}
\* Mutant: the Test mode is forgotten.
all_modes_untested == <<"Build", "CheckTest", "Check", "Bench", "DocDeps", "Doc", "Doctest",
                        "RunCustomBuild">>
all_modes == <<"Test", "Build", "CheckTest", "Check", "Bench", "DocDeps", "Doc", "Doctest",
               "RunCustomBuild">>

\* Profiles::get_profile.
get_profile(ps, id, is_member, unit_for, mode, release) ==
  LET name == CASE mode = "Test" -> IF release THEN "bench" ELSE "test"
                [] mode = "Bench" -> "bench"
                [] mode \in {"Doc", "DocDeps"} -> "doc"
                [] OTHER -> IF release THEN "release" ELSE "dev"
      made == MakeProfile(ps, name, id, is_member, unit_for)
  IN  IF ~unit_for.panic_ok \/ is_any_test(mode) THEN [made EXCEPT !.panic = ""] ELSE made

\* What running a build script is told of the profile.
get_profile_run_custom_build(profile) ==
  [Default EXCEPT !.debuginfo = profile.debuginfo, !.opt = profile.opt]
=============================================================================
