------------------------------ MODULE Manifest -------------------------------
(***************************************************************************)
(* The targets of a package (util/toml/targets.rs, core/manifest.rs): what *)
(* Cargo compiles, from the sections of Cargo.toml and the files there are.*)
(*                                                                         *)
(* The package `p` read from Cargo.toml and the disk has                   *)
(*   p.name, p.edition        2015 or 2018                                 *)
(*   p.files                  the source files, as entries of directories: *)
(*                            [dir, stem, form], form being "rs" (stem.rs),*)
(*                            "main" (stem/main.rs), "dir" (a directory    *)
(*                            without main.rs) or "dot" (a hidden file)    *)
(*   p.lib                    the [lib] section, as an option              *)
(*   p.bin, p.example, p.test, p.bench                                     *)
(*                            the [[bin]]... sections: an option of a      *)
(*                            sequence                                     *)
(*   p.auto                   autobins, autoexamples...: the keys given    *)
(*   p.build, p.metabuild     package.build and package.metabuild, options *)
(*   p.deps                   its dependencies                             *)
(* An option is a sequence of at most one element; a section of a target is*)
(*   [name, path, types : options, features, set]                          *)
(* where `set` maps the Boolean keys given (test, doc...) to their value.  *)
(***************************************************************************)
EXTENDS Naturals, Sequences, SequencesExt, FiniteSets

CONSTANT Dashed   \* name with a hyphen -> the name with underscores

crate_name(name) == IF name \in DOMAIN Dashed THEN Dashed[name] ELSE name

Source(dir, stem) == [dir |-> dir, stem |-> stem, form |-> "rs"]

\* The value of an option, and of a Boolean key.
NoKeys == [k \in {} |-> TRUE]
Or(opt, default) == IF opt = <<>> THEN default ELSE opt[1]
Given(keys, k, default) == IF k \in DOMAIN keys THEN keys[k] ELSE default

-----------------------------------------------------------------------------
\* Target::new and its constructors.  `types` are the crate types of a
\* library; `features` those that must be on.
Target(kind, name, path, types, features) ==
  [kind |-> kind, name |-> name, path |-> path, types |-> types, features |-> features,
   doc      |-> kind \in {"Lib", "Bin"},
   doctest  |-> kind = "Lib",
   for_host |-> kind = "CustomBuild",
   tested   |-> kind \in {"Lib", "Bin", "Test"},
   benched  |-> kind \in {"Lib", "Bin", "Bench"}]

is_lib(t) == t.kind = "Lib"
is_bin(t) == t.kind = "Bin"
is_example(t) == t.kind \in {"ExampleBin", "ExampleLib"}
is_custom_build(t) == t.kind = "CustomBuild"
doctestable(t) == is_lib(t) /\ t.types \cap {"rlib", "lib", "proc-macro"} # {}
linkable(t) == is_lib(t) /\ t.types \cap {"lib", "rlib", "dylib", "proc-macro"} # {}
is_dylib(t) == is_lib(t) /\ "dylib" \in t.types
is_cdylib(t) == is_lib(t) /\ "cdylib" \in t.types

configure(toml, t) ==
  LET k == toml.set
      host == {"plugin", "proc-macro"} \cap DOMAIN k
  IN  [t EXCEPT !.tested   = Given(k, "test", @),
                !.doc      = Given(k, "doc", @),
                !.doctest  = Given(k, "doctest", @),
                !.benched  = Given(k, "bench", @),
                !.for_host = IF host = {} THEN @ ELSE \E h \in host : k[h]]

-----------------------------------------------------------------------------
\* infer_from_directory: the files with the suffix .rs and the directories
\* with a main.rs; hidden files and other directories are left alone.
infer_from_directory(p, dir) ==
  {[name |-> f.stem, path |-> f] : f \in {g \in p.files : g.dir = dir /\ g.form \in {"rs", "main"}}}

inferred_bins(p) ==
  {[name |-> p.name, path |-> f] : f \in p.files \cap {Source("src", "main")}}
     \cup infer_from_directory(p, "src/bin")

inferred_to_toml_targets(inferred) ==
  {[name |-> <<i.name>>, path |-> <<i.path>>, types |-> <<>>, features |-> {},
    set |-> NoKeys] : i \in inferred}

\* Sections switch the inference of other targets off in the 2015 edition
\* unless package.auto... says otherwise.
toml_targets_and_inferred(p, sections, inferred, auto) ==
  LET found == inferred_to_toml_targets(inferred)
      rem   == {t \in found : \A s \in ToSet(sections[1]) : s.name # t.name /\ s.path # t.path}
  IN  CASE sections = <<>> -> SetToSeq(found)
        [] sections # <<>> /\ Given(p.auto, auto, p.edition = 2018) -> sections[1] \o SetToSeq(rem)
        [] OTHER -> sections[1]

\* validate_has_name and validate_unique_names.
NamesValid(tomls) ==
  /\ \A i \in DOMAIN tomls : tomls[i].name # <<>> /\ tomls[i].name # <<"">>
  /\ \A i, j \in DOMAIN tomls : i # j => tomls[i].name # tomls[j].name

\* The path given, the one file of that name, or what the 2015 edition took
\* by mistake.
target_path(p, toml, inferred, legacy) ==
  LET matching == {i \in inferred : <<i.name>> = toml.name}
  IN  CASE toml.path # <<>> -> toml.path
        [] toml.path = <<>> /\ Cardinality(matching) = 1 -> <<(CHOOSE i \in matching : TRUE).path>>
        [] OTHER -> IF p.edition < 2018 THEN legacy ELSE <<>>

Existing(p, files) == SelectSeq(files, LAMBDA f : f \in p.files)
AtMostOne(s) == IF s = <<>> THEN <<>> ELSE <<Head(s)>>

legacy_bin_path(p, name, has_lib) ==
  AtMostOne(Existing(p, (IF has_lib THEN <<>> ELSE <<Source("src", name)>>)
                           \o <<Source("src", "main"), Source("src/bin", "main")>>))
legacy_bench_path(p, name) ==
  IF name = "bench" THEN Existing(p, <<Source("src", "bench")>>) ELSE <<>>

-----------------------------------------------------------------------------
\* The clean_... functions return [ok, critical, targets]: whether the
\* manifest can be read, whether building it is refused, and the targets.
Refused == [ok |-> FALSE, critical |-> FALSE, targets |-> {}]
Cleaned(critical, ts) == [ok |-> TRUE, critical |-> critical, targets |-> ts]

clean_lib(p) ==
  LET inferred == Existing(p, <<Source("src", "lib")>>)
      lib      == IF p.lib # <<>> THEN p.lib[1]
                  ELSE CHOOSE t \in inferred_to_toml_targets(
                                      {[name |-> p.name, path |-> inferred[1]]}) : TRUE
      name     == Or(lib.name, p.name)
      path     == CASE lib.path # <<>> -> lib.path
                    [] lib.path = <<>> /\ inferred # <<>> -> inferred
                    [] OTHER -> IF p.edition < 2018 THEN Existing(p, <<Source("src", name)>>)
                                ELSE <<>>
      Has(k)   == Given(lib.set, k, FALSE)
      types    == CASE lib.types # <<>> -> lib.types[1]
                    [] lib.types = <<>> /\ Has("plugin") -> {"dylib"}
                    [] lib.types = <<>> /\ ~Has("plugin") /\ Has("proc-macro") -> {"proc-macro"}
                    [] OTHER -> {"lib"}
  IN  IF p.lib = <<>> /\ inferred = <<>> THEN Cleaned(FALSE, {})
      ELSE IF \/ p.lib # <<>> /\ Or(lib.name, "") \in DOMAIN Dashed
              \/ name = "" \/ path = <<>>
              \/ Has("plugin") /\ Has("proc-macro")
             THEN Refused
      ELSE Cleaned(FALSE, {configure(lib, Target("Lib", name, path[1], types, {}))})

is_bad_artifact_name(name) == name \in {"deps", "examples", "build", "native", "incremental"}

clean_bins(p, has_lib) ==
  LET inferred == inferred_bins(p)
      bins     == toml_targets_and_inferred(p, p.bin, inferred, "bins")
      Path(b)  == target_path(p, b, inferred, legacy_bin_path(p, b.name[1], has_lib))
  IN  IF \/ ~NamesValid(bins)
         \/ \E b \in ToSet(bins) : is_bad_artifact_name(b.name[1]) \/ Path(b) = <<>>
        THEN Refused
        ELSE Cleaned(\E b \in ToSet(bins) : Or(b.types, {}) # {} \/ Given(b.set, "proc-macro", FALSE),
                     {configure(b, Target("Bin", b.name[1], Path(b)[1], {"bin"}, b.features)) :
                        b \in ToSet(bins)})

\* A target without a file is left out, which makes the manifest's warning
\* critical.
clean_targets(p, sections, dir) ==
  LET Legacy(name) == IF dir = "benches" THEN legacy_bench_path(p, name) ELSE <<>>
      inferred == infer_from_directory(p, dir)
      tomls    == toml_targets_and_inferred(p, sections, inferred, dir)
      Path(t)  == target_path(p, t, inferred, Legacy(t.name[1]))
      found    == {t \in ToSet(tomls) : Path(t) # <<>>}
  IN  IF ~NamesValid(tomls) THEN Refused
      ELSE Cleaned(found # ToSet(tomls), {[toml |-> t, path |-> Path(t)[1]] : t \in found})
Configured(found, Made(_, _)) ==
  [found EXCEPT !.targets = {configure(f.toml, Made(f.toml, f.path)) : f \in @}]

clean_examples(p) ==
  Configured(clean_targets(p, p.example, "examples"),
    LAMBDA t, path : Target(IF Or(t.types, {}) = {} THEN "ExampleBin" ELSE "ExampleLib",
                            t.name[1], path, Or(t.types, {"bin"}), t.features))
clean_tests(p) ==
  Configured(clean_targets(p, p.test, "tests"),
    LAMBDA t, path : Target("Test", t.name[1], path, {"bin"}, t.features))
clean_benches(p) ==
  Configured(clean_targets(p, p.bench, "benches"),
    LAMBDA t, path : Target("Bench", t.name[1], path, {"bin"}, t.features))

\* maybe_custom_build: build = false, build = true, build = "path", or build.rs
\* when it is there.
maybe_custom_build(p) ==
  CASE p.build = <<"false">> -> <<>>
    [] p.build = <<"true">> -> <<"build">>
    [] p.build = <<>> -> IF Source(".", "build") \in p.files THEN <<"build">> ELSE <<>>
    [] OTHER -> p.build

\* A build script's target is named after its file, a metabuild one after the
\* package.
clean_custom_build(p) ==
  LET build == maybe_custom_build(p)
      bdeps == {d.to : d \in {e \in p.deps : e.kind = "Build"}}
  IN  IF p.metabuild # <<>> /\ (build # <<>> \/ ~(p.metabuild[1] \subseteq bdeps)) THEN Refused
      ELSE IF p.metabuild # <<>>
        THEN Cleaned(FALSE, {Target("CustomBuild", "metabuild-" \o p.name, Source("", ""),
                                    {"bin"}, {})})
      ELSE Cleaned(FALSE, {Target("CustomBuild", "build-script-" \o s, Source(".", s), {"bin"}, {}) :
                             s \in ToSet(build)})

\* targets, and do_read_manifest's refusal of a manifest with nothing to build.
Combined(parts) ==
  IF (\E c \in parts : ~c.ok) \/ \A c \in parts : \A t \in c.targets : is_custom_build(t)
    THEN Refused
    ELSE Cleaned(\E c \in parts : c.critical, UNION {c.targets : c \in parts})
WithLib(p, lib) ==
  Combined({lib, clean_bins(p, lib.targets # {}),
            clean_examples(p), clean_tests(p), clean_benches(p), clean_custom_build(p)})
targets(p) == WithLib(p, clean_lib(p))
=============================================================================
