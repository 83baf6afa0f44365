------------------------------ MODULE MCCompile ------------------------------
EXTENDS CargoCompile, TLC

MCDashed == ("my-app" :> "my_app")

\* Packages
Dep(to, kind) == [to |-> to, kind |-> kind, optional |-> FALSE, platform |-> "any"]
Needs(ids, kind) == {Dep(i, kind) : i \in ids}
Section(name) == [name |-> <<name>>, path |-> <<>>, types |-> <<>>, features |-> {}, set |-> NoKeys]

LibRs == Source("src", "lib")
MainRs == Source("src", "main")
BuildRs == Source(".", "build")
TestRs == Source("tests", "t")
BenchRs == Source("benches", "h")
ExampleRs == Source("examples", "e")

Pkg(name, files, dependencies) ==
  [name |-> name, edition |-> 2018, files |-> files, lib |-> <<>>, bin |-> <<>>,
   example |-> <<>>, test |-> <<>>, bench |-> <<>>, auto |-> NoKeys, build |-> <<>>,
   metabuild |-> <<>>, deps |-> dependencies, links |-> <<>>, path |-> TRUE]
Registry(p) == [p EXCEPT !.path = FALSE]
Sys(name, dependencies) ==
  [Registry(Pkg(name, {LibRs, BuildRs}, dependencies)) EXCEPT !.links = <<name>>]
ProcMacro(name, dependencies) ==
  [Registry(Pkg(name, {LibRs}, dependencies))
     EXCEPT !.lib = <<[Section(name) EXCEPT !.set = "proc-macro" :> TRUE]>>]
By(S) == [n_ \in {p.name : p \in S} |-> CHOOSE p \in S : p.name = n_]

\* Trees
Home == <<"home">>
At(name, ws_) == [is |-> "package", name |-> name, deps |-> {}, ws |-> ws_]
Virtual(ws_) == [is |-> "virtual", name |-> "", deps |-> {}, ws |-> ws_]
Alone(name) == [at |-> (<<"w">> :> At(name, W!Plain)), empty |-> {}, home |-> Home]
\* A virtual workspace of the directories w/<name>.
Members(names) ==
  [at |-> [d \in {<<"w">>} \cup {<<"w", i>> : i \in names} |->
             IF d = <<"w">> THEN Virtual(W!Root({W!Dir(<<"w", i>>) : i \in names}, <<>>, {}))
             ELSE At(d[2], W!Plain)],
   empty |-> {}, home |-> Home]

\* Profiles
None_ == [toml |-> <<>>, config |-> <<>>]
Bare == [set |-> NoKeys, build |-> NoKeys, all |-> NoKeys, specs |-> {}]
Profile(name, toml) ==
  [p \in {"dev", "release", "test", "bench", "doc"} |->
     IF p = name THEN [None_ EXCEPT !.toml = <<toml>>] ELSE None_]
Defaults == Profile("", Bare)

\* Commands
No == [all |-> FALSE, just |-> {}]
All == [all |-> TRUE, just |-> {}]
Unfiltered == CompileFilter_new(FALSE, No, No, No, No, FALSE)
NotBenches == CompileFilter_new(TRUE, All, All, All, No, FALSE)
DefaultSpec == [is |-> "Default", names |-> {}]
Packages(names) == [is |-> "Packages", names |-> names]
Cargo(mode) == [op |-> "build", cur |-> <<"w">>, spec |-> DefaultSpec, filter |-> Unfiltered, mode |-> mode,
                release |-> FALSE, target |-> FALSE]
Clean(names) == [op |-> "clean", cur |-> <<"w">>, spec |-> names, doc |-> FALSE, release |-> FALSE,
                 target |-> FALSE]

Scene(tree, packages, commands) ==
  [tree |-> tree, pkgs |-> By(packages), features |-> [i \in {p.name : p \in packages} |-> {}],
   all_features |-> [i \in {p.name : p \in packages} |-> {}],
   profiles |-> Defaults, overrides |-> {}, unsupported |-> {}, wasm32 |-> FALSE, lib_metadata |-> FALSE,
   cached |-> {p.name : p \in packages}, commands |-> commands]

-----------------------------------------------------------------------------
\* A binary on a library with a native library, a procedural macro and a
\* dependency the two share.
App == { Pkg("app", {LibRs, MainRs, BuildRs}, Needs({"sys", "derive", "util"}, "Normal") \cup Needs({"util"}, "Build")),
         Sys("sys", {}), ProcMacro("derive", Needs({"util"}, "Normal")),
         Registry(Pkg("util", {LibRs}, {})) }
\* Every kind of target, and a development dependency on the package itself.
Suite == { Pkg("my-app", {LibRs, MainRs, TestRs, BenchRs, ExampleRs}, Needs({"dev"}, "Development")),
           Pkg("dev", {LibRs}, Needs({"my-app"}, "Normal")) }

\* A package used as a dependency of the target and of a build script, a
\* binary that needs a feature, a dependency for one platform only.
Cross == { [Pkg("app", {MainRs, BuildRs},
                {[Dep("sys", "Normal") EXCEPT !.platform = "target"],
                 [Dep("opt", "Normal") EXCEPT !.optional = TRUE]} \cup Needs({"sys"}, "Build"))
              EXCEPT !.bin = <<<<[Section("app") EXCEPT !.features = {"opt"}]>>>>],
           Sys("sys", Needs({"sub"}, "Normal")), Sys("sub", {}), Registry(Pkg("opt", {LibRs}, {})) }
Cdylib(name) == [Section(name) EXCEPT !.types = <<{"cdylib", "rlib"}>>]
Shared == { [Pkg("one", {LibRs, MainRs}, Needs({"two"}, "Normal")) EXCEPT !.lib = <<Cdylib("one")>>],
            [Pkg("two", {LibRs, MainRs}, {}) EXCEPT !.lib = <<[Section("two") EXCEPT !.types = <<{"dylib"}>>]>>] }
Remote == { Pkg("app", {MainRs}, Needs({"a", "b"}, "Normal")),
            Registry(Pkg("a", {LibRs}, Needs({"c"}, "Normal"))),
            Registry(Pkg("b", {LibRs}, Needs({"c"}, "Build"))), Registry(Pkg("c", {LibRs}, {})) }

Panics == Profile("dev", [Bare EXCEPT !.set = "panic" :> "abort"])
Overrides_ == Profile("dev", [Bare EXCEPT !.build = "opt" :> 3, !.all = "debuginfo" :> 0])
\* util's own setting hides that it is compiled for a build script.
Hiding == Profile("dev", [Bare EXCEPT !.build = "opt" :> 3, !.specs = {[ids |-> {"util"}, set |-> "opt" :> 1]}])
Tuned == Profile("test", [Bare EXCEPT !.set = "opt" :> 1])

\* A build script and its dependency, with a library below and in the tests
\* one with a native library; an example that is tested.
Deep == { Pkg("app", {MainRs, BuildRs}, Needs({"util"}, "Normal") \cup Needs({"util"}, "Build")),
          Registry(Pkg("util", {LibRs}, Needs({"leaf"}, "Normal"))), Registry(Pkg("leaf", {LibRs}, {})) }
Tests == { Pkg("app", {LibRs, BuildRs}, Needs({"sys"}, "Development")), Sys("sys", {}) }
Example == { [Pkg("app", {LibRs, ExampleRs}, {})
                EXCEPT !.example = <<<<[Section("e") EXCEPT !.set = "test" :> TRUE]>>>>] }
\* A procedural macro with a native library; two packages with one each that
\* need each other, the one in its tests.
Linked == { Pkg("app", {LibRs, BuildRs}, Needs({"derive"}, "Normal")),
            [ProcMacro("derive", {}) EXCEPT !.files = {LibRs, BuildRs}, !.links = <<"derive">>] }
Circle == { [Pkg("one", {LibRs, BuildRs}, Needs({"two"}, "Development")) EXCEPT !.links = <<"one">>],
            [Pkg("two", {LibRs, BuildRs}, Needs({"one"}, "Normal")) EXCEPT !.links = <<"two">>] }
Benches == CompileFilter_new(FALSE, No, No, No, All, FALSE)

BuildScenes ==
  { Scene(Alone("app"), App, <<Cargo("Build"), Clean(<<"sys", "util">>)>>),
    Scene(Alone("app"), App, <<[Cargo("Build") EXCEPT !.target = TRUE]>>),
    Scene(Alone("app"), App, <<Cargo("Check"), Cargo("DocDeps"), Clean(<<"derive", "app">>)>>),
    [Scene(Alone("app"), App, <<Cargo("Build")>>) EXCEPT !.profiles = Panics],
    [Scene(Alone("app"), App, <<Cargo("Build")>>) EXCEPT !.profiles = Overrides_],
    [Scene(Alone("app"), Deep, <<Cargo("Build"), Clean(<<"app", "util">>)>>) EXCEPT !.profiles = Hiding],
    [Scene(Alone("app"), Deep, <<Cargo("Build"), Clean(<<"util", "app">>)>>)
       EXCEPT !.all_features["util"] = {"std"}],
    [Scene(Alone("app"), Deep, <<Cargo("Test"), Clean(<<"app">>)>>) EXCEPT !.profiles = Tuned],
    Scene(Alone("app"), Linked, <<[Cargo("Build") EXCEPT !.target = TRUE]>>),
    Scene(Members({"one", "two"}), Circle, <<Cargo("Test")>>),
    Scene(Alone("app"), Tests, <<Cargo("Build"), Clean(<<"app">>)>>),
    [Scene(Alone("app"), Tests, <<Cargo("Test"), Clean(<<"app", "sys">>)>>) EXCEPT !.profiles = Tuned],
    Scene(Alone("app"), Example, <<[Cargo("Build") EXCEPT !.filter = NotBenches], Clean(<<"app">>)>>),
    [Scene(Alone("my-app"), Suite, <<Cargo("Test"), Clean(<<"my-app", "dev">>)>>) EXCEPT !.profiles = Panics],
    Scene(Alone("my-app"), Suite, <<[Cargo("Build") EXCEPT !.filter = Benches], Clean(<<"my-app">>)>>),
    [Scene(Alone("app"), App, <<Cargo("Build")>>) EXCEPT !.overrides = {<<"sys", "Host">>}],
    Scene(Alone("my-app"), Suite, <<Cargo("Test"), Clean(<<"my-app">>)>>),
    Scene(Alone("my-app"), Suite,
          <<[Cargo("Build") EXCEPT !.filter = NotBenches, !.target = TRUE],
            [Clean(<<"my-app">>) EXCEPT !.target = TRUE]>>),
    [Scene(Alone("app"), Cross, <<[Cargo("Build") EXCEPT !.target = TRUE, !.release = TRUE]>>)
       EXCEPT !.features["app"] = {"opt"}, !.all_features["app"] = {"opt"}],
    Scene(Members({"one", "two"}), Shared, <<Cargo("Build"), Cargo("Test"), Clean(<<"one">>)>>),
    [Scene(Members({"one", "two"}), Shared, <<Cargo("Build"), Clean(<<"one", "two">>)>>)
       EXCEPT !.unsupported = {"dylib"}],
    [Scene(Members({"one", "two"}), Shared, <<[Cargo("Build") EXCEPT !.target = TRUE],
                                              [Clean(<<"one">>) EXCEPT !.target = TRUE]>>)
       EXCEPT !.wasm32 = TRUE],
    [Scene(Members({"one", "two"}), Shared, <<Cargo("Build"), Clean(<<"one">>)>>)
       EXCEPT !.lib_metadata = TRUE],
    [Scene(Alone("app"), Remote, <<Cargo("Build")>>) EXCEPT !.cached = {"app"}] }

\* Manifests that are refused, at once or when something is built; packages
\* and targets that are not there; old habits of the 2015 edition.
Odd == { Pkg("empty", {BuildRs}, {}),
         [Pkg("gone", {MainRs}, {}) EXCEPT !.test = <<<<Section("missing")>>>>],
         [Pkg("meta", {LibRs}, {}) EXCEPT !.metabuild = <<{"none"}>>],
         [Pkg("bad", {MainRs}, {}) EXCEPT !.bin = <<<<Section("deps")>>>>] }
Old == { [Pkg("old", {Source("src", "old"), Source("src/bin", "main"), Source("src/bin", "two")},
              Needs({"gen"}, "Build"))
            EXCEPT !.edition = 2015, !.lib = <<[Section("old") EXCEPT !.set = "doctest" :> FALSE]>>,
                   !.bin = <<<<Section("tool")>>>>, !.metabuild = <<{"gen"}>>],
         Registry(Pkg("gen", {LibRs}, Needs({"old"}, "Development"))) }
Only(names) == [all |-> FALSE, just |-> names]

OddScenes ==
  { Scene(Alone(i), Odd, <<Cargo("Build"), Clean(<<>>)>>) : i \in {"empty", "gone", "meta", "bad"} }
    \cup { Scene(Alone("old"), Old, <<c, [Clean(<<>>) EXCEPT !.doc = TRUE],
                                    [Clean(<<"old">>) EXCEPT !.release = c.release], Clean(<<>>)>>) :
             c \in {Cargo("Test"), [Cargo("Test") EXCEPT !.spec = Packages({"gen"})],
                    [Cargo("Bench") EXCEPT !.release = TRUE],
                    [Cargo("Doc") EXCEPT !.filter = CompileFilter_new(FALSE, Only({"tool"}), No, No, No, FALSE)],
                    [Cargo("Build") EXCEPT !.filter = CompileFilter_new(TRUE, Only({"two"}), No, No, No, FALSE)],
                    [Cargo("Check") EXCEPT !.filter = CompileFilter_new(TRUE, No, All, No, No, FALSE)]} }
    \cup { Scene(Members({"one", "two"}), Shared, <<[Cargo("Build") EXCEPT !.spec = s]>>) :
             s \in {Packages({}), Packages({"three"}), [is |-> "All", names |-> {}],
                    [is |-> "OptOut", names |-> {"two"}], [is |-> "OptOut", names |-> {"one", "two"}]} }

\* Every workspace over w, w/a, w/b and x, from every directory.
Spots == {<<"w">>, <<"w", "a">>, <<"w", "b">>, <<"x">>}
Roots_ == {W!Root(m, d, e) : m \in SUBSET {W!Dir(<<"w", "a">>), W!Dir(<<"x">>), W!Glob(<<"w">>)},
                            d \in {<<>>, <<{W!Dir(<<"w", "a">>)}>>}, e \in {{}, {<<"w", "a">>}, {<<"w", "b">>}}}
Trees ==
  { [at |-> [d \in Spots |->
       CASE d = <<"w">> -> [root EXCEPT !.deps = {<<"w", "a">>} \cap links]
         [] d = <<"w", "a">> -> [At("a", aw) EXCEPT !.deps = {<<"w", "b">>} \cap links]
         [] d = <<"w", "b">> -> [At(bn, W!Plain) EXCEPT !.deps = {<<"x">>} \cap links]
         [] d = <<"x">> -> At("x", xw)],
     empty |-> {}, home |-> Home] :
    root \in {Virtual(r) : r \in Roots_} \cup {At("w", r) : r \in Roots_},
    aw \in {W!Plain, W!Pointer(<<"w">>), W!Pointer(<<"x">>), W!Root({}, <<>>, {})},
    bn \in {"a", "b"},
    xw \in {W!Plain, W!Pointer(<<"w">>), W!Root({W!Dir(<<"w", "a">>)}, <<>>, {})},
    links \in SUBSET {<<"w", "a">>, <<"w", "b">>, <<"x">>} }
TreeScenes ==
  { Scene(tree, {}, <<[Clean(<<>>) EXCEPT !.cur = d]>>) : tree \in Trees, d \in Spots }

MCScenes == BuildScenes \cup OddScenes \cup TreeScenes
=============================================================================
