----------------------------- MODULE MCLockFile -----------------------------
(***************************************************************************)
(* Worlds for LockFile: a registry with `a`, which needs `b`, a git        *)
(* repository with `g` and `h`, a path dependency `p` and a patch of `a`.  *)
(***************************************************************************)
EXTENDS LockFile, TLC

Dep(n, s, req, dev) == [n |-> n, s |-> s, req |-> req, pin |-> "no", r |-> 0, dev |-> dev]
Reg(n, req) == Dep(n, "registry", req, FALSE)
One == {10, 11}     \* ^1.0
New == {11}         \* ^1.1
Two == {20}         \* ^2.0

MCRegDeps ==
  <<"a", 10>> :> {Reg("b", One)} @@ <<"a", 11>> :> {Reg("b", New)}
    @@ <<"g", 10>> :> {Reg("b", One)} @@ [q \in {"b", "c"} \X {10, 11, 20} |-> {}]

MCGitPkgs == <<
  "g" :> [v |-> 10, deps |-> {Reg("b", One), Dep("h", "git", One, FALSE)}]
    @@ "h" :> [v |-> 10, deps |-> {}],
  "g" :> [v |-> 10, deps |-> {Reg("b", New), Dep("h", "git", One, FALSE)}]
    @@ "h" :> [v |-> 11, deps |-> {}] >>

NoPath == [v |-> 10, deps |-> {}]
Man(deps, path, patch) == [deps |-> deps, path |-> path, patch |-> patch]
Plain(deps) == Man(deps, NoPath, {})

Cmd(op, names, aggressive, precise, locked) ==
  [op |-> op, names |-> names, aggressive |-> aggressive, precise |-> precise,
   locked |-> locked]
build == Cmd("build", {}, FALSE, 0, FALSE)
build_locked == Cmd("build", {}, FALSE, 0, TRUE)
generate == Cmd("generate", {}, FALSE, 0, FALSE)
Update(names) == Cmd("update", names, FALSE, 0, FALSE)

Base == [procs |-> {"p1"}, left |-> 3, edits |-> 0, kills |-> 0, later |-> {},
         yankable |-> {}, mirrored |-> {}, pushes |-> 1,
         published |-> {<<"a", 10>>, <<"b", 10>>}, commands |-> {build, build_locked}]

With(first, rest, world) ==
  LET s == world @@ Base IN [k \in DOMAIN s \cup {"first", "manifests"} |->
    CASE k = "first" -> {first} [] k = "manifests" -> {first} \cup rest [] OTHER -> s[k]]

a1 == Reg("a", One)
viaP == Dep("p", "path", One, FALSE)

MCScenes == {
  \* Crates appear and are yanked, requirements move.
  With(Plain({a1}), {Plain({a1, Reg("b", One)}), Plain({Reg("a", New)}), Plain({a1, Reg("b", Two)})},
       [edits |-> 1, later |-> {<<"a", 11>>, <<"b", 11>>, <<"b", 20>>},
        yankable |-> {<<"b", 10>>},
        commands |-> {build, build_locked, Update({"a"}), Update({"b"})}]),
  \* Two versions of b, every form of update, a mirror with other contents.
  With(Plain({a1, Reg("b", Two)}), {},
       [published |-> {<<"a", 10>>, <<"b", 10>>, <<"b", 20>>},
        later |-> {<<"a", 11>>, <<"b", 11>>}, mirrored |-> {<<"a", 10>>},
        commands |-> {build, generate, Update({}), Update({"b"}),
                      Cmd("update", {"a"}, TRUE, 0, FALSE),
                      Cmd("update", {"a"}, FALSE, 11, FALSE),
                      Cmd("update", {"a"}, FALSE, 20, FALSE)}]),
  \* A path dependency that changes its version and its dependencies.
  With(Man({viaP, a1}, [v |-> 10, deps |-> {Reg("b", One), Dep("c", "registry", One, TRUE)}], {}),
       {Man({viaP, a1}, [v |-> 11, deps |-> {Reg("b", One)}], {}),
        Man({viaP}, [v |-> 11, deps |-> {Reg("b", New)}], {}),
        Man({viaP, Reg("b", New)}, [v |-> 20, deps |-> {}], {})},
       [edits |-> 2, later |-> {<<"a", 11>>, <<"b", 11>>}, yankable |-> {<<"b", 11>>},
        commands |-> {build, build_locked, Update({"p"})}]),
  \* A git repository with two packages.
  With(Plain({Dep("g", "git", One, FALSE)}),
       {Plain({Dep("g", "git", One, FALSE), Dep("h", "git", One, FALSE)}),
        Plain({Dep("g", "git", One, FALSE), Dep("h", "git", New, FALSE)})},
       [edits |-> 1, pushes |-> 2, later |-> {<<"b", 11>>},
        commands |-> {build, Update({"g"}), Update({"h"}), Update({"b"})}]),
  \* A patch, used, unused, moved and dropped.
  With(Plain({a1, Reg("b", One)}),
       {Man({a1, Reg("b", One)}, NoPath, {<<"a", 10>>}),
        Man({a1, Reg("b", One)}, NoPath, {<<"a", 11>>}),
        Man({a1, Reg("b", One)}, NoPath, {<<"a", 20>>})},
       [edits |-> 2, later |-> {<<"a", 11>>, <<"b", 11>>},
        commands |-> {build, build_locked, Update({"a"})}]),
  \* Two processes and a developer.
  With(Plain({a1}), {Plain({a1, Reg("b", One)}), Plain({Reg("b", One)})},
       [procs |-> {"p1", "p2"}, left |-> 2, edits |-> 1, later |-> {<<"b", 11>>},
        commands |-> {build, Update({})}]),
  \* Interrupted writes.
  With(Plain({a1}), {Plain({Reg("b", One)})},
       [procs |-> {"p1", "p2"}, left |-> 2, edits |-> 1, kills |-> 1,
        later |-> {<<"b", 11>>}, commands |-> {build}]) }
=============================================================================
