------------------------------ MODULE Workspace ------------------------------
(***************************************************************************)
(* Workspaces (core/workspace.rs): which Cargo.toml is the root of the     *)
(* workspace a manifest belongs to, which manifests are its members, and   *)
(* when Cargo refuses the result.                                          *)
(*                                                                         *)
(* A directory is the sequence of the names on its path.  A tree `t` has   *)
(*   t.at       directory -> the manifest in it, for those that have one   *)
(*   t.empty    directories without a Cargo.toml                           *)
(*   t.home     CARGO_HOME                                                 *)
(* and a manifest is                                                       *)
(*   [is |-> "package", name, deps, ws]   deps: directories it depends on  *)
(*   [is |-> "virtual", name, deps, ws]                                    *)
(*   [is |-> "broken", ...]               one that does not parse          *)
(* where ws is the [workspace] section or the package.workspace key.       *)
(***************************************************************************)
EXTENDS Naturals, Sequences, SequencesExt, FiniteSets, FiniteSetsExt

\* WorkspaceConfig::Root.  An entry of a list is a directory or, with the
\* pattern `dir/*`, all the children of one.
Root(members, default, exclude) ==
  [is |-> "Root", members |-> members, default |-> default, exclude |-> exclude]
\* WorkspaceConfig::Member, without and with `package.workspace`.
Plain == [is |-> "Member", to |-> <<>>]
Pointer(dir) == [is |-> "Member", to |-> <<dir>>]

Dir(d) == [dir |-> d, glob |-> FALSE]
Glob(d) == [dir |-> d, glob |-> TRUE]

\* Results: an error, or a value.  An optional value is a sequence of at most
\* one element.
Err == [ok |-> FALSE, val |-> <<>>]
Ok(v) == [ok |-> TRUE, val |-> v]

Below(d, r) == IsPrefix(r, d)
Dirs(t) == DOMAIN t.at \cup t.empty
\* Packages::load succeeds: the manifest is there and parses.
load(t, d) == d \in DOMAIN t.at /\ t.at[d].is # "broken"
IsRoot(t, d) == t.at[d].ws.is = "Root"

\* An entry of `exclude` excludes all below it, unless an entry of `members`
\* is above the manifest too.  A pattern is compared as the path it is written
\* as, so `dir/*` is above nothing.
is_excluded(cfg, d) ==
  /\ \E ex \in cfg.exclude : Below(d, ex)
  /\ ~ \E mem \in cfg.members : ~mem.glob /\ Below(d, mem.dir)

\* An entry that expands to nothing stands for itself.
members_paths(t, entries) ==
  UNION { LET found == {d \in Dirs(t) : Len(d) = Len(e.dir) + 1 /\ Below(d, e.dir)}
          IN  IF e.glob
                THEN IF found = {} THEN {Append(e.dir, "*")} ELSE found
                ELSE {e.dir} : e \in entries }

\* The ancestor of d with n names ends the walk of find_root: cargo package's
\* own directory, a manifest that says where the root is or does not parse,
\* or CARGO_HOME.
EndsWalk(t, d, n) ==
  LET a == SubSeq(d, 1, n)
  IN  \/ IsSuffix(<<"target", "package">>, a)
      \/ /\ a \in DOMAIN t.at
         /\ \/ ~load(t, a)
            \/ IsRoot(t, a) /\ ~is_excluded(t.at[a].ws, d)
            \/ ~IsRoot(t, a) /\ t.at[a].ws.to # <<>>
      \/ a = t.home

\* What the walk finds at the nearest ancestor that ends it.
find_root_above(t, d) ==
  LET ends == {n \in 0..(Len(d) - 1) : EndsWalk(t, d, n)}
      a    == SubSeq(d, 1, Max(ends))
  IN  IF ends = {} \/ IsSuffix(<<"target", "package">>, a) \/ a \notin DOMAIN t.at
        THEN Ok(<<>>)
      ELSE IF ~load(t, a) THEN Err
      ELSE IF ~IsRoot(t, a) THEN Ok(t.at[a].ws.to)
      ELSE IF is_excluded(t.at[a].ws, d) THEN Ok(<<>>)     \* a is CARGO_HOME
      ELSE Ok(<<a>>)

find_root(t, d) ==
  IF ~load(t, d) THEN Err
  ELSE IF IsRoot(t, d) THEN Ok(<<d>>)
  ELSE IF t.at[d].ws.to # <<>> THEN Ok(t.at[d].ws.to)
  ELSE find_root_above(t, d)

\* find_path_deps adds a manifest unless it is excluded or, being reached as a
\* path dependency outside of the root's directory, has another root.
Admitted(t, root, d, is_path_dep) ==
  /\ ~(is_path_dep /\ ~Below(d, root) /\ find_root(t, d) # Ok(<<root>>))
  /\ ~is_excluded(t.at[root].ws, d)

PathDeps(t, S) == UNION {t.at[d].deps : d \in {m \in S : load(t, m) /\ t.at[m].is = "package"}}

\* The manifests find_path_deps adds after those of `seen` when it follows
\* path dependencies to the end.
RECURSIVE find_path_deps(_, _, _)
find_path_deps(t, root, seen) ==
  LET new == {c \in PathDeps(t, seen) \ seen : Admitted(t, root, c, TRUE)}
  IN  IF new = {} THEN seen ELSE find_path_deps(t, root, seen \cup new)

\* The manifests it opens on the way: the ones added, and the path
\* dependencies outside of the root's directory.
Opened(t, root, members) ==
  members \cup {c \in PathDeps(t, members) : ~Below(c, root)}

\* find_members.  `default-members` is compared with the members found before
\* the root's own manifest was added.
find_members(t, cur, root) ==
  IF root = <<>> THEN Ok([members |-> {cur}, default |-> {cur}])
  ELSE LET r       == root[1]
           cfg     == t.at[r].ws
           seeds   == {d \in members_paths(t, cfg.members) : Admitted(t, r, d, FALSE)}
           listed  == find_path_deps(t, r, seeds)
           all     == find_path_deps(t, r, listed \cup {d \in {r} : Admitted(t, r, d, FALSE)})
           default == CASE cfg.default # <<>> -> members_paths(t, cfg.default[1])
                        [] cfg.default = <<>> /\ t.at[cur].is = "virtual" -> listed
                        [] OTHER -> {cur}
       IN  IF \/ ~load(t, r) \/ ~IsRoot(t, r)
              \/ \E d \in Opened(t, r, all) : ~find_root(t, d).ok
              \/ cfg.default # <<>> /\ ~(default \subseteq listed)
             THEN Err
             ELSE Ok([members |-> all, default |-> default])

\* Mutant: nobody asks the members what their root is.
validate_unasked(t, cur, root, members) ==
  \/ root = <<>>
  \/ Cardinality({d \in members : IsRoot(t, d)}) = 1 /\ cur \in members

\* A workspace has one root, no two packages of one name, all its members
\* agree on the root, and the current manifest is one of them.
validate(t, cur, root, members) ==
  \/ root = <<>>
  \/ /\ Cardinality({d \in members : IsRoot(t, d)}) = 1
     /\ \A d, e \in members :
          d # e /\ t.at[d].is = "package" /\ t.at[e].is = "package"
            => t.at[d].name # t.at[e].name
     /\ \A d \in members : find_root(t, d) = Ok(root)
     /\ cur \in members

\* Workspace::new, with Members' filter for packages applied.
Validated(t, cur, root, found) ==
  LET Pkgs(S) == {d \in S : t.at[d].is = "package"}
  IN  IF ~found.ok THEN Err
      ELSE IF ~validate(t, cur, root, found.val.members) THEN Err
      ELSE Ok([cur     |-> cur,
               root    |-> IF root = <<>> THEN cur ELSE root[1],
               members |-> Pkgs(found.val.members),
               default |-> Pkgs(found.val.default)])
WithRoot(t, cur, root) ==
  IF root.ok THEN Validated(t, cur, root.val, find_members(t, cur, root.val)) ELSE Err
Workspace_new(t, cur) == WithRoot(t, cur, find_root(t, cur))

is_virtual(t, w) == t.at[w.cur].is = "virtual"
=============================================================================
