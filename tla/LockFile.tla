------------------------------ MODULE LockFile ------------------------------
(***************************************************************************)
(* Cargo.lock: how a command reads it, resolves the workspace with it, and *)
(* writes it back (ops/resolve.rs, ops/lockfile.rs,                        *)
(* ops/cargo_generate_lockfile.rs, core/registry.rs,                       *)
(* core/resolver/{encode,resolve}.rs).  The workspace has one member `m`,  *)
(* which may depend on the package `p` by path and may patch registry      *)
(* crates with a copy of their own.  The search itself is the subject of   *)
(* module Resolver: here it is any minimal solution of the requirements    *)
(* after locking, which is what makes the locking necessary.               *)
(***************************************************************************)
EXTENDS FileLock, Naturals, FiniteSetsExt

CONSTANTS
  Scenes,       \* the worlds to explore, as in MCLockFile
  RegDeps,      \* <<name, version>> -> dependencies of a crate of the registry
  GitPkgs,      \* revision -> name -> [v, deps] of the git repository
  Member, PathDep   \* the package names `m` and `p`

VARIABLES
  scene,        \* the world of this behaviour
  manifest,     \* the Cargo.toml files of the workspace, on disk
  published,    \* <<name, version>> in the registry
  yanked,       \* those that were yanked
  recut,        \* those whose contents a mirror changed: another checksum
  head,         \* the tip of the git repository
  lockfile,     \* Cargo.lock: [state, enc, of]
  proc,         \* the state of each cargo process
  edits, kills  \* what is left of the bounds

upstream == <<published, yanked, recut, head>>
vars == <<scene, manifest, upstream, lockfile, proc, edits, kills, locks>>

LockPath == CHOOSE f \in File : TRUE
None == [pkgs |-> {}, deps |-> {}, unused |-> {}, sums |-> {}]

\* What a lock file was made from that nobody wrote: no manifest has this.
Unwritten == [deps |-> {}, path |-> [v |-> 0, deps |-> {}], patch |-> {}]

-----------------------------------------------------------------------------
(* Package ids and dependencies.                                           *)

\* A package id: name, version, source and, for git, the precise revision.
Id(n, v, s, r) == [n |-> n, v |-> v, s |-> s, r |-> r]
MemberId == Id(Member, 10, "path", 0)

\* Equality of package ids does not take the precise revision into account.
SameId(x, y) == <<x.n, x.v, x.s>> = <<y.n, y.v, y.s>>
Has(ids, x) == \E y \in ids : SameId(x, y)

\* Versions 10, 11, 20 stand for 1.0, 1.1, 2.0: two versions are compatible
\* when their leftmost digits are the same.
Compat(v) == v \div 10

IsPath(s) == s \in {"path", "patch"}

matches_ignoring_source(dep, id) == dep.n = id.n /\ id.v \in dep.req
matches_id(dep, id) == matches_ignoring_source(dep, id) /\ dep.s = id.s

\* lock_to: an exact requirement on a precise source.
lock_to(dep, id) == [dep EXCEPT !.req = {id.v}, !.pin = "source", !.r = id.r]

\* Dependency::is_locked: the requirement is `=a.b.c`.
is_locked(dep) == dep.pin # "no"

-----------------------------------------------------------------------------
(* The manifests as a command loaded them.                                 *)

PatchIds(man) == {Id(q[1], q[2], "patch", 0) : q \in man.patch}
UsesPath(man) == \E d \in man.deps : d.s = "path"
PathId(man) == Id(PathDep, man.path.v, "path", 0)

\* What ws.load finds at the path of a package id.
PathPkg(man, id) ==
  CASE id.n = Member -> {MemberId}
    [] id.n = PathDep /\ id.s = "path" -> {PathId(man)}
    [] OTHER -> {x \in PatchIds(man) : x.n = id.n /\ id.s = "patch"}

\* The dependencies of the package with this id, before locking.
DepsOf(man, id) ==
  CASE id.n = Member -> man.deps
    [] id.s = "path" /\ id.n # Member -> man.path.deps
    [] id.s = "patch" -> {}
    [] id.s = "registry" -> RegDeps[<<id.n, id.v>>]
    [] id.s = "git" -> GitPkgs[id.r][id.n].deps

\* Development dependencies are resolved for the members only.
Resolved(man, id) == {d \in DepsOf(man, id) : id.n = Member \/ ~d.dev}

-----------------------------------------------------------------------------
(* Encoding.  A path source is left out of the file and found again by the *)
(* name of the package; the precise part of a source is kept on the        *)
(* package and dropped in the lists of dependencies.                       *)

encode_source(id) == IF IsPath(id.s) THEN "none" ELSE id.s
encodable_package_id(id) == <<id.n, id.v, encode_source(id)>>

Encode(res) ==
  [pkgs   |-> {<<encodable_package_id(x), x.r>> : x \in res.pkgs},
   deps   |-> {<<encodable_package_id(e[1]), encodable_package_id(e[2])>> :
                 e \in res.deps},
   unused |-> {encodable_package_id(x) : x \in res.unused},
   sums   |-> {<<encodable_package_id(s[1]), s[2]>> :
                 s \in {c \in res.sums : ~IsPath(c[1].s)}}]

\* build_path_deps: the names with a path source in the workspace of today.
build_path_deps(man) ==
  {<<Member, "path">>}
    \cup (IF UsesPath(man) THEN {<<PathDep, "path">>} ELSE {})
    \cup {<<q[1], "patch">> : q \in man.patch}

\* The ids an encoded id may stand for: none when its path source is gone.
DecodeId(man, enc, r) ==
  IF enc[3] # "none"
  THEN {Id(enc[1], enc[2], enc[3], r)}
  ELSE {Id(enc[1], enc[2], q[2], 0) :
          q \in {p \in build_path_deps(man) : p[1] = enc[1]}}

\* EncodableResolve::into_resolve.
Decode(man, enc) ==
  LET live == UNION {DecodeId(man, q[1], q[2]) : q \in enc.pkgs}
      Lookup(e) == {x \in live : encodable_package_id(x) = e}
  IN  [pkgs   |-> live,
       deps   |-> UNION {Lookup(e[1]) \X Lookup(e[2]) : e \in enc.deps},
       unused |-> UNION {DecodeId(man, e, 0) : e \in enc.unused},
       sums   |-> UNION {Lookup(s[1]) \X {s[2]} : s \in enc.sums}]

-----------------------------------------------------------------------------
(* What of the previous resolution is kept.                                *)

\* add_deps and fill_with_deps: x and everything it depended on.
DepsClosure(prev, ids) ==
  LET Grow(S) == S \cup {e[2] : e \in {d \in prev.deps : d[1] \in S}}
      RECURSIVE Close(_)
      Close(S) == IF Grow(S) = S THEN S ELSE Close(Grow(S))
  IN  Close(ids)

\* Mutants: one package of a repository is unlocked alone; the registry is
\* unlocked as a whole.
Keep_alone(avoid, id) == id \notin avoid
Keep_by_source(avoid, id) == \A x \in avoid : x.s # id.s \/ (IsPath(id.s) /\ x.n # id.n)

\* keep: a source other than the registry is unlocked as a whole.
Keep(avoid, id) ==
  /\ id.s = "registry" \/ \A x \in avoid : x.s # id.s \/ (IsPath(id.s) /\ x.n # id.n)
  /\ id \notin avoid

\* Mutants: the development dependencies of `p` count too; nothing is poisoned.
Poisoned_by_dev(man, prev) ==
  LET walked  == {MemberId} \cup (IF UsesPath(man) THEN {PathId(man)} ELSE {})
      changed == {d \in UNION {DepsOf(man, x) : x \in walked} :
                    ~\E id \in prev.pkgs : matches_ignoring_source(d, id)}
  IN  {id \in prev.pkgs : \E d \in changed : d.s = id.s /\ d.s # "path"}
Poisoned_never(man, prev) == {}

\* The path packages whose manifests may have changed: `m` and what it
\* reaches by path.  Their dependencies are looked up in the lock; one that
\* matches nothing there poisons its source.
Poisoned(man, prev) ==
  LET walked  == {MemberId} \cup (IF UsesPath(man) THEN {PathId(man)} ELSE {})
      changed == {d \in UNION {Resolved(man, x) : x \in walked} :
                    ~\E id \in prev.pkgs : matches_ignoring_source(d, id)}
  IN  {id \in prev.pkgs : \E d \in changed : d.s = id.s /\ d.s # "path"}

\* register_previous_locks: the packages that stay locked.
Locked(man, prev, avoid) ==
  LET asked    == {x \in prev.pkgs : ~Keep(avoid, x)}
      rewritten == {x \in prev.pkgs : /\ IsPath(x.s)
                                      /\ PathPkg(man, x) # {}
                                      /\ ~Has(PathPkg(man, x), x)}
      avoid_locking == DepsClosure(prev, asked) \cup rewritten
                         \cup DepsClosure(prev, Poisoned(man, prev))
  IN  {x \in prev.pkgs : Keep(avoid, x) /\ x \notin avoid_locking}

\* lock: a dependency of the package `id`, rewritten to what is locked.
lock(man, prev, locked, id, dep) ==
  LET edges  == {e[2] : e \in {d \in prev.deps : SameId(d[1], id) /\ d[1] \in locked}}
      first  == {x \in edges \cap locked : matches_id(dep, x)}
      second == {x \in locked : matches_id(dep, x)}
      third  == {x \in PatchIds(man) : /\ dep.s = "registry"
                                       /\ matches_ignoring_source(dep, x)
                                       /\ Has(locked, x)}
  IN  CASE first # {} -> lock_to(dep, CHOOSE x \in first : TRUE)
        [] first = {} /\ second # {} -> lock_to(dep, CHOOSE x \in second : TRUE)
        [] first = {} /\ second = {} /\ third # {} ->
             [dep EXCEPT !.req = {(CHOOSE x \in third : TRUE).v}, !.pin = "exact"]
        [] OTHER -> dep

-----------------------------------------------------------------------------
(* The registry of packages: what answers a dependency.                    *)

Patches(man, dep) ==
  {x \in PatchIds(man) : dep.s = "registry" /\ matches_ignoring_source(dep, x)}

\* The patch answers alone, and the registry is not asked.
PatchAnswers(man, dep) == Cardinality(Patches(man, dep)) = 1 /\ is_locked(dep)

\* `cargo update --precise`: the source answers with the version asked for.
PreciseOk(want, dep, v) ==
  \A w \in want : (w.n = dep.n /\ w.from \in dep.req) => v = w.to

\* The packages the source of the dependency has for it.
FromSource(man, want, dep) ==
  CASE dep.s = "path" -> {x \in {PathId(man)} : matches_id(dep, x)}
    [] dep.s = "registry" ->
         {Id(q[1], q[2], "registry", 0) : q \in
            {c \in published : /\ c[1] = dep.n /\ c[2] \in dep.req
                               /\ c \in yanked => dep.pin = "source"
                               /\ PreciseOk(want, dep, c[2])}}
    [] dep.s = "git" ->
         LET rev == IF dep.pin = "source" THEN dep.r ELSE head
         IN  {Id(n, GitPkgs[rev][n].v, "git", rev) : n \in
                {k \in DOMAIN GitPkgs[rev] : k = dep.n /\ GitPkgs[rev][k].v \in dep.req}}

\* PackageRegistry::query.
Query(man, want, dep) ==
  IF PatchAnswers(man, dep) THEN Patches(man, dep)
  ELSE Patches(man, dep)
         \cup {x \in FromSource(man, want, dep) :
                 \A q \in Patches(man, dep) : q.v # x.v}

-----------------------------------------------------------------------------
(* Resolution.                                                             *)

\* Two packages the resolver never activates together.
Incompatible(x, y) == x # y /\ x.n = y.n /\ x.s = y.s
                           /\ (x.s = "registry" => Compat(x.v) = Compat(y.v))

\* The dependencies of a package after locking.
LockedDeps(man, prev, locked, id) ==
  {lock(man, prev, locked, id, d) : d \in Resolved(man, id)}

\* Every way to complete the set S of activated packages.
RECURSIVE Activate(_, _, _, _, _)
Activate(man, prev, locked, want, S) ==
  LET open == {d \in UNION {LockedDeps(man, prev, locked, x) : x \in S} :
                 Query(man, want, d) \cap S = {}}
      dep  == CHOOSE d \in open : TRUE
  IN  IF open = {} THEN {S}
      ELSE UNION {Activate(man, prev, locked, want, S \cup {x}) :
                    x \in {q \in Query(man, want, dep) : \A y \in S : ~Incompatible(q, y)}}

\* The checksum of a package of the registry.
Checksum(id) == <<id.n, id.v, <<id.n, id.v>> \in recut>>

\* The patches no package of the resolution comes from.
register_used_patches(man, S) == PatchIds(man) \ S

\* resolve_with_previous: the resolutions that may come back.
Resolutions(man, prev, avoid, want) ==
  LET locked == Locked(man, prev, avoid)
      AsResolve(S) ==
        [pkgs   |-> S,
         deps   |-> {e \in S \X S : \E d \in LockedDeps(man, prev, locked, e[1]) :
                                       e[2] \in Query(man, want, d)},
         unused |-> register_used_patches(man, S),
         sums   |-> {<<x, IF x.s = "registry" THEN Checksum(x) ELSE <<>> >> : x \in S}]
  IN  {AsResolve(S) : S \in Activate(man, prev, locked, want, {MemberId})}

\* The sources a resolution had to update over the network.
Touched(man, prev, avoid, S) ==
  LET locked == Locked(man, prev, avoid)
      asked  == {d \in UNION {LockedDeps(man, prev, locked, x) : x \in S} :
                   ~PatchAnswers(man, d) /\ d.pin # "source"}
  IN  {d.s : d \in asked} \ {"path"}

\* merge_from: no package id may come back with another checksum.
ChecksumsAgree(prev, res) ==
  \A c \in prev.sums, d \in res.sums : SameId(c[1], d[1]) => c[2] = d[2]

-----------------------------------------------------------------------------
(* Commands.  A command is [op, names, aggressive, precise, locked]: op is *)
(* "build", "update" or "generate".                                        *)

Idle == [pc |-> "idle", cmd |-> [op |-> "none"], man |-> manifest, prev |-> None,
         had |-> FALSE, of |-> Unwritten, res |-> None, touched |-> {}, left |-> 0,
         result |-> "none"]

Init ==
  /\ scene \in Scenes
  /\ manifest \in scene.first
  /\ published = scene.published
  /\ yanked = {} /\ recut = {} /\ head = 1
  /\ lockfile = [state |-> "absent", enc |-> Encode(None), of |-> Unwritten]
  /\ proc = [p \in Process |-> [Idle EXCEPT !.left = scene.left]]
  /\ edits = scene.edits /\ kills = scene.kills
  /\ FileLockInit

Set(p, new) == proc' = [proc EXCEPT ![p] = new]
End(p, result) == Set(p, [proc[p] EXCEPT !.pc = "idle", !.result = result])

\* The command reads the manifests: Workspace::new.
Start(p, c) ==
  /\ proc[p].pc = "idle" /\ proc[p].left > 0
  /\ Set(p, [proc[p] EXCEPT !.pc = "load", !.cmd = c, !.man = manifest,
                            !.left = @ - 1, !.result = "none", !.touched = {}])
  /\ UNCHANGED <<scene, manifest, upstream, lockfile, edits, kills, locks>>

\* load_pkg_lockfile, under a shared lock; a file that was only created, or
\* whose write was cut short right after set_len(0), parses as a lock of nothing.
Load(p) ==
  LET prev == IF lockfile.state = "absent" \/ proc[p].cmd.op = "generate"
              THEN None ELSE Decode(proc[p].man, lockfile.enc)
  IN  /\ proc[p].pc = "load"
      /\ Grantable(LockPath, "Shared")
      /\ Set(p, [proc[p] EXCEPT !.pc = "resolve", !.prev = prev, !.of = lockfile.of,
                   !.had = lockfile.state # "absent" /\ proc[p].cmd.op # "generate"])
      /\ UNCHANGED <<scene, manifest, upstream, lockfile, edits, kills, locks>>

\* The ids named on the command line: PackageIdSpec::query wants exactly one.
Named(p) == {x \in proc[p].prev.pkgs : x.n \in proc[p].cmd.names}
NamesOk(p) == \A n \in proc[p].cmd.names :
                 Cardinality({x \in proc[p].prev.pkgs : x.n = n}) = 1

\* The packages update_lockfile asks to avoid.
ToAvoid(p) ==
  LET c == proc[p].cmd
  IN  CASE c.op # "update" \/ ~proc[p].had -> {}
        [] c.op = "update" /\ proc[p].had /\ c.names = {} -> proc[p].prev.pkgs
        [] OTHER -> IF c.aggressive THEN DepsClosure(proc[p].prev, Named(p)) ELSE Named(p)

\* The versions asked for with --precise.
Wanted(p) ==
  IF proc[p].cmd.op # "update" \/ proc[p].cmd.precise = 0 THEN {}
  ELSE {[n |-> x.n, from |-> x.v, to |-> proc[p].cmd.precise] :
          x \in {y \in Named(p) : y.s = "registry"}}

\* update_lockfile fails before it resolves.
BadNames(p) == proc[p].cmd.op = "update" /\ proc[p].had /\ ~NamesOk(p)

\* resolve_with_previous.
ResolveFails(p) ==
  /\ proc[p].pc = "resolve"
  /\ \/ BadNames(p)
     \/ Resolutions(proc[p].man, proc[p].prev, ToAvoid(p), Wanted(p)) = {}
  /\ End(p, IF BadNames(p) THEN "bad_name" ELSE "no_solution")
  /\ UNCHANGED <<scene, manifest, upstream, lockfile, edits, kills, locks>>

ResolveTo(p) ==
  /\ proc[p].pc = "resolve" /\ ~BadNames(p)
  /\ \E res \in Resolutions(proc[p].man, proc[p].prev, ToAvoid(p), Wanted(p)) :
       IF ChecksumsAgree(proc[p].prev, res)
       THEN Set(p, [proc[p] EXCEPT !.pc = "compare", !.res = res,
                      !.touched = Touched(proc[p].man, proc[p].prev, ToAvoid(p), res.pkgs)])
       ELSE End(p, "checksum")
  /\ UNCHANGED <<scene, manifest, upstream, lockfile, edits, kills, locks>>

\* are_equal_lockfiles: the same text or, when the lock may not be updated,
\* the same resolution.
are_equal_lockfiles(p) ==
  /\ lockfile.state # "absent"
  /\ \/ lockfile.enc = Encode(proc[p].res)
     \/ /\ proc[p].cmd.locked
        /\ Decode(proc[p].man, lockfile.enc)
             = Decode(proc[p].man, Encode(proc[p].res))

\* write_pkg_lockfile up to the open: compare with the file as it is now.
Compare(p) ==
  /\ proc[p].pc = "compare"
  /\ Grantable(LockPath, "Shared")
  /\ CASE are_equal_lockfiles(p) -> End(p, "ok")
       [] ~are_equal_lockfiles(p) /\ proc[p].cmd.locked -> End(p, "needs_update")
       [] OTHER -> Set(p, [proc[p] EXCEPT !.pc = "open"])
  /\ UNCHANGED <<scene, manifest, upstream, lockfile, edits, kills, locks>>

\* open_rw creates a file that is not there before it asks for its lock ...
Open(p) ==
  /\ proc[p].pc = "open"
  /\ lockfile' = IF lockfile.state = "absent" THEN [lockfile EXCEPT !.state = "empty"] ELSE lockfile
  /\ Set(p, [proc[p] EXCEPT !.pc = "lock"])
  /\ UNCHANGED <<scene, manifest, upstream, edits, kills, locks>>

\* ... the exclusive one; then set_len(0).
Truncate(p) ==
  /\ proc[p].pc = "lock"
  /\ Acquire(p, LockPath, "Exclusive")
  /\ lockfile' = [lockfile EXCEPT !.state = "empty", !.enc = Encode(None)]
  /\ Set(p, [proc[p] EXCEPT !.pc = "write"])
  /\ UNCHANGED <<scene, manifest, upstream, edits, kills>>

\* write_all, and the file is closed.
WriteAll(p) ==
  /\ proc[p].pc = "write"
  /\ lockfile' = [state |-> "whole", enc |-> Encode(proc[p].res), of |-> proc[p].man]
  /\ ReleaseAll(p)
  /\ End(p, "ok")
  /\ UNCHANGED <<scene, manifest, upstream, edits, kills>>

\* The process is killed: its locks go, a truncated file stays.
Kill(p) ==
  /\ kills > 0 /\ proc[p].pc # "idle"
  /\ kills' = kills - 1
  /\ ReleaseAll(p)
  /\ End(p, "killed")
  /\ UNCHANGED <<scene, manifest, upstream, lockfile, edits>>

-----------------------------------------------------------------------------
(* The world around: the developer, the registry, the git repository.      *)

Edit ==
  /\ edits > 0 /\ edits' = edits - 1
  /\ manifest' \in scene.manifests \ {manifest}
  /\ UNCHANGED <<scene, upstream, lockfile, proc, kills, locks>>

Publish ==
  /\ \E c \in scene.later \ published : published' = published \cup {c}
  /\ UNCHANGED <<scene, manifest, yanked, recut, head, lockfile, proc, edits, kills, locks>>

Yank ==
  /\ \E c \in (scene.yankable \cap published) \ yanked : yanked' = yanked \cup {c}
  /\ UNCHANGED <<scene, manifest, published, recut, head, lockfile, proc, edits, kills, locks>>

Recut ==
  /\ \E c \in (scene.mirrored \cap published) \ recut : recut' = recut \cup {c}
  /\ UNCHANGED <<scene, manifest, published, yanked, head, lockfile, proc, edits, kills, locks>>

Push ==
  /\ head < scene.pushes /\ head' = head + 1
  /\ UNCHANGED <<scene, manifest, published, yanked, recut, lockfile, proc, edits, kills, locks>>

Next ==
  \/ \E p \in scene.procs :
       \/ \E c \in scene.commands : Start(p, c)
       \/ Load(p) \/ ResolveFails(p) \/ ResolveTo(p) \/ Compare(p)
       \/ Open(p) \/ Truncate(p) \/ WriteAll(p) \/ Kill(p)
  \/ Edit \/ Publish \/ Yank \/ Recut \/ Push

Spec == Init /\ [][Next]_vars

-----------------------------------------------------------------------------
(* Properties.                                                             *)

\* A lock that is whole describes, for the manifests it was made from, a
\* resolution: read back through into_resolve, every dependency has a package
\* that answers it, no two packages exclude each other, all come from the
\* member, and the git repository is locked at one revision.  As long as
\* nobody was killed, a command that reads a lock of nothing reads the file
\* that another one has just created and never a lock that was there: the
\* exclusive lock covers both set_len(0) and write_all.
LockSound ==
  /\ lockfile.state = "whole" =>
       LET man == lockfile.of
           res == Decode(man, lockfile.enc)
           To(x) == {e[2] : e \in {d \in res.deps : d[1] = x}}
       IN  /\ Encode(res) = lockfile.enc
           /\ \A x \in res.pkgs : \A d \in Resolved(man, x) :
                \E y \in To(x) : /\ matches_ignoring_source(d, y)
                                 /\ y.s = d.s \/ y \in PatchIds(man)
           /\ \A x, y \in res.pkgs : ~Incompatible(x, y)
           /\ DepsClosure(res, {MemberId}) = res.pkgs
           /\ \A x, y \in res.pkgs : x.s = "git" /\ y.s = "git" => x.r = y.r
           /\ res.unused = PatchIds(man) \ res.pkgs
  /\ kills = scene.kills =>
       \A p \in Process : proc[p].had /\ proc[p].prev.pkgs = {} => proc[p].of = Unwritten

Resolves(p) == proc[p].pc = "resolve" /\ proc'[p].pc # "resolve"
                                     /\ proc'[p].result # "killed"

\* While the manifests stay as they were when the lock was written, `cargo
\* build` resolves to the lock, whatever was published, yanked or pushed since,
\* and it asks neither the registry nor the git repository for anything new;
\* only a changed checksum stops it.
LockStable ==
  [][\A p \in Process :
       Resolves(p) /\ proc[p].cmd.op = "build" /\ proc[p].prev.pkgs # {}
                   /\ proc[p].of = proc[p].man =>
         \/ /\ proc'[p].pc = "compare"
            /\ [proc'[p].res EXCEPT !.sums = {}] = [proc[p].prev EXCEPT !.sums = {}]
            /\ proc'[p].touched = {}
         \/ /\ proc'[p].result = "checksum"
            /\ \E x \in proc[p].prev.pkgs : <<x.n, x.v>> \in recut]_vars

\* `cargo update -p` is conservative: a package that was neither named, nor
\* reached from one that was, nor of the same git repository, is not replaced.
UpdateConservative ==
  [][\A p \in Process :
       Resolves(p) /\ proc'[p].pc = "compare" /\ proc[p].cmd.op = "update"
                   /\ proc[p].of = proc[p].man =>
         LET freed == DepsClosure(proc[p].prev,
                        {x \in proc[p].prev.pkgs :
                           \E y \in Named(p) : y = x \/ (y.s = "git" /\ x.s = "git")})
         IN  proc[p].cmd.names # {} =>
               \A x \in proc[p].prev.pkgs \ freed, y \in proc'[p].res.pkgs :
                  ~Incompatible(x, y)]_vars

\* An old lock never makes `cargo build` fail where there is a resolution
\* without it, when an edit changes requirements, versions and packages but
\* moves no dependency to another source ("we want to make sure that we
\* properly re-resolve (conservatively) instead of providing an opaque error").
ReResolves ==
  [][\A p \in Process :
       Resolves(p) /\ proc'[p].result = "no_solution" /\ proc[p].cmd.op = "build" =>
         Resolutions(proc[p].man, None, {}, {}) = {}]_vars

-----------------------------------------------------------------------------
=============================================================================
