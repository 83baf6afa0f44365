------------------------------ MODULE Resolver ------------------------------
(***************************************************************************)
(* Choosing one version of every dependency: core/resolver/mod.rs, with    *)
(* context.rs (what has been activated so far), types.rs (candidates and   *)
(* the dependencies still to activate) and conflict_cache.rs (sets of      *)
(* activations known to make a dependency impossible).                     *)
(*                                                                         *)
(* The search is a depth-first activation with backtracking.  One step is  *)
(* one iteration of its inner loop.  The only freedom the program leaves   *)
(* open is the order in which a binary heap and a hash map deliver equals. *)
(* The reason of a conflict only shows in messages: it is left out.        *)
(***************************************************************************)
EXTENDS Integers, FiniteSets, SequencesExt

CONSTANTS Worlds,   \* the inputs of `resolve` that are explored
          NoLinks,  \* a package without a `links` key
          None

VARIABLES world,    \* the input: packages, roots, [replace], try_to_use
          pc,       \* "start", "pop", "try", or how `resolve` returned
          roots,    \* the initial summaries not activated yet
          cx,       \* Context
          remaining,\* RemainingDeps: frames of dependencies to activate
          stack,    \* backtrack_stack
          past,     \* past_conflicting_activations.con_from_dep
          cur       \* the locals of one iteration of the outer loop

vars == <<world, pc, roots, cx, remaining, stack, past, cur>>

-----------------------------------------------------------------------------
(* Packages and dependencies *)

(* A version is <<major, minor, patch>>; a requirement the set it allows. *)
VersionLess(a, b) ==
  \E i \in 1..3 : a[i] < b[i] /\ \A j \in 1..(i - 1) : a[j] = b[j]

compatible(a, b) ==
  /\ a[1] = b[1]
  /\ a[1] = 0 => /\ a[2] = b[2]
                 /\ a[2] = 0 => a[3] = b[3]

matches_id(dep, id) ==
  dep.name = id.name /\ id.version \in dep.req /\ dep.source = id.source

Summary(id) == world.summaries[id]
Feature(f) == [kind |-> "feature", name |-> f, of |-> None]
Crate(d) == [kind |-> "crate", name |-> d, of |-> None]
CrateFeature(d, f) == [kind |-> "crate_feature", name |-> f, of |-> d]

(* A feature asked for by name: one of the package's own, or else it can   *)
(* only be an optional dependency.                                         *)
FeatureValue(f, s) == IF f \in DOMAIN s.features THEN Feature(f) ELSE Crate(f)

Everything == [dev |-> TRUE, all |-> TRUE, features |-> {}, default |-> TRUE]

-----------------------------------------------------------------------------
(* Requirements: what a set of features asks of a package *)

Requested(s, method) ==
  (IF method.all
     THEN {Feature(f) : f \in DOMAIN s.features}
            \cup {Crate(d.name) : d \in {d \in Range(s.deps) : d.optional}}
     ELSE {FeatureValue(f, s) : f \in method.features})
  \cup (IF method.default /\ "default" \in DOMAIN s.features
          THEN {Feature("default")} ELSE {})

(* require_feature and require_value, following features until nothing new *)
(* is seen.                                                                *)
build_requirements(s, method) ==
  LET n == Cardinality(DOMAIN s.features)
      reached[i \in 0..n] ==
        IF i = 0 THEN Requested(s, method)
        ELSE reached[i - 1] \cup
             UNION {s.features[v.name] :
                      v \in {v \in reached[i - 1] : v.kind = "feature"}}
  IN reached[n]

CyclicFeature(s, values) ==
  \E v \in values : v.kind = "feature" /\ v \in s.features[v.name]

UsedFeatures(values) ==
  {IF v.kind = "crate_feature" THEN v.of ELSE v.name : v \in values}
RequiredDeps(values) ==
  {IF v.kind = "crate" THEN v.name ELSE v.of :
     v \in {v \in values : v.kind # "feature"}}
FeaturesFor(values, name) ==
  {v.name : v \in {v \in values : v.kind = "crate_feature" /\ v.of = name}}

EnabledDeps(s, method, values) ==
  SelectSeq(s.deps,
            LAMBDA d : /\ ~d.dev \/ method.dev
                       /\ d.optional => d.name \in RequiredDeps(values))

(* Features asked for that the package does not have. *)
MissingFeatures(s, method, values) ==
  RequiredDeps(values)
    \ {d.name : d \in Range(EnabledDeps(s, method, values))}

-----------------------------------------------------------------------------
(* RegistryQueryer *)

(* Packages of the lock file first, then the highest version first. *)
Before(a, b) ==
  IF (a \in world.try_to_use) # (b \in world.try_to_use)
    THEN a \in world.try_to_use
    ELSE IF world.minimal_versions THEN VersionLess(a.version, b.version)
                                   ELSE VersionLess(b.version, a.version)

(* `query` that forgets about the lock file. *)
query_ignores_lock(dep) ==
  SetToSortSeq({id \in DOMAIN world.summaries : matches_id(dep, id)},
               LAMBDA a, b : VersionLess(b.version, a.version))

query(dep) ==
  SetToSortSeq({id \in DOMAIN world.summaries : matches_id(dep, id)}, Before)

-----------------------------------------------------------------------------
(* Context *)

EmptyContext == [active   |-> {},       \* activations
                 features |-> <<>>,     \* resolve_features
                 links    |-> <<>>,
                 graph    |-> {}]       \* the links of resolve_graph

prev_active(c, dep) ==
  {a \in c.active : a.name = dep.name /\ a.source = dep.source}

(* is_conflicting: all of a set of packages are active *)
is_conflicting(c, ids) == ids \subseteq c.active

(* `AlreadyActive` that does not look at the features asked for. *)
AlreadyActive_any(c, id, method) == id \in c.active /\ ~method.all

(* Is `id` active with all that `method` asks for?  If not it is made so,  *)
(* except for its features; two packages with the same links are fatal.    *)
AlreadyActive(c, id, method) ==
  LET has == IF id \in DOMAIN c.features THEN c.features[id] ELSE {}
  IN /\ id \in c.active
     /\ ~method.all
     /\ method.features \subseteq has
     /\ \/ ~method.default
        \/ "default" \in has
        \/ "default" \notin DOMAIN Summary(id).features

flag_activated(c, id) ==
  IF id \in c.active THEN c
  ELSE [c EXCEPT !.active = @ \cup {id},
                 !.links = IF Summary(id).links = NoLinks THEN @
                           ELSE (Summary(id).links :> id) @@ @]

LinksTwice(c, id) ==
  id \notin c.active /\ Summary(id).links \in DOMAIN c.links

WithCandidates(dep, features) ==
  [dep |-> dep, candidates |-> query(dep), features |-> features]

(* The dependencies of a package, those with the fewest candidates first.  *)
build_deps(s, method, values) ==
  LET deps == EnabledDeps(s, method, values)
      info == [i \in DOMAIN deps |->
                 WithCandidates(deps[i],
                   FeaturesFor(values, deps[i].name) \cup deps[i].features)]
      fewer(i, j) == \/ Len(info[i].candidates) < Len(info[j].candidates)
                     \/ /\ Len(info[i].candidates) = Len(info[j].candidates)
                        /\ i < j
      order == SetToSortSeq(DOMAIN info, fewer)
  IN [i \in DOMAIN order |-> info[order[i]]]

AddFeatures(c, id, used) ==
  IF used = {} THEN c
  ELSE [c EXCEPT !.features =
          (id :> (used \cup IF id \in DOMAIN @ THEN @[id] ELSE {})) @@ @]

-----------------------------------------------------------------------------
(* activate *)

Replacement(id) ==
  IF id \in DOMAIN world.replace THEN world.replace[id] ELSE id

(* Activating `id` for a dependency of `parent` (None: an initial          *)
(* summary).  The outcome is a frame of new dependencies, "active" when    *)
(* there is nothing new, "conflict" (with the parent, whose features the   *)
(* candidate lacks), or "fatal".                                           *)
activate(c, parent, dep, id, method) ==
  LET linked == IF parent = None THEN c
                ELSE [c EXCEPT !.graph = @ \cup {<<parent, id, dep>>}]
      first == flag_activated(linked, id)
      to == Replacement(id)
      both == flag_activated(first, to)
      values == build_requirements(Summary(to), method)
      lacks == MissingFeatures(Summary(to), method, values) # {}
      outcome == CASE LinksTwice(linked, id) \/ LinksTwice(first, to) -> "fatal"
                   [] /\ AlreadyActive(linked, id, method)
                      /\ AlreadyActive(first, to, method) -> "active"
                   [] CyclicFeature(Summary(to), values) -> "fatal"
                   [] lacks -> IF parent = None THEN "fatal" ELSE "conflict"
                   [] OTHER -> "frame"
  IN [outcome |-> outcome,
      cx |-> IF outcome = "frame"
               THEN AddFeatures(both, to, UsedFeatures(values)) ELSE both,
      frame |-> IF outcome # "frame" THEN None
                ELSE [parent |-> to, just |-> FALSE,
                      siblings |-> build_deps(Summary(to), method, values)]]

-----------------------------------------------------------------------------
(* RemainingDeps.  A frame whose dependencies are all activated is dropped *)
(* when the heap next delivers it: it is left out from the start.          *)

Push(frames, f) == IF f.siblings = <<>> THEN frames ELSE Append(frames, f)

(* Frames that are there for an error message come first, then those whose *)
(* next dependency has the fewest candidates.                              *)
MoreConstrained(f, g) ==
  \/ f.just /\ ~g.just
  \/ /\ f.just = g.just
     /\ Len(Head(f.siblings).candidates) < Len(Head(g.siblings).candidates)

MostConstrained(frames) ==
  {i \in DOMAIN frames :
     \A j \in DOMAIN frames : ~MoreConstrained(frames[j], frames[i])}

PopSibling(frames, i) ==
  LET rest == [frames[i] EXCEPT !.siblings = Tail(@)]
  IN IF rest.siblings = <<>> THEN RemoveAt(frames, i)
     ELSE [frames EXCEPT ![i] = rest]

-----------------------------------------------------------------------------
(* RemainingCandidates: an iterator that looks one valid candidate ahead,  *)
(* so as to tell whether there is another one.                             *)

(* The active packages that rule a candidate out. *)
ConflictsOf(c, dep, id) ==
  LET link == Summary(id).links
  IN IF link \in DOMAIN c.links /\ c.links[link] # id
       THEN {c.links[link]}
       ELSE {a \in prev_active(c, dep) : compatible(a.version, id.version)}
              \ {id}

next(it, c, dep) ==
  LET valid == {i \in DOMAIN it.rest : ConflictsOf(c, dep, it.rest[i]) = {}}
      order == SetToSortSeq(valid, <)
      wanted == IF it.stash = None THEN 2 ELSE 1
      more == Len(order) >= wanted
      upto == IF more THEN order[wanted] ELSE Len(it.rest)
  IN [candidate |-> IF it.stash # None THEN it.stash
                    ELSE IF order # <<>> THEN it.rest[order[1]] ELSE None,
      has_another |-> more,
      it |-> [rest |-> SubSeq(it.rest, upto + 1, Len(it.rest)),
              stash |-> IF more THEN it.rest[order[wanted]] ELSE None],
      conflicts |-> UNION {ConflictsOf(c, dep, it.rest[i]) : i \in 1..upto}]

-----------------------------------------------------------------------------
(* ConflictCache.  dep_from_pid only narrows the search for a conflict     *)
(* that mentions a package: it is left out.                                *)

Known(dep) == IF dep \in DOMAIN past THEN past[dep] ELSE <<>>

(* The first known conflict of `dep` that holds in `c` and mentions `ids`. *)
find_conflicting(c, dep, ids) ==
  LET hits == SelectSeq(Known(dep), LAMBDA con : /\ ids \subseteq con
                                                 /\ is_conflicting(c, con))
  IN IF hits = <<>> THEN None ELSE hits[1]

conflicting(c, dep) == find_conflicting(c, dep, {})

insert(dep, con) ==
  IF con \in Range(Known(dep)) THEN past
  ELSE (dep :> Append(Known(dep), con)) @@ past

-----------------------------------------------------------------------------
(* Backtracking *)

(* `Usable` that forgets about the parent of the failed dependency. *)
Usable_without_parent(frame, parent, backtracked, con) ==
  /\ next(frame.it, frame.cx, frame.dep).candidate # None
  /\ backtracked \/ ~is_conflicting(frame.cx, con)

(* The topmost saved state that has a candidate left and is not doomed: as *)
(* long as the parent of the failed dependency and all that conflicted     *)
(* with it are active, trying anything else there would fail again.        *)
Usable(frame, parent, backtracked, con) ==
  /\ next(frame.it, frame.cx, frame.dep).candidate # None
  /\ backtracked \/ ~is_conflicting(frame.cx, con \cup {parent})

find_candidate(parent, backtracked, con) ==
  LET usable == {i \in DOMAIN stack : Usable(stack[i], parent, backtracked, con)}
  IN IF usable = {} THEN 0 ELSE Max(usable)

-----------------------------------------------------------------------------
(* activate_deps_loop *)

NoFrame == [parent |-> None, dep |-> None, features |-> {}, just |-> FALSE,
            it |-> [rest |-> <<>>, stash |-> None],
            conflicts |-> {}, backtracked |-> FALSE]

Init ==
  /\ world \in Worlds
  /\ pc = "start"
  /\ roots = world.roots
  /\ cx = EmptyContext
  /\ remaining = <<>>
  /\ stack = <<>>
  /\ past = <<>>
  /\ cur = NoFrame

InitialActivation ==
  activate(cx, None, None, Head(roots).id, Head(roots).method)

(* The initial summaries are activated one by one. *)
ActivateInitial ==
  /\ pc = "start"
  /\ roots # <<>>
  /\ LET act == InitialActivation
     IN /\ pc' = IF act.outcome = "fatal" THEN "fatal" ELSE "start"
        /\ cx' = act.cx
        /\ remaining' = IF act.outcome = "frame" THEN Push(remaining, act.frame)
                        ELSE remaining
  /\ roots' = Tail(roots)
  /\ UNCHANGED <<world, stack, past, cur>>

Kickoff ==
  /\ pc = "start"
  /\ roots = <<>>
  /\ pc' = "pop"
  /\ UNCHANGED <<world, roots, cx, remaining, stack, past, cur>>

pop_most_constrained ==
  /\ pc = "pop"
  /\ \E i \in MostConstrained(remaining) :
       LET frame == remaining[i]
           info == Head(frame.siblings)
       IN /\ cur' = [NoFrame EXCEPT
                       !.parent = frame.parent,
                       !.dep = info.dep,
                       !.features = info.features,
                       !.just = frame.just /\ conflicting(cx, info.dep) # None,
                       !.it = [rest |-> info.candidates, stash |-> None]]
          /\ remaining' = PopSibling(remaining, i)
  /\ pc' = "try"
  /\ UNCHANGED <<world, roots, cx, stack, past>>

(* Every dependency has a package. *)
Resolved ==
  /\ pc = "pop"
  /\ remaining = <<>>
  /\ pc' = "resolved"
  /\ UNCHANGED <<world, roots, cx, remaining, stack, past, cur>>

(* One iteration of the inner loop asks for the next candidate. *)
Next_candidate == next(cur.it, cx, cur.dep)
Seen(n) == cur.conflicts \cup n.conflicts

(* `Cacheable` that trusts what a restored state had collected. *)
Cacheable_always == TRUE

(* What ruled the candidates out is all known: the failure is not that of  *)
(* a restored state, nor one that was known before.                        *)
Cacheable == ~cur.just /\ ~cur.backtracked

(* The candidates of the current dependency are exhausted.  What ruled     *)
(* them out is remembered and the search goes back to a saved state, of    *)
(* which there are `left` fewer, to take its next candidate.               *)
BacktrackPopping(left) ==
  /\ pc = "try"
  /\ Next_candidate.candidate = None
  /\ LET con == Seen(Next_candidate)
         i == find_candidate(cur.parent, cur.backtracked, con)
     IN /\ past' = IF Cacheable THEN insert(cur.dep, con) ELSE past
        /\ IF i = 0
             THEN /\ pc' = "unresolvable"
                  /\ stack' = <<>>
                  /\ cur' = [cur EXCEPT !.conflicts = con]
                  /\ UNCHANGED <<cx, remaining>>
             ELSE /\ pc' = "try"
                  /\ stack' = SubSeq(stack, 1, i - left)
                  /\ cx' = stack[i].cx
                  /\ remaining' = stack[i].remaining
                  /\ cur' = [parent |-> stack[i].parent, dep |-> stack[i].dep,
                             features |-> stack[i].features, just |-> cur.just,
                             it |-> stack[i].it, conflicts |-> stack[i].conflicts,
                             backtracked |-> TRUE]
  /\ UNCHANGED <<world, roots>>

(* `Backtrack` that leaves the saved state on the stack. *)
Backtrack_keeping == BacktrackPopping(0)

Backtrack == BacktrackPopping(1)

(* All candidates will fail: only the last is worth a message. *)
FastForward ==
  /\ pc = "try"
  /\ cur.just /\ ~cur.backtracked
  /\ Next_candidate.has_another
  /\ cur' = [cur EXCEPT !.it = Next_candidate.it,
                        !.conflicts = Seen(Next_candidate)]
  /\ UNCHANGED <<world, pc, roots, cx, remaining, stack, past>>

(* There is a candidate to activate. *)
Candidate ==
  /\ pc = "try"
  /\ Next_candidate.candidate # None
  /\ ~(cur.just /\ ~cur.backtracked /\ Next_candidate.has_another)

Activation ==
  activate(cx, cur.parent, cur.dep, Next_candidate.candidate,
           [dev |-> FALSE, all |-> FALSE, features |-> cur.features,
            default |-> cur.dep.default])

(* The candidate is in: the state before it is saved if there is another   *)
(* candidate to come back to, and the outer loop goes on.                  *)
Accept(a, frames) ==
  LET n == Next_candidate
  IN /\ pc' = "pop"
     /\ cx' = a.cx
     /\ remaining' = frames
     /\ stack' = IF ~n.has_another THEN stack
                 ELSE Append(stack, [cx |-> cx, remaining |-> remaining,
                                     it |-> n.it, parent |-> cur.parent,
                                     dep |-> cur.dep, features |-> cur.features,
                                     conflicts |-> Seen(n)])
     /\ cur' = NoFrame
     /\ UNCHANGED past

(* The candidate is out, because of `con`.  The context is restored only   *)
(* if there is another candidate to try in it.                             *)
Reject(a, con) ==
  LET n == Next_candidate
  IN /\ cur' = [cur EXCEPT !.it = n.it, !.conflicts = Seen(n) \cup con]
     /\ cx' = IF n.has_another THEN cx ELSE a.cx
     /\ UNCHANGED <<pc, remaining, stack, past>>

(* What is known to doom the candidate: a conflict of one of its own       *)
(* dependencies, or one that it causes for a dependency still to come.     *)
OwnConflicts(a) ==
  LET bad == SelectSeq(a.frame.siblings,
                       LAMBDA s : conflicting(a.cx, s.dep) # None)
  IN IF bad = <<>> THEN {}
     ELSE {conflicting(a.cx, bad[1].dep) \ {Next_candidate.candidate}}

RelatedConflicts(a) ==
  LET pid == Next_candidate.candidate
      bad(s) == find_conflicting(a.cx, s.dep, {pid})
  IN UNION {{(bad(s) \ {pid}) \cup {f.parent} :
               s \in {s \in Range(f.siblings) : bad(s) # None}} :
              f \in Range(remaining)}

Doom(a) ==
  IF cur.just THEN {{}}
  ELSE IF OwnConflicts(a) # {} THEN OwnConflicts(a) ELSE RelatedConflicts(a)

(* Nothing new, or a frame of dependencies to activate in turn. *)
Activate ==
  /\ Candidate
  /\ Activation.outcome \in {"active", "frame"}
  /\ Activation.outcome = "frame" => Doom(Activation) = {}
  /\ Accept(Activation, IF Activation.outcome = "active" THEN remaining
                        ELSE Push(remaining, Activation.frame))
  /\ UNCHANGED <<world, roots>>

(* The candidate is known to fail.  It is skipped, unless there is nothing *)
(* left to try: then it is activated to lead to an error message.          *)
ActivateDoomed ==
  /\ Candidate
  /\ Activation.outcome = "frame"
  /\ \E con \in Doom(Activation) :
       LET act == Activation
           n == Next_candidate
           for_message ==
             /\ ~n.has_another
             /\ \/ cur.just
                \/ find_candidate(cur.parent, cur.backtracked,
                                  Seen(n) \cup con) = 0
       IN IF for_message
            THEN /\ pc' = "pop"
                 /\ cx' = act.cx
                 /\ remaining' = Push(remaining, [act.frame EXCEPT !.just = TRUE])
                 /\ stack' = <<>>
                 /\ cur' = NoFrame
                 /\ UNCHANGED past
            ELSE Reject(act, con)
  /\ UNCHANGED <<world, roots>>

(* The candidate lacks a feature that the parent asks for. *)
Conflict ==
  /\ Candidate
  /\ Activation.outcome = "conflict"
  /\ Reject(Activation, {cur.parent})
  /\ UNCHANGED <<world, roots>>

Fatal ==
  /\ Candidate
  /\ Activation.outcome = "fatal"
  /\ pc' = "fatal"
  /\ UNCHANGED <<world, roots, cx, remaining, stack, past, cur>>

(* A query of the registry fails while the dependencies of a package are   *)
(* gathered: nothing can be said about their candidates.                   *)
RegistryFails ==
  /\ world.unreachable
  /\ \/ pc = "start" /\ roots # <<>> /\ InitialActivation.outcome = "frame"
     \/ Candidate /\ Activation.outcome = "frame"
  /\ pc' = "fatal"
  /\ UNCHANGED <<world, roots, cx, remaining, stack, past, cur>>

Finished == pc \in {"resolved", "unresolvable", "fatal"}

Done == Finished /\ UNCHANGED vars

Next ==
  \/ ActivateInitial \/ Kickoff
  \/ pop_most_constrained \/ Resolved
  \/ Backtrack \/ FastForward
  \/ Activate \/ ActivateDoomed \/ Conflict \/ Fatal \/ RegistryFails
  \/ Done

Spec == Init /\ [][Next]_vars

(* `resolve` runs in one thread: it does not stop before it returns.       *)
FairSpec == Spec /\ ([]<>Finished \/ []<><<Next>>_vars)

-----------------------------------------------------------------------------
(* What a resolution is, independently of how it is found *)

RootIds == {world.roots[i].id : i \in DOMAIN world.roots}

(* Versions are compatible when their left-most nonzero digit is the same. *)
Series(v) == LET nonzero == {i \in 1..3 : v[i] # 0}
             IN IF nonzero = {} THEN <<0, 0, 0>> ELSE SubSeq(v, 1, Min(nonzero))

(* Two versions of a package that are compatible, or two packages that     *)
(* link to the same library, cannot be in one build.                       *)
Clash(p, q) ==
  /\ p # q
  /\ \/ /\ p.name = q.name /\ p.source = q.source
        /\ Series(p.version) = Series(q.version)
     \/ Summary(p).links # NoLinks /\ Summary(p).links = Summary(q).links

Coexist(S) == \A p, q \in S : ~Clash(p, q)

(* Being asked for a set of features, "default" standing for the default   *)
(* ones.                                                                   *)
Asking(features, dev) == [dev |-> dev, all |-> FALSE,
                          features |-> features \ {"default"},
                          default |-> "default" \in features]
AskedOf(dep, features) == features \cup IF dep.default THEN {"default"} ELSE {}

Asked(asked, p) == {a[2] : a \in {a \in asked : a[1] = p}}

(* In `S`, with the features `asked`, package `p` has what it needs when   *)
(* it is built the way `method` says.                                      *)
Satisfied(S, asked, p, method) ==
  LET s == Summary(p)
      values == build_requirements(s, method)
  IN /\ ~CyclicFeature(s, values)
     /\ MissingFeatures(s, method, values) = {}
     /\ \A d \in Range(EnabledDeps(s, method, values)) :
          \E q \in S :
            /\ matches_id(d, q)
            /\ AskedOf(d, FeaturesFor(values, d.name) \cup d.features)
                 \subseteq Asked(asked, q)

IsResolution(S, asked) ==
  /\ \A i \in DOMAIN world.roots :
       Satisfied(S, asked, world.roots[i].id, world.roots[i].method)
  /\ \A p \in S : Satisfied(S, asked, p, Asking(Asked(asked, p), FALSE))

(* The features anybody may ask of `p`. *)
Askable(p) ==
  LET sums == Range(world.summaries)
      deps == {d \in UNION {Range(s.deps) : s \in sums} : d.name = p.name}
      values == UNION {UNION Range(s.features) : s \in sums}
  IN UNION {AskedOf(d, d.features) : d \in deps} \cup FeaturesFor(values, p.name)

Needs(p, asked, dep) ==
  LET s == Summary(p)
      m == Asking(Asked(asked, p), p \in RootIds)
  IN dep \in Range(EnabledDeps(s, m, build_requirements(s, m)))

(* There is a resolution that contains `S` and needs `dep`, unless None.   *)
Resolvable(S, dep) ==
  \E T \in {S \cup RootIds \cup R : R \in SUBSET DOMAIN world.summaries} :
    /\ Coexist(T)
    /\ \E asked \in SUBSET UNION {{p} \X Askable(p) : p \in T} :
         /\ IsResolution(T, asked)
         /\ dep = None \/ \E p \in T : Needs(p, asked, dep)

-----------------------------------------------------------------------------
(* Properties *)

Enabled(q) == IF q \in DOMAIN cx.features THEN cx.features[q] ELSE {}
Replaced == DOMAIN world.replace

(* The edge of the graph from `p` for dependency `d` leads to a package    *)
(* that has all the features `d` asks for.                                 *)
Served(p, values, d) ==
  \E q \in cx.active :
    /\ <<p, q, d>> \in cx.graph
    /\ matches_id(d, q)
    /\ LET to == Replacement(q)
           asked == AskedOf(d, FeaturesFor(values, d.name) \cup d.features)
       IN /\ to \in cx.active
          /\ asked \ {"default"} \subseteq Enabled(to)
          /\ "default" \in asked \cap DOMAIN Summary(to).features
               => "default" \in Enabled(to)

(* What the initial summaries lead to. *)
Reached ==
  LET succ(S) == S \cup {Replacement(p) : p \in S}
                   \cup {e[2] : e \in {e \in cx.graph : e[1] \in S}}
      reached[n \in Nat] == IF n = 0 THEN RootIds ELSE succ(reached[n - 1])
  IN reached[2 * Cardinality(cx.active)]

(* When activate_deps_loop succeeds, its context is a build plan: the      *)
(* packages can coexist, and every package, with the features it ended up  *)
(* with, has an edge for each dependency these features enable, to a       *)
(* version that satisfies it and has every feature asked of it.  Features  *)
(* arrive in any order, before and after the package is first activated.   *)
(* And no package is there that nothing needs: what rejected and abandoned *)
(* candidates left in the context is gone.                                 *)
Sound ==
  pc = "resolved" =>
    /\ cx.active = Reached
    /\ Coexist(cx.active)
    /\ \A p \in cx.active \ Replaced :
         LET method == [Asking(Enabled(p), p \in RootIds) EXCEPT
                          !.features = Enabled(p)]
             values == build_requirements(Summary(p), method)
         IN \A d \in Range(EnabledDeps(Summary(p), method, values)) :
              Served(p, values, d)

(* The search only gives up when no choice of versions works at all, in    *)
(* spite of the saved states and the candidates it skips.                  *)
Complete == pc = "unresolvable" => ~Resolvable({}, None)

(* A conflict that enters the cache is unconditionally true: no resolution *)
(* holds these packages and needs that dependency.                         *)
CacheTrue ==
  [][\A dep \in DOMAIN past' : \A con \in Range(past'[dep]) \ Range(Known(dep)) :
       ~Resolvable(con, dep)]_vars

(* With a lock file whose packages still form a resolution nothing moves:  *)
(* no other package is taken.                                              *)
LockKept ==
  LET locked == RootIds \cup world.try_to_use
  IN /\ pc \in {"resolved", "unresolvable"}
     /\ Coexist(locked)
     /\ \E asked \in SUBSET UNION {{p} \X Askable(p) : p \in locked} :
          IsResolution(locked, asked)
     => pc = "resolved" /\ cx.active \subseteq locked

(* The search ends. *)
Terminates == <>Finished
=============================================================================
