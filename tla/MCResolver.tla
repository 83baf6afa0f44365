---------------------------- MODULE MCResolver ----------------------------
EXTENDS Resolver
CONSTANTS a, b, c, d, e, f, g, r, x

V10 == <<1, 0, 0>>
V11 == <<1, 1, 0>>
V20 == <<2, 0, 0>>
V01 == <<0, 1, 0>>
V02 == <<0, 2, 0>>
Versions == {V10, V11, V20, V01, V02}

Pkg(n, v) == [name |-> n, version |-> v, source |-> "registry"]
Root == Pkg(r, V10)
Dep(n, req) == [name |-> n, source |-> "registry", req |-> req, dev |-> FALSE,
                optional |-> FALSE, features |-> {}, default |-> FALSE]
AnyOf(n) == Dep(n, Versions)
Only(n, v) == Dep(n, {v})
Optional(dep) == [dep EXCEPT !.optional = TRUE]
With(dep, features) == [dep EXCEPT !.features = features]
WithDefault(dep) == [dep EXCEPT !.default = TRUE]

Sum(deps) == [deps |-> deps, features |-> <<>>, links |-> NoLinks]
Featured(deps, features) == [Sum(deps) EXCEPT !.features = features]
Linked(deps, links) == [Sum(deps) EXCEPT !.links = links]
Two(n, s0, s1) == (Pkg(n, V10) :> s0) @@ (Pkg(n, V11) :> s1)
Leaf(n) == Two(n, Sum(<<>>), Sum(<<>>))

World(deps, summaries) ==
  [summaries |-> (Root :> Sum(deps)) @@ summaries,
   roots |-> <<[id |-> Root, method |-> Everything]>>,
   replace |-> <<>>, try_to_use |-> {}, minimal_versions |-> FALSE,
   unreachable |-> FALSE]

(* Two packages that both constrain a third one, directly or through a     *)
(* fourth.                                                                 *)
Constraint == {<<>>, <<Only(c, V10)>>, <<Only(c, V11)>>, <<AnyOf(d)>>}
Diamonds ==
  {World(<<AnyOf(a), AnyOf(b)>>,
         Two(a, Sum(a0), Sum(a1)) @@ Two(b, Sum(b0), Sum(b1))
         @@ Two(d, Sum(d0), Sum(d1)) @@ Leaf(c)) :
     a0 \in Constraint \cup {<<Only(b, V10)>>}, a1 \in Constraint \cup {<<Only(b, V10)>>},
     b0 \in Constraint, b1 \in Constraint,
     d0 \in Constraint \ {<<AnyOf(d)>>}, d1 \in Constraint \ {<<AnyOf(d)>>}}

(* Three packages, each with a choice of what it needs of two others. *)
Literal == {<<Only(d, V10)>>, <<Only(d, V11)>>, <<Only(x, V10)>>, <<Only(x, V11)>>}
Puzzles ==
  {World(<<AnyOf(a), AnyOf(b), AnyOf(c)>>,
         Two(a, Sum(<<Only(d, V10)>>), Sum(a1)) @@ Two(b, Sum(b0), Sum(b1))
         @@ Two(c, Sum(c0), Sum(c1)) @@ Two(d, Sum(<<>>), Sum(<<Only(x, V10)>>))
         @@ Leaf(x)) :
     a1 \in Literal, b0 \in Literal, b1 \in Literal, c0 \in Literal, c1 \in Literal}

(* The last version of `a` is known to fail before it is tried, through a  *)
(* dependency with two candidates.                                         *)
Hopeless ==
  {World(<<Only(x, V10), AnyOf(a)>>,
         (Pkg(a, V20) :> Sum(<<Only(x, V11)>>))
         @@ Two(a, Sum(<<AnyOf(d)>>), Sum(<<AnyOf(d)>>))
         @@ Two(d, Sum(d0), Sum(<<Only(x, V11)>>)) @@ Leaf(x)) :
     d0 \in {<<>>, <<Only(x, V11)>>}}

(* Features asked for in a dependency, versions 0.x and links. *)
Direct ==
  {World(<<AnyOf(a), WithDefault(AnyOf(b))>>,
         Two(a, Sum(<<With(AnyOf(b), fs)>>), Sum(<<With(AnyOf(b), gs)>>))
         @@ Two(b, Featured(<<Optional(AnyOf(c))>>, b0), Featured(<<Optional(AnyOf(c))>>, b1))
         @@ Leaf(c)) :
     fs \in SUBSET {f}, gs \in SUBSET {f, g},
     b0 \in {<<>>, f :> {Crate(c)}},
     b1 \in {<<>>, f :> {}, ("default" :> {Feature(g)}) @@ (g :> {CrateFeature(c, x)}),
             "default" :> {Feature("default")}}}

Zero ==
  {World(<<AnyOf(a), Only(c, v)>>,
         Two(a, Sum(<<Only(c, V01)>>), Sum(<<Only(c, w)>>))
         @@ (Pkg(c, V01) :> Linked(<<>>, l)) @@ (Pkg(c, V02) :> Linked(<<>>, k))
         @@ (Pkg(c, V10) :> Linked(<<>>, x))) :
     v \in {V01, V02, V10}, w \in {V01, V02, V10}, l \in {NoLinks, x}, k \in {NoLinks, x}}

Search == Diamonds \cup Puzzles \cup Hopeless \cup Direct \cup Zero

(* Any set of packages in the lock file, either preference of versions, a  *)
(* second workspace member, development dependencies and a registry that   *)
(* may fail.                                                               *)
Member == Pkg(g, V10)
OfMembers(w) ==
  [w EXCEPT !.roots = Append(@, [id |-> Member, method |-> Everything]),
            !.summaries = (Member :> Sum(<<[Only(c, V10) EXCEPT !.dev = TRUE],
                                           AnyOf(b)>>)) @@ @]
Unlocked ==
  {OfMembers(World(<<AnyOf(a), AnyOf(b)>>,
     Two(a, Sum(<<[Only(c, V11) EXCEPT !.dev = TRUE], AnyOf(b)>>), Sum(a1))
     @@ Two(b, Sum(b0), Sum(<<Only(c, V11)>>)) @@ Leaf(c))) :
     a1 \in Constraint \ {<<AnyOf(d)>>}, b0 \in Constraint \ {<<AnyOf(d)>>}}
Locked ==
  {[w EXCEPT !.try_to_use = l, !.minimal_versions = m, !.unreachable = u] :
     w \in Unlocked, m \in BOOLEAN, u \in BOOLEAN,
     l \in SUBSET {Pkg(n, v) : n \in {a, b, c}, v \in {V10, V11}}}

(* Packages replaced by another source's, with or without links. *)
Other(n) == [Pkg(n, V10) EXCEPT !.source = "git"]
Replacing ==
  {[World(<<AnyOf(a), AnyOf(b)>>,
      Two(a, Linked(<<>>, l), Sum(<<Only(c, V10)>>))
      @@ (Pkg(b, V10) :> Sum(<<With(Only(a, v), fs)>>)) @@ (Pkg(b, V11) :> Sum(<<With(Only(a, V10), {f})>>))
      @@ (Other(a) :> [Featured(<<AnyOf(c)>>, o) EXCEPT !.links = k]) @@ Leaf(c))
    EXCEPT !.replace = (Pkg(a, V10) :> Other(a)), !.try_to_use = t] :
     v \in {V10, V11}, l \in {NoLinks, x}, k \in {NoLinks, x}, fs \in SUBSET {f},
     o \in {<<>>, f :> {}}, t \in {{}, {Pkg(a, V10)}}}

Explored == Search \cup Locked \cup Replacing

(* A feature of `a` decides what `a` asks of `d`, and not everyone asks    *)
(* for that feature.                                                       *)
OfA == (f :> {Crate(d)}) @@ (g :> {CrateFeature(d, x)}) @@ ("default" :> {Feature(f)})
Conditional(featuresOfD) ==
  {World(<<WithDefault(AnyOf(a)), AnyOf(b)>>,
         (Pkg(a, V10) :> Featured(<<Optional(AnyOf(d))>>, OfA))
         @@ Two(b, Sum(<<AnyOf(a)>>), Sum(<<With(AnyOf(a), {g})>>))
         @@ Two(d, Featured(<<Optional(AnyOf(e))>>, featuresOfD),
                   Featured(<<Optional(AnyOf(e))>>, featuresOfD)))}
Lacking == Conditional(<<>>)
=============================================================================
