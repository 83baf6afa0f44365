---------------------------- MODULE DependencyQueue ----------------------------
(***************************************************************************)
(* The graph structure of util/dependency_queue.rs: it stores what still   *)
(* has to be built, hands out the keys whose dependencies are all built    *)
(* and carries dirtiness from a finished key to the keys that depend on    *)
(* it.  The value stored with a key (the job itself) is opaque to the      *)
(* queue and is kept by its client, JobQueue.                              *)
(*                                                                         *)
(* The operators Queue, QueueFinished, Dequeue and Finish are the methods  *)
(* of the structure.  DQNext lets an arbitrary client call them: it queues *)
(* the keys in any order and finishes a pending key at any time, with any  *)
(* freshness.                                                              *)
(***************************************************************************)
EXTENDS Naturals, FiniteSets, FiniteSetsExt

CONSTANTS
  Key,      \* the units of work
  Graphs    \* the dependency graphs a client may queue

Fresh == "Fresh"
Dirty == "Dirty"
Freshness == {Fresh, Dirty}

combineIgnoresOther(self, other) == self

\* Freshness::combine.
combine(self, other) == IF self = Fresh THEN other ELSE Dirty

(***************************************************************************)
(* A graph has no cycle when every key can be ranked above the keys it     *)
(* depends on.  The code only asserts this ("cycle in DependencyQueue");   *)
(* the resolver has already refused a cyclic graph.                        *)
(***************************************************************************)
Acyclic(g) ==
  \E rank \in [Key -> 0..Cardinality(Key)] :
    \A k \in Key : \A d \in g[k] : rank[d] < rank[k]

ASSUME GraphsAssumption ==
  /\ IsFiniteSet(Key)
  /\ Graphs \subseteq [Key -> SUBSET Key]
  /\ \A g \in Graphs : Acyclic(g)

VARIABLES
  deps,             \* the graph this client queues; never changes
  dep_map,          \* keys not yet dequeued -> their unbuilt dependencies
  reverse_dep_map,  \* key -> the queued keys that depend on it
  dirty,            \* the keys to be rebuilt
  pending,          \* dequeued, waiting for `finish`
  depth             \* queued key -> length of its longest chain of dependents

queueVars == <<dep_map, reverse_dep_map, dirty, pending, depth>>
dqVars == <<deps, dep_map, reverse_dep_map, dirty, pending, depth>>

Queued == DOMAIN dep_map

\* The keys with no entry in reverse_dep_map have no dependents.
Dependents(k) == IF k \in DOMAIN reverse_dep_map THEN reverse_dep_map[k] ELSE {}

New ==
  /\ dep_map = [k \in {} |-> {}]
  /\ reverse_dep_map = [k \in {} |-> {}]
  /\ dirty = {}
  /\ pending = {}
  /\ depth = [k \in {} |-> 0]

\* A second call for the same key changes nothing: the entry is occupied.
Queue(fresh, key, dependencies) ==
  /\ IF key \in Queued
     THEN UNCHANGED <<dep_map, reverse_dep_map, dirty>>
     ELSE /\ dirty' = IF fresh = Dirty THEN dirty \cup {key} ELSE dirty
          /\ dep_map' = [k \in Queued \cup {key} |->
                           IF k = key THEN dependencies ELSE dep_map[k]]
          /\ reverse_dep_map' =
               [d \in DOMAIN reverse_dep_map \cup dependencies |->
                  Dependents(d) \cup (IF d \in dependencies THEN {key} ELSE {})]
  /\ UNCHANGED <<pending, depth>>

(***************************************************************************)
(* The memoised depth-first search of queue_finished: a key is one deeper  *)
(* than its deepest dependent.  On an acyclic graph no chain is longer     *)
(* than the number of keys, so that many rounds reach the fixed point.     *)
(***************************************************************************)
LongestChain(key) ==
  LET chain[n \in 0..Cardinality(Key)] ==
        [k \in Queued |->
           IF n = 0 THEN 0
           ELSE 1 + Max({0} \cup {chain[n-1][r] : r \in Dependents(k)})]
  IN  chain[Cardinality(Key)][key]

QueueFinished ==
  /\ depth' = [k \in Queued |-> LongestChain(k)]
  /\ UNCHANGED <<dep_map, reverse_dep_map, dirty, pending>>

Ready == {k \in Queued : dep_map[k] = {}}

\* Among the ready keys one of maximal depth is taken; ties go either way.
Dequeue(key) ==
  /\ key \in Ready
  /\ \A r \in Ready : depth[r] <= depth[key]
  /\ dep_map' = [k \in Queued \ {key} |-> dep_map[k]]
  /\ pending' = pending \cup {key}
  /\ UNCHANGED <<reverse_dep_map, dirty, depth>>

\* The freshness `dequeue` returns with the key.
DequeueFreshness(key) == IF key \in dirty THEN Dirty ELSE Fresh

IsEmptyForgetsPending == Queued = {}

IsEmpty == Queued = {} /\ pending = {}

Finish(key, fresh) ==
  /\ pending' = pending \ {key}
  /\ dirty' = IF fresh = Dirty THEN dirty \cup Dependents(key) ELSE dirty
  /\ dep_map' = [k \in Queued |->
                   IF k \in Dependents(key) THEN dep_map[k] \ {key} ELSE dep_map[k]]
  /\ UNCHANGED <<reverse_dep_map, depth>>

--------------------------------------------------------------------------------
(***************************************************************************)
(* Clients.  A client queues a set of keys closed under dependency ("it is *)
(* assumed that any dependencies of this package will eventually also be   *)
(* added"), calls queue_finished once, and then dequeues and finishes.     *)
(***************************************************************************)
Closed == \A k \in Queued : deps[k] \subseteq Queued
Preparing == DOMAIN depth = {}

DQInit == deps \in Graphs /\ New

ClientQueue(key, fresh) ==
  /\ Preparing
  /\ Queue(fresh, key, deps[key])
  /\ UNCHANGED deps

ClientQueueFinished ==
  /\ Preparing
  /\ Queued # {} /\ Closed
  /\ QueueFinished
  /\ UNCHANGED deps

ClientDequeue(key) ==
  /\ ~Preparing
  /\ Dequeue(key)
  /\ UNCHANGED deps

\* `finish` asserts that the key is pending.
ClientFinish(key, fresh) ==
  /\ key \in pending
  /\ Finish(key, fresh)
  /\ UNCHANGED deps

DQNext ==
  \/ \E k \in Key, f \in Freshness : ClientQueue(k, f)
  \/ ClientQueueFinished
  \/ \E k \in Key : ClientDequeue(k)
  \/ \E k \in Key, f \in Freshness : ClientFinish(k, f)

\* DependencyQueue as any client may use it: keys are queued before
\* queue_finished, taken when the queue hands them out, and finished once each,
\* after they were taken (a finish of any other key fails an assertion).
DQSpec == DQInit /\ [][DQNext]_dqVars

--------------------------------------------------------------------------------
\* The types; and a key is waiting or pending, never both.
DQTypeOK ==
  /\ deps \in Graphs
  /\ Queued \subseteq Key /\ dep_map \in [Queued -> SUBSET Key]
  /\ DOMAIN reverse_dep_map \subseteq Key
  /\ reverse_dep_map \in [DOMAIN reverse_dep_map -> SUBSET Key]
  /\ dirty \subseteq Key
  /\ pending \subseteq Key \ Queued
  /\ DOMAIN depth \subseteq Key

\* The keys that `finish` has been called for.
Finished == DOMAIN depth \ (Queued \cup pending)

(***************************************************************************)
(* The unbuilt dependencies recorded for a key are exactly those that are  *)
(* not finished: none is forgotten (the key would be built too early) and  *)
(* none is left behind (it would never be built).                          *)
(***************************************************************************)
UnbuiltExact ==
  \A k \in Queued : dep_map[k] = deps[k] \ Finished

(***************************************************************************)
(* Whatever is being built has all its dependencies built.                 *)
(***************************************************************************)
BuiltInOrder ==
  \A k \in pending \cup Finished : deps[k] \subseteq Finished

(***************************************************************************)
(* The two assertions of `finish` hold for every pending key: each of its  *)
(* dependents is still in dep_map and still waits for it.                  *)
(***************************************************************************)
FinishAssertions ==
  \A k \in pending : \A r \in Dependents(k) : r \in Queued /\ k \in dep_map[r]

(***************************************************************************)
(* The queue never gets stuck: when keys are left and none is being built, *)
(* `dequeue` finds one.  ("finished with jobs still left in the queue" in  *)
(* job_queue.rs is the error this would cause.)                            *)
(***************************************************************************)
NeverStuck ==
  ~Preparing /\ Queued # {} /\ pending = {} => Ready # {}
================================================================================
