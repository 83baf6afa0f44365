--------------------------- MODULE JobQueueInvariance --------------------------
(***************************************************************************)
(* The dependency queue keeps its promises for every finite set of keys    *)
(* and every acyclic graph; and, of the build loop, which is a client of   *)
(* it, the inductive invariant and the parts of it that say what type      *)
(* everything has, where the main thread and the pending jobs are, which   *)
(* messages are under way and which tokens the main thread holds.  What is *)
(* needed of finite sets is collected in CountingFacts, which              *)
(* JobQueueProofs proves from the library: the library is kept out of the  *)
(* module with the long proofs.                                            *)
(***************************************************************************)
EXTENDS JobQueue, TLAPS

--------------------------------------------------------------------------------
(* The dependency queue                                                    *)

\* Every key queued so far.
Known == IF Preparing THEN Queued ELSE DOMAIN depth

(***************************************************************************)
(* The inductive invariant.  reverse_dep_map is the graph turned around,   *)
(* over all the keys ever queued; the keys are split in three, waiting,    *)
(* pending and finished, along the dependencies.                           *)
(***************************************************************************)
DQInv ==
  /\ DQTypeOK
  /\ \A k \in Key : Dependents(k) = {r \in Known : k \in deps[r]}
  /\ Preparing => pending = {} /\ depth = [k \in {} |-> 0]
  /\ ~Preparing => /\ Queued \cup pending \subseteq DOMAIN depth
                   /\ \A k \in DOMAIN depth : deps[k] \subseteq DOMAIN depth
  /\ Queued \cap pending = {}
  /\ UnbuiltExact
  /\ BuiltInOrder

\* The graph a client queues is a function on the keys.
LEMMA GraphType ==
  ASSUME DQTypeOK
  PROVE  deps \in [Key -> SUBSET Key] /\ Acyclic(deps)
BY GraphsAssumption DEF DQTypeOK

LEMMA InitEstablishes == DQInit => DQInv
<1> SUFFICES ASSUME DQInit PROVE DQInv
  OBVIOUS
<1>1. DQTypeOK
  BY DEF DQInit, New, DQTypeOK, Queued
<1>2. Preparing /\ Queued = {} /\ pending = {} /\ Finished = {} /\ Known = {}
  BY DEF DQInit, New, Preparing, Queued, Finished, Known
<1>3. \A k \in Key : Dependents(k) = {}
  BY DEF DQInit, New, Dependents
<1>4. depth = [k \in {} |-> 0]
  BY DEF DQInit, New
<1> QED BY <1>1, <1>2, <1>3, <1>4 DEF DQInv, UnbuiltExact, BuiltInOrder

LEMMA QueuePreserves ==
  ASSUME DQInv, NEW k \in Key, NEW f \in Freshness, ClientQueue(k, f)
  PROVE  DQInv'
<1>1. deps \in [Key -> SUBSET Key]
  BY GraphType DEF DQInv
<1>2. CASE k \in Queued
  <2>1. UNCHANGED dqVars
    BY <1>2 DEF ClientQueue, Queue, dqVars
  <2> QED BY <2>1 DEF DQInv, DQTypeOK, dqVars, Queued, Dependents, Known, Preparing,
                      UnbuiltExact, BuiltInOrder, Finished
<1>3. CASE k \notin Queued
  <2>1. /\ dep_map' = [x \in Queued \cup {k} |-> IF x = k THEN deps[k] ELSE dep_map[x]]
        /\ reverse_dep_map' = [d \in DOMAIN reverse_dep_map \cup deps[k] |->
                  Dependents(d) \cup (IF d \in deps[k] THEN {k} ELSE {})]
        /\ dirty' \subseteq dirty \cup {k}
        /\ UNCHANGED <<pending, depth, deps>>
        /\ Preparing
    BY <1>3 DEF ClientQueue, Queue
  <2>2. Queued' = Queued \cup {k} /\ Preparing' /\ Finished = {} /\ Finished' = {}
        /\ Known = Queued /\ Known' = Queued \cup {k} /\ pending = {} /\ pending' = {}
    BY <2>1 DEF Queued, Preparing, Finished, Known, DQInv
  <2>3. DQTypeOK'
    <3>1. \A d \in Key : Dependents(d) \subseteq Key
      BY DEF Dependents, DQInv, DQTypeOK
    <3>2. dep_map' \in [Queued' -> SUBSET Key]
      BY <1>1, <2>1, <2>2 DEF DQInv, DQTypeOK
    <3>3. DOMAIN reverse_dep_map' \subseteq Key
          /\ reverse_dep_map' \in [DOMAIN reverse_dep_map' -> SUBSET Key]
      BY <1>1, <2>1, <3>1 DEF DQInv, DQTypeOK
    <3> QED BY <2>1, <2>2, <3>2, <3>3 DEF DQInv, DQTypeOK
  <2>4. \A d \in Key : Dependents(d)' = {r \in Known' : d \in deps'[r]}
    <3> SUFFICES ASSUME NEW d \in Key
                 PROVE  Dependents(d)' = {r \in Known' : d \in deps[r]}
      BY <2>1
    <3>1. Dependents(d)' = Dependents(d) \cup (IF d \in deps[k] THEN {k} ELSE {})
      BY <2>1 DEF Dependents
    <3>2. Dependents(d) = {r \in Queued : d \in deps[r]}
      BY <2>2 DEF DQInv
    <3> QED BY <2>2, <3>1, <3>2
  <2>5. UnbuiltExact'
    BY <1>1, <2>1, <2>2 DEF DQInv, UnbuiltExact
  <2>6. BuiltInOrder'
    BY <2>2 DEF BuiltInOrder
  <2>7. depth' = [x \in {} |-> 0]
    BY <2>1 DEF DQInv
  <2> QED BY <2>2, <2>3, <2>4, <2>5, <2>6, <2>7 DEF DQInv
<1> QED BY <1>2, <1>3

LEMMA QueueFinishedPreserves ==
  ASSUME DQInv, ClientQueueFinished
  PROVE  DQInv'
<1>1. DOMAIN depth' = Queued /\ UNCHANGED <<deps, dep_map, reverse_dep_map, dirty, pending>>
      /\ Preparing /\ Closed /\ Queued # {}
  BY DEF ClientQueueFinished, QueueFinished
<1>2. Queued' = Queued /\ ~Preparing' /\ pending = {} /\ Known = Queued /\ Known' = Queued
      /\ Finished = {} /\ Finished' = {}
  BY <1>1 DEF Queued, Preparing, Finished, Known, DQInv
<1>3. DQTypeOK'
  BY <1>1, <1>2 DEF DQInv, DQTypeOK
<1>4. \A k \in Key : Dependents(k)' = {r \in Known' : k \in deps'[r]}
  BY <1>1, <1>2 DEF DQInv, Dependents
<1>5. UnbuiltExact' /\ BuiltInOrder'
  BY <1>1, <1>2 DEF DQInv, UnbuiltExact, BuiltInOrder
<1> QED BY <1>1, <1>2, <1>3, <1>4, <1>5 DEF DQInv, Closed

LEMMA DequeuePreserves ==
  ASSUME DQInv, NEW k \in Key, ClientDequeue(k)
  PROVE  DQInv'
<1>1. /\ k \in Queued /\ dep_map[k] = {} /\ ~Preparing
      /\ dep_map' = [x \in Queued \ {k} |-> dep_map[x]]
      /\ pending' = pending \cup {k}
      /\ UNCHANGED <<deps, reverse_dep_map, dirty, depth>>
  BY DEF ClientDequeue, Dequeue, Ready
<1>2. /\ Queued' = Queued \ {k}
      /\ ~Preparing'
      /\ Finished' = Finished
      /\ Known' = Known
  BY <1>1 DEF Queued, Preparing, Finished, Known
<1>3. DQTypeOK'
  BY <1>1, <1>2 DEF DQInv, DQTypeOK
<1>4. \A x \in Key : Dependents(x)' = {r \in Known' : x \in deps'[r]}
  BY <1>1, <1>2 DEF DQInv, Dependents
<1>5. UnbuiltExact'
  BY <1>1, <1>2 DEF DQInv, UnbuiltExact
<1>6. BuiltInOrder'
  <2>1. deps[k] \subseteq Finished
    BY <1>1 DEF DQInv, UnbuiltExact
  <2> QED BY <1>1, <1>2, <2>1 DEF DQInv, BuiltInOrder
<1>7. Queued' \cup pending' \subseteq DOMAIN depth /\ Queued' \cap pending' = {}
  BY <1>1, <1>2 DEF DQInv
<1> QED BY <1>1, <1>2, <1>3, <1>4, <1>5, <1>6, <1>7 DEF DQInv

LEMMA FinishPreserves ==
  ASSUME DQInv, NEW k \in Key, NEW f \in Freshness, ClientFinish(k, f)
  PROVE  DQInv'
<1>1. /\ k \in pending
      /\ pending' = pending \ {k}
      /\ dep_map' = [x \in Queued |->
                       IF x \in Dependents(k) THEN dep_map[x] \ {k} ELSE dep_map[x]]
      /\ dirty' \subseteq dirty \cup Dependents(k)
      /\ UNCHANGED <<deps, reverse_dep_map, depth>>
  BY DEF ClientFinish, Finish
<1>2. /\ Queued' = Queued
      /\ ~Preparing /\ ~Preparing'
      /\ Known' = Known
      /\ k \in DOMAIN depth /\ k \notin Queued
      /\ Finished' = Finished \cup {k}
  BY <1>1 DEF Queued, Preparing, Finished, Known, DQInv
<1>3. Dependents(k) = {r \in DOMAIN depth : k \in deps[r]}
  BY <1>2 DEF DQInv, Known
<1>4. DQTypeOK'
  BY <1>1, <1>2, <1>3 DEF DQInv, DQTypeOK
<1>5. \A x \in Key : Dependents(x)' = {r \in Known' : x \in deps'[r]}
  BY <1>1, <1>2 DEF DQInv, Dependents
<1>6. UnbuiltExact'
  BY <1>1, <1>2, <1>3 DEF DQInv, UnbuiltExact
<1>7. BuiltInOrder'
  BY <1>1, <1>2 DEF DQInv, BuiltInOrder
<1> QED BY <1>1, <1>2, <1>4, <1>5, <1>6, <1>7 DEF DQInv

LEMMA StepPreserves ==
  ASSUME DQInv, [DQNext]_dqVars
  PROVE  DQInv'
<1>1. CASE UNCHANGED dqVars
  BY <1>1 DEF DQInv, DQTypeOK, dqVars, Queued, Dependents, Known, Preparing,
              UnbuiltExact, BuiltInOrder, Finished
<1>2. CASE DQNext
  BY <1>2, QueuePreserves, QueueFinishedPreserves, DequeuePreserves, FinishPreserves
  DEF DQNext
<1> QED BY <1>1, <1>2

(***************************************************************************)
(* DQInv holds in every state a client can bring the queue to.             *)
(***************************************************************************)
THEOREM QueueInvariant == DQSpec => []DQInv
BY InitEstablishes, StepPreserves, PTL DEF DQSpec

(***************************************************************************)
(* `dequeue` never hands out a key before all its dependencies have been   *)
(* finished.                                                               *)
(***************************************************************************)
THEOREM BuildsInOrder == DQSpec => [](BuiltInOrder /\ UnbuiltExact)
<1>1. DQInv => BuiltInOrder /\ UnbuiltExact
  BY DEF DQInv
<1> QED BY <1>1, QueueInvariant, PTL

\* The invariant implies what `finish` asserts.
LEMMA InvFinishAssertions == DQInv => FinishAssertions
<1> SUFFICES ASSUME DQInv, NEW k \in pending, NEW r \in Dependents(k)
             PROVE  r \in Queued /\ k \in dep_map[r]
  BY DEF FinishAssertions
<1>1. k \in Key /\ ~Preparing /\ Known = DOMAIN depth
  BY DEF DQInv, DQTypeOK, Known
<1>2. r \in DOMAIN depth /\ k \in deps[r] /\ k \notin Finished
  BY <1>1 DEF DQInv, Finished
<1>3. r \in Queued
  BY <1>2 DEF DQInv, BuiltInOrder, Finished
<1> QED BY <1>2, <1>3 DEF DQInv, UnbuiltExact

(***************************************************************************)
(* The assertions in `finish` never fail.                                  *)
(***************************************************************************)
THEOREM AssertionsHold == DQSpec => []FinishAssertions
BY QueueInvariant, InvFinishAssertions, PTL

\* Of some keys, one has the least rank.
LeastRanked ==
  \A rank \in [Key -> 0..Cardinality(Key)], S \in SUBSET Key :
    S # {} => \E k \in S : \A x \in S : ~(rank[x] < rank[k])

\* Of the waiting keys, one of least rank waits only for pending keys.
LEMMA InvNeverStuck == LeastRanked /\ DQInv => NeverStuck
<1> SUFFICES ASSUME LeastRanked, DQInv, ~Preparing, Queued # {}, pending = {}
             PROVE  Ready # {}
  BY DEF NeverStuck
<1>1. deps \in [Key -> SUBSET Key] /\ Acyclic(deps)
  BY GraphType DEF DQInv
<1>2. PICK rank \in [Key -> 0..Cardinality(Key)] :
        \A k \in Key : \A d \in deps[k] : rank[d] < rank[k]
  BY <1>1 DEF Acyclic
<1>3. Queued \in SUBSET Key
  BY DEF DQInv, DQTypeOK
<1>4. PICK k \in Queued : \A x \in Queued : ~(rank[x] < rank[k])
  BY Zenon, <1>2, <1>3 DEF LeastRanked
<1>5. deps[k] \cap Queued = {}
  BY <1>1, <1>2, <1>3, <1>4
<1>6. deps[k] \subseteq Finished
  BY <1>5 DEF DQInv, Finished
<1>7. dep_map[k] = {}
  BY <1>6 DEF DQInv, UnbuiltExact
<1> QED BY <1>7 DEF Ready

--------------------------------------------------------------------------------
(* The build loop                                                          *)

\* Facts about the cardinalities of sets of keys and of messages.
CountingFacts ==
  /\ LeastRanked
  /\ \A s \in Seq(Message) : TokensIn(s) \in Nat
  /\ \A S \in SUBSET Key : Cardinality(S) \in Nat /\ (Cardinality(S) = 0 <=> S = {})
  /\ \A S \in SUBSET Key : \A k \in S : Cardinality(S \ {k}) = Cardinality(S) - 1
  /\ \A S \in SUBSET Key : \A k \in Key : Cardinality(S \cup {k}) <= Cardinality(S) + 1

JobRecord == [key : Key, fresh : Freshness]

KeysOf(q) == {q[i].key : i \in DOMAIN q}
DistinctKeys(q) == \A i, j \in DOMAIN q : q[i].key = q[j].key => i = j

\* The keys in the local queue.
Waiting == KeysOf(queue)

\* What the position of the main thread says about the rest.
PhaseInv ==
  /\ pc = "enqueue" =>
       /\ Preparing
       /\ queue = <<>> /\ rx = <<>> /\ tokens = 0 /\ requests = 0 /\ ~error
       /\ active = {} /\ running = {} /\ failed = {}
  /\ pc # "enqueue" => (Preparing => Queued = {})
  /\ pc = "spawn" => Ready = {}
  /\ result = "none" <=> (pc = "enqueue" \/ InLoop)

\* Where a pending job is: waiting for a token, active, or failed.
WorkInv ==
  /\ DOMAIN job = Known
  /\ DOMAIN pendingBuild = pending \cup Finished
  /\ running \subseteq active
  /\ active \subseteq pending
  /\ failed \subseteq pending
  /\ Waiting \subseteq pending \ active
  /\ failed \cap (running \cup Waiting) = {}
  /\ DistinctKeys(queue)
  /\ \A k \in active \cup Waiting : pendingBuild[k].amt = 1
  /\ InLoop /\ ~error => pending = active \cup Waiting

\* The messages under way tell the truth.
ChannelInv ==
  /\ ActiveAccounted
  /\ InLoop => \A i \in FinishesIn(rx) : rx[i].ok <=> rx[i].key \notin failed
  /\ InLoop /\ ~error => failed \subseteq Reported(rx)
  /\ ~IoMayFail => \A i \in DOMAIN rx : rx[i].type = "Token" => rx[i].ok

\* A finished dirty job has made its dependents dirty.
FreshInv ==
  /\ FreshnessPropagates
  /\ \A d \in Finished : pendingBuild[d].fresh = Dirty =>
       \A r \in DOMAIN depth : d \in deps[r] => r \in dirty

OutcomeInv ==
  /\ OutcomeTrue
  /\ error => failed # {}

JInv ==
  /\ TypeOK
  /\ DQInv
  /\ PhaseInv
  /\ WorkInv
  /\ ChannelInv
  /\ TokenPerJob
  /\ FreshInv
  /\ OutcomeInv

--------------------------------------------------------------------------------
(* The channel as a sequence                                               *)

LEMMA MessageTypes ==
  /\ \A k \in Key, ok \in BOOLEAN : FinishMsg(k, ok) \in Message
  /\ \A ok \in BOOLEAN : TokenMsg(ok) \in Message
  /\ OutputMsg \in Message
  /\ \A m \in Message : m.type = "Finish" => m.key \in Key /\ m.ok \in BOOLEAN
  /\ \A m \in Message : m.type = "Token" => m.ok \in BOOLEAN
BY DEF Message, FinishMsg, TokenMsg, OutputMsg

LEMMA SendMessage ==
  ASSUME NEW s \in Seq(Message), NEW m \in Message
  PROVE  /\ Append(s, m) \in Seq(Message)
         /\ DOMAIN Append(s, m) = DOMAIN s \cup {Len(s) + 1}
         /\ Len(s) + 1 \notin DOMAIN s
         /\ \A i \in DOMAIN s : Append(s, m)[i] = s[i]
         /\ Append(s, m)[Len(s) + 1] = m
         /\ FinishesIn(Append(s, m)) =
              FinishesIn(s) \cup (IF m.type = "Finish" THEN {Len(s) + 1} ELSE {})
         /\ Reported(Append(s, m)) =
              Reported(s) \cup (IF m.type = "Finish" THEN {m.key} ELSE {})
<1>1. /\ Append(s, m) \in Seq(Message)
      /\ DOMAIN Append(s, m) = DOMAIN s \cup {Len(s) + 1}
      /\ Len(s) + 1 \notin DOMAIN s
      /\ \A i \in DOMAIN s : Append(s, m)[i] = s[i]
      /\ Append(s, m)[Len(s) + 1] = m
  OBVIOUS
<1>2. FinishesIn(Append(s, m)) =
        FinishesIn(s) \cup (IF m.type = "Finish" THEN {Len(s) + 1} ELSE {})
  BY <1>1 DEF FinishesIn
<1>3. \A i \in FinishesIn(s) : i \in DOMAIN s
  BY DEF FinishesIn
<1> HIDE DEF FinishesIn
<1>4. Reported(Append(s, m)) =
        Reported(s) \cup (IF m.type = "Finish" THEN {m.key} ELSE {})
  BY <1>1, <1>2, <1>3 DEF Reported
<1> QED BY <1>1, <1>2, <1>4

\* Head and Tail, by index.
LEMMA TakeFirst ==
  ASSUME NEW S, NEW s \in Seq(S), s # <<>>
  PROVE  /\ Head(s) \in S /\ Head(s) = s[1] /\ 1 \in DOMAIN s
         /\ Tail(s) \in Seq(S)
         /\ \A i \in DOMAIN Tail(s) : i + 1 \in DOMAIN s /\ i + 1 # 1 /\ Tail(s)[i] = s[i + 1]
         /\ \A j \in DOMAIN s : j # 1 => j - 1 \in DOMAIN Tail(s) /\ Tail(s)[j - 1] = s[j]
         /\ DOMAIN Tail(s) \subseteq Nat /\ DOMAIN s \subseteq Nat
OBVIOUS

LEMMA ReceiveReported ==
  ASSUME NEW s \in Seq(Message), s # <<>>,
         \A i, j \in FinishesIn(s) : s[i].key = s[j].key => i = j
  PROVE  /\ \A i, j \in FinishesIn(Tail(s)) : Tail(s)[i].key = Tail(s)[j].key => i = j
         /\ Reported(Tail(s)) = IF Head(s).type = "Finish"
                                THEN Reported(s) \ {Head(s).key} ELSE Reported(s)
         /\ Head(s).type = "Finish" => Head(s).key \in Reported(s)
<1> DEFINE t == Tail(s)
<1> DEFINE h == Head(s)
<1>1. /\ \A i \in FinishesIn(t) : i \in Nat /\ i + 1 \in FinishesIn(s) /\ i + 1 # 1 /\ t[i] = s[i + 1]
      /\ \A j \in FinishesIn(s) : j # 1 => j - 1 \in FinishesIn(t) /\ t[j - 1] = s[j]
      /\ h.type = "Finish" <=> 1 \in FinishesIn(s)
      /\ h = s[1]
  BY TakeFirst DEF FinishesIn
<1> HIDE DEF t, h
<1>2. \A i, j \in FinishesIn(t) : t[i].key = t[j].key => i = j
  <2> SUFFICES ASSUME NEW i \in FinishesIn(t), NEW j \in FinishesIn(t), t[i].key = t[j].key
               PROVE  i = j
    OBVIOUS
  <2>1. i + 1 = j + 1 /\ i \in Nat /\ j \in Nat
    BY <1>1
  <2> QED BY <2>1
<1>3. Reported(t) \subseteq Reported(s)
  BY <1>1 DEF Reported
<1>4. \A k \in Reported(s) : k \in Reported(t) \/ (1 \in FinishesIn(s) /\ k = s[1].key)
  BY <1>1 DEF Reported
<1>5. 1 \in FinishesIn(s) => s[1].key \notin Reported(t) /\ s[1].key \in Reported(s)
  BY <1>1 DEF Reported
<1>6. Reported(t) = IF h.type = "Finish" THEN Reported(s) \ {h.key} ELSE Reported(s)
  <2>1. CASE h.type = "Finish"
    <3>1. h = s[1] /\ 1 \in FinishesIn(s)
      BY <1>1, <2>1
    <3>2. Reported(t) = Reported(s) \ {s[1].key}
      BY <1>3, <1>4, <1>5, <3>1
    <3> QED BY <2>1, <3>1, <3>2
  <2>2. CASE h.type # "Finish"
    <3>1. 1 \notin FinishesIn(s)
      BY <1>1, <2>2
    <3> QED BY Zenon, <1>3, <1>4, <2>2, <3>1
  <2> QED BY <2>1, <2>2
<1> QED BY Zenon, <1>1, <1>2, <1>5, <1>6 DEF t, h

--------------------------------------------------------------------------------
(* Every step of the build loop is a step of a client of the queue         *)

LEMMA HeadFinish ==
  ASSUME JInv, pc = "recv", rx # <<>>, Head(rx).type = "Finish"
  PROVE  /\ Head(rx).key \in active /\ Head(rx).key \in pending /\ Head(rx).key \in Key
         /\ Head(rx).key \notin running
         /\ Head(rx).key \in DOMAIN pendingBuild /\ pendingBuild[Head(rx).key].amt = 1
         /\ Head(rx).ok \in BOOLEAN
         /\ Head(rx).ok <=> Head(rx).key \notin failed
<1>1. rx \in Seq(Message) /\ InLoop
  BY DEF JInv, TypeOK, InLoop
<1>2. Head(rx) = rx[1] /\ 1 \in FinishesIn(rx)
  BY <1>1, TakeFirst DEF FinishesIn
<1>3. Head(rx).key \in Reported(rx)
  BY <1>2 DEF Reported
<1>4. Head(rx).key \in active /\ Head(rx).key \notin running
  BY <1>1, <1>3 DEF JInv, ChannelInv, ActiveAccounted
<1>5. Head(rx).key \in pending /\ Head(rx).key \in DOMAIN pendingBuild
      /\ pendingBuild[Head(rx).key].amt = 1
  BY <1>4 DEF JInv, WorkInv
<1>6. Head(rx).ok <=> Head(rx).key \notin failed
  BY <1>1, <1>2 DEF JInv, ChannelInv
<1>7. Head(rx).key \in Key /\ Head(rx).ok \in BOOLEAN
  BY <1>1, TakeFirst, MessageTypes
<1> QED BY <1>4, <1>5, <1>6, <1>7

LEMMA FinishIsClientFinish ==
  ASSUME JInv, NEW p \in IoOutcome, RecvFinish(p)
  PROVE  LET k == Head(rx).key IN
         \/ /\ Head(rx).ok /\ p
            /\ ClientFinish(k, pendingBuild[k].fresh)
            /\ pendingBuild' = [pendingBuild EXCEPT ![k].amt = 0]
         \/ /\ ~(Head(rx).ok /\ p)
            /\ UNCHANGED <<dqVars, pendingBuild>>
<1> DEFINE k == Head(rx).key
<1>1. pc = "recv" /\ rx # <<>> /\ Head(rx).type = "Finish" /\ deps' = deps
  BY DEF RecvFinish
<1>2. k \in pending /\ k \in DOMAIN pendingBuild /\ pendingBuild[k].amt = 1
  BY <1>1, HeadFinish
<1>3. CASE Head(rx).ok /\ p
  <2>1. FinishJob(k)
    BY <1>3 DEF RecvFinish
  <2>2. Finish(k, pendingBuild[k].fresh) /\ pendingBuild' = [pendingBuild EXCEPT ![k].amt = 0]
    BY <1>2, <2>1 DEF FinishJob
  <2> QED BY <1>1, <1>2, <1>3, <2>2 DEF ClientFinish
<1>4. CASE ~(Head(rx).ok /\ p)
  BY <1>1, <1>4 DEF RecvFinish, queueVars, dqVars
<1> QED BY <1>3, <1>4

LEMMA StepIsClientStep ==
  ASSUME JInv, [Next]_vars
  PROVE  [DQNext]_dqVars
<1>1. ASSUME NEW k \in Key, NEW f \in Freshness, Enqueue(k, f)
      PROVE  DQNext
  <2>1. Preparing
    BY <1>1 DEF Enqueue, JInv, PhaseInv
  <2>2. ClientQueue(k, Fresh)
    BY <1>1, <2>1 DEF Enqueue, ClientQueue
  <2> QED BY <2>2 DEF DQNext, Freshness
<1>2. ASSUME Execute
      PROVE  [DQNext]_dqVars
  <2>1. Preparing
    BY <1>2 DEF Execute, JInv, PhaseInv
  <2>2. CASE Queued # {}
    BY <1>2, <2>1, <2>2 DEF Execute, ClientQueueFinished, DQNext
  <2>3. CASE Queued = {}
    <3>1. depth = [x \in {} |-> 0]
      BY <2>1 DEF JInv, DQInv
    <3>2. depth' = depth
      BY <1>2, <2>3, <3>1 DEF Execute, QueueFinished
    <3> QED BY <1>2, <3>2 DEF Execute, QueueFinished, dqVars
  <2> QED BY <2>2, <2>3
<1>3. ASSUME NEW k \in Key, DequeueJob(k)
      PROVE  DQNext
  <2>1. k \in Queued
    BY <1>3 DEF DequeueJob, Dequeue, Ready
  <2>2. ~Preparing
    BY <1>3, <2>1 DEF DequeueJob, JInv, PhaseInv
  <2>3. ClientDequeue(k)
    BY <1>3, <2>2 DEF DequeueJob, ClientDequeue
  <2> QED BY <2>3 DEF DQNext
<1>4. ASSUME NEW p \in IoOutcome, RecvFinish(p)
      PROVE  [DQNext]_dqVars
  <2> DEFINE k == Head(rx).key
  <2>1. k \in Key /\ k \in DOMAIN pendingBuild
    BY <1>4, HeadFinish DEF RecvFinish
  <2>2. pendingBuild[k].fresh \in Freshness
    BY <2>1 DEF JInv, TypeOK
  <2> QED BY <1>4, <2>1, <2>2, FinishIsClientFinish DEF DQNext
<1>5. ASSUME \/ DequeueNone \/ Block \/ RecvToken \/ Leave \/ Join
             \/ \E s \in BOOLEAN, p \in IoOutcome : RunFresh(s, p)
             \/ \E p \in IoOutcome : RunDirty(p) \/ Break(p) \/ RecvOutput(p)
             \/ \E k \in Key : Worker(k) \/ ChildAcquire(k) \/ ChildRelease(k)
             \/ Helper \/ Terminated \/ UNCHANGED vars
      PROVE  UNCHANGED dqVars
  BY Zenon, <1>5 DEF DequeueNone, Block, RecvToken, Leave, Join, RunFresh, RunDirty, Break, RecvOutput,
     Worker, WorkerOutput, WorkerFinish, ChildAcquire, ChildRelease, Helper, HelperAcquire,
     HelperError, Terminated, vars
<1> QED BY <1>1, <1>2, <1>3, <1>4, <1>5 DEF Next, Main

LEMMA QueueInvariantKept ==
  ASSUME JInv, [Next]_vars
  PROVE  DQInv'
BY StepIsClientStep, StepPreserves DEF JInv

--------------------------------------------------------------------------------
(* Types                                                                   *)

LocalTypeOK ==
  /\ pc \in {"enqueue", "dequeue", "spawn", "recv", "leave", "join", "done"}
  /\ DOMAIN job \subseteq Key /\ job \in [DOMAIN job -> Freshness]
  /\ DOMAIN pendingBuild \subseteq Key
  /\ pendingBuild \in [DOMAIN pendingBuild -> [amt : Nat, fresh : Freshness]]
  /\ queue \in Seq([key : Key, fresh : Freshness])
  /\ active \subseteq Key
  /\ tokens \in Nat
  /\ error \in BOOLEAN
  /\ result \in {"none", "Ok", "Err", "Internal"}

WorkerTypeOK ==
  /\ rx \in Seq(Message)
  /\ running \subseteq Key
  /\ output \in [Key -> Nat]
  /\ requests \in Nat
  /\ avail \in Nat
  /\ child \in [Key -> Nat]
  /\ failed \subseteq Key

LEMMA TypeSplit == TypeOK <=> DQTypeOK /\ LocalTypeOK /\ WorkerTypeOK
BY DEF TypeOK, LocalTypeOK, WorkerTypeOK

LEMMA ActiveFinite ==
  ASSUME CountingFacts, active \subseteq Key
  PROVE  Cardinality(active) \in Nat /\ (Cardinality(active) = 0 <=> active = {})
BY DEF CountingFacts

LEMMA CombineType ==
  ASSUME NEW a \in Freshness, NEW b \in Freshness
  PROVE  combine(a, b) \in Freshness
BY DEF combine, Freshness, Fresh, Dirty

\* The head of the local queue.
LEMMA HeadQueue ==
  ASSUME TypeOK, queue # <<>>
  PROVE  /\ Head(queue).key \in Key /\ Head(queue).key \in Waiting
         /\ Head(queue).fresh \in Freshness
         /\ Head(queue) = queue[1] /\ 1 \in DOMAIN queue
         /\ Tail(queue) \in Seq([key : Key, fresh : Freshness])
<1>1. queue \in Seq([key : Key, fresh : Freshness])
  BY DEF TypeOK
<1>2. Head(queue) \in [key : Key, fresh : Freshness] /\ Head(queue) = queue[1] /\ 1 \in DOMAIN queue
  BY Zenon, <1>1, TakeFirst
<1>3. Head(queue).key \in Key /\ Head(queue).fresh \in Freshness
  BY <1>2
<1>4. Tail(queue) \in Seq([key : Key, fresh : Freshness])
  BY <1>1, TakeFirst
<1>5. Head(queue).key \in Waiting
  BY <1>2 DEF Waiting, KeysOf
<1> QED BY <1>2, <1>3, <1>4, <1>5

LEMMA LocalTypeKept ==
  ASSUME CountingFacts, JInv, Next
  PROVE  LocalTypeOK'
<1>0. LocalTypeOK /\ DQTypeOK
  BY TypeSplit DEF JInv
<1>1. ASSUME NEW k \in Key, NEW f \in Freshness, Enqueue(k, f)
      PROVE  LocalTypeOK'
  <2>1. job' = [x \in Queued \cup {k} |-> IF x = k THEN f ELSE job[x]]
    BY <1>1 DEF Enqueue, mainVars, workerVars, dqVars
  <2>2. DOMAIN job = Queued
    BY <1>1 DEF JInv, WorkInv, Known, PhaseInv, Enqueue, mainVars, workerVars, dqVars
  <2>3. DOMAIN job' \subseteq Key /\ job' \in [DOMAIN job' -> Freshness]
    BY <1>0, <2>1, <2>2 DEF LocalTypeOK
  <2> QED BY <1>0, <1>1, <2>3 DEF LocalTypeOK, Enqueue, mainVars, workerVars, dqVars
<1>2. ASSUME NEW k \in Key, DequeueJob(k)
      PROVE  LocalTypeOK'
  <2> DEFINE tf == combine(job[k], DequeueFreshness(k))
  <2>1. k \in Queued /\ ~Preparing
    BY <1>2 DEF DequeueJob, Dequeue, Ready, JInv, PhaseInv, mainVars, workerVars, dqVars
  <2>2. k \in DOMAIN job
    BY <2>1 DEF JInv, DQInv, WorkInv, Known
  <2>3. tf \in Freshness
    BY <1>0, <2>2, CombineType DEF LocalTypeOK, DequeueFreshness, Freshness, Fresh, Dirty
  <2>4. /\ pendingBuild' = [x \in DOMAIN pendingBuild \cup {k} |->
                              IF x = k THEN [amt |-> 1, fresh |-> tf] ELSE pendingBuild[x]]
        /\ queue' = Append(queue, [key |-> k, fresh |-> tf])
        /\ UNCHANGED <<pc, job, active, tokens, error, result>>
    BY <1>2 DEF DequeueJob, mainVars, workerVars, dqVars
  <2> HIDE DEF tf
  <2>5. pendingBuild' \in [DOMAIN pendingBuild' -> [amt : Nat, fresh : Freshness]]
        /\ DOMAIN pendingBuild' \subseteq Key
    BY <1>0, <2>3, <2>4 DEF LocalTypeOK
  <2>6. queue' \in Seq([key : Key, fresh : Freshness])
    BY <1>0, <2>3, <2>4 DEF LocalTypeOK
  <2> QED BY <1>0, <2>4, <2>5, <2>6 DEF LocalTypeOK
<1>3. ASSUME NEW s \in BOOLEAN, NEW p \in IoOutcome, RunFresh(s, p) \/ RunDirty(p)
      PROVE  LocalTypeOK'
  <2>1. queue # <<>>
    BY <1>3 DEF RunFresh, RunDirty, MaySpawn, mainVars, workerVars, dqVars
  <2>2. Head(queue).key \in Key /\ Tail(queue) \in Seq([key : Key, fresh : Freshness])
    BY <2>1, HeadQueue DEF JInv
  <2>3. /\ queue' = Tail(queue) /\ active' = active \cup {Head(queue).key}
        /\ pc' \in {"spawn", "leave"} /\ result' \in {result, "Err"}
        /\ UNCHANGED <<job, pendingBuild, tokens, error>>
    BY <1>3 DEF RunFresh, RunDirty, QueueRemoved, Proceed, mainVars, workerVars, dqVars
  <2> QED BY <1>0, <2>2, <2>3 DEF LocalTypeOK
<1>4. ASSUME NEW p \in IoOutcome, RecvFinish(p)
      PROVE  LocalTypeOK'
  <2> DEFINE k == Head(rx).key
  <2>1. k \in active /\ k \in DOMAIN pendingBuild /\ Head(rx).ok \in BOOLEAN
    BY <1>4, HeadFinish DEF RecvFinish, mainVars, workerVars, dqVars
  <2>2. pendingBuild' = pendingBuild \/ pendingBuild' = [pendingBuild EXCEPT ![k].amt = 0]
    BY <1>4, FinishIsClientFinish
  <2>3. pendingBuild' \in [DOMAIN pendingBuild' -> [amt : Nat, fresh : Freshness]]
        /\ DOMAIN pendingBuild' \subseteq Key
    <3>1. pendingBuild[k] \in [amt : Nat, fresh : Freshness]
      BY <1>0, <2>1 DEF LocalTypeOK
    <3>2. [pendingBuild[k] EXCEPT !.amt = 0] \in [amt : Nat, fresh : Freshness]
      BY <3>1
    <3> HIDE DEF k
    <3>3. pendingBuild' = pendingBuild
          \/ pendingBuild' = [pendingBuild EXCEPT ![k] = [pendingBuild[k] EXCEPT !.amt = 0]]
      BY <2>2
    <3> QED BY Zenon, <1>0, <2>1, <3>2, <3>3 DEF LocalTypeOK
  <2>4. tokens' \in Nat
    <3>1. tokens + 1 = Cardinality(active) /\ tokens \in Nat
      BY <1>4 DEF RecvFinish, JInv, TokenPerJob, TypeOK, mainVars, workerVars, dqVars
    <3>2. active' = active \ {k} /\ tokens' = IF active' = {} THEN tokens ELSE tokens - 1
      BY <1>4 DEF RecvFinish, TokensAfter, mainVars, workerVars, dqVars
    <3>3. active \in SUBSET Key /\ active' \in SUBSET Key
      BY Zenon, <1>0, <3>2 DEF LocalTypeOK
    <3>4. Cardinality(active') = tokens
      <4>1. Cardinality(active \ {k}) = Cardinality(active) - 1
        BY Zenon, <2>1, <3>3 DEF CountingFacts
      <4> QED BY <3>1, <3>2, <4>1
    <3>5. active' # {} => Cardinality(active') # 0
      BY Zenon, <3>3 DEF CountingFacts
    <3> QED BY <3>1, <3>2, <3>4, <3>5
  <2>5. error' \in BOOLEAN
    BY <1>4 DEF RecvFinish, mainVars, workerVars, dqVars
  <2>6. /\ active' \subseteq active
        /\ pc' \in {"dequeue", "leave"} /\ result' \in {result, "Err"}
        /\ UNCHANGED <<job, queue>>
    BY <1>4 DEF RecvFinish, Proceed, mainVars, workerVars, dqVars
  <2> QED BY <1>0, <2>3, <2>4, <2>5, <2>6 DEF LocalTypeOK
<1>5. ASSUME Block
      PROVE  LocalTypeOK'
  <2>1. Cardinality(active) \in Nat \ {0}
    BY <1>0, <1>5, ActiveFinite DEF LocalTypeOK, Block, mainVars, workerVars, dqVars
  <2> QED BY <1>0, <1>5, <2>1 DEF LocalTypeOK, Block, mainVars, workerVars, dqVars
<1>6. ASSUME NEW p \in IoOutcome,
             Execute \/ DequeueNone \/ Break(p) \/ RecvOutput(p) \/ RecvToken \/ Leave \/ Join
      PROVE  LocalTypeOK'
  BY <1>0, <1>6 DEF LocalTypeOK, Execute, DequeueNone, Break, RecvOutput, RecvToken, Leave, Join,
     Proceed, mainVars, workerVars, dqVars
<1>7. ASSUME \/ \E k \in Key : Worker(k) \/ ChildAcquire(k) \/ ChildRelease(k)
             \/ Helper \/ Terminated
      PROVE  LocalTypeOK'
  <2>1. UNCHANGED mainVars
    BY Zenon, <1>7 DEF Worker, WorkerOutput, WorkerFinish, ChildAcquire, ChildRelease, Helper,
       HelperAcquire, HelperError, Terminated, vars, mainVars, workerVars, dqVars
  <2> QED BY <1>0, <2>1 DEF LocalTypeOK, mainVars, workerVars, dqVars
<1>8. IoOutcome # {} /\ BOOLEAN # {}
  BY Zenon DEF IoOutcome
<1> QED BY <1>1, <1>2, <1>3, <1>4, <1>5, <1>6, <1>7, <1>8 DEF Next, Main

LEMMA WorkerTypeKept ==
  ASSUME CountingFacts, JInv, Next
  PROVE  WorkerTypeOK'
<1>0. WorkerTypeOK /\ LocalTypeOK
  BY TypeSplit DEF JInv
<1>1. ASSUME NEW m \in Message, rx' = Append(rx, m)
      PROVE  rx' \in Seq(Message)
  BY <1>0, <1>1, SendMessage DEF WorkerTypeOK
<1>2. ASSUME rx # <<>>, rx' = Tail(rx)
      PROVE  rx' \in Seq(Message)
  BY <1>0, <1>2, TakeFirst DEF WorkerTypeOK
<1>3. ASSUME (\E k \in Key, f \in Freshness : Enqueue(k, f)) \/ Execute
      PROVE  WorkerTypeOK'
  BY Zenon, <1>0, <1>3 DEF WorkerTypeOK, Enqueue, Execute, mainVars, workerVars, dqVars
<1>4. ASSUME (\E k \in Key : DequeueJob(k)) \/ DequeueNone
      PROVE  WorkerTypeOK'
  <2>1. requests' = requests \/ requests' = requests + 1
    BY Zenon, <1>4 DEF DequeueJob, DequeueNone, mainVars, workerVars, dqVars
  <2>2. UNCHANGED <<workerVars, rx, avail>>
    BY Zenon, <1>4 DEF DequeueJob, DequeueNone, mainVars, workerVars, dqVars
  <2> QED BY <1>0, <2>1, <2>2 DEF WorkerTypeOK, mainVars, workerVars, dqVars
<1>5. ASSUME NEW s \in BOOLEAN, NEW p \in IoOutcome, RunFresh(s, p)
      PROVE  WorkerTypeOK'
  <2>1. queue # <<>>
    BY <1>5 DEF RunFresh, MaySpawn, mainVars, workerVars, dqVars
  <2>2. Head(queue).key \in Key
    BY <2>1, HeadQueue DEF JInv
  <2>3. rx' \in Seq(Message)
    BY <1>1, <1>5, <2>2, MessageTypes DEF RunFresh, Report, mainVars, workerVars, dqVars
  <2> QED BY <1>0, <1>5, <2>2, <2>3 DEF WorkerTypeOK, RunFresh, mainVars, workerVars, dqVars
<1>6. ASSUME NEW p \in IoOutcome, RunDirty(p)
      PROVE  WorkerTypeOK'
  <2>1. queue # <<>>
    BY <1>6 DEF RunDirty, MaySpawn, mainVars, workerVars, dqVars
  <2>2. Head(queue).key \in Key
    BY <2>1, HeadQueue DEF JInv
  <2> QED BY <1>0, <1>6, <2>2 DEF WorkerTypeOK, RunDirty, mainVars, workerVars, dqVars
<1>7. ASSUME Block
      PROVE  WorkerTypeOK'
  <2>1. Cardinality(active) \in Nat \ {0}
    BY <1>0, <1>7, ActiveFinite DEF LocalTypeOK, Block, mainVars, workerVars, dqVars
  <2>2. avail' \in Nat
    BY <1>0, <1>7, <2>1 DEF Block, LocalTypeOK, WorkerTypeOK, mainVars, workerVars, dqVars
  <2> QED BY <1>0, <1>7, <2>2 DEF WorkerTypeOK, Block, mainVars, workerVars, dqVars
<1>8. ASSUME NEW p \in IoOutcome, Break(p) \/ RecvOutput(p) \/ RecvFinish(p) \/ RecvToken
      PROVE  WorkerTypeOK'
  <2>1. rx' \in Seq(Message)
    BY <1>0, <1>2, <1>8 DEF WorkerTypeOK, Break, RecvOutput, RecvFinish, RecvToken, mainVars, workerVars, dqVars
  <2>2. avail' \in Nat
    BY <1>0, <1>8 DEF WorkerTypeOK, Break, RecvOutput, RecvFinish, RecvToken, mainVars, workerVars, dqVars
  <2> QED BY <1>0, <1>8, <2>1, <2>2 DEF WorkerTypeOK, Break, RecvOutput, RecvFinish, RecvToken, mainVars, workerVars, dqVars
<1>9. ASSUME Leave \/ Join
      PROVE  WorkerTypeOK'
  <2>1. TokensIn(rx) \in Nat
    BY <1>0 DEF CountingFacts, WorkerTypeOK
  <2>2. CASE Leave
    BY <1>0, <2>2 DEF WorkerTypeOK, LocalTypeOK, Leave, mainVars, workerVars, dqVars
  <2>3. CASE Join
    <3>1. <<>> \in Seq(Message)
      OBVIOUS
    <3> QED BY <1>0, <2>1, <2>3, <3>1 DEF WorkerTypeOK, Join, mainVars, workerVars, dqVars
  <2> QED BY <1>9, <2>2, <2>3
<1>10. ASSUME NEW k \in Key, Worker(k)
       PROVE  WorkerTypeOK'
  <2>1. CASE WorkerOutput(k)
    BY <1>0, <1>1, <2>1, MessageTypes DEF WorkerTypeOK, WorkerOutput, mainVars, workerVars, dqVars
  <2>2. ASSUME NEW s \in BOOLEAN, WorkerFinish(k, s)
        PROVE  WorkerTypeOK'
    <3>1. rx' \in Seq(Message)
      BY <1>1, <2>2, MessageTypes DEF WorkerFinish, Report, mainVars, workerVars, dqVars
    <3> QED BY <1>0, <2>2, <3>1 DEF WorkerTypeOK, WorkerFinish, mainVars, workerVars, dqVars
  <2> QED BY <1>10, <2>1, <2>2 DEF Worker, mainVars, workerVars, dqVars
<1>11. ASSUME NEW k \in Key, ChildAcquire(k) \/ ChildRelease(k)
       PROVE  WorkerTypeOK'
  <2>1. avail' \in Nat /\ child' \in [Key -> Nat]
    <3>1. CASE ChildAcquire(k)
      BY <1>0, <3>1 DEF WorkerTypeOK, ChildAcquire, mainVars, workerVars, dqVars
    <3>2. CASE ChildRelease(k)
      BY <1>0, <3>2 DEF WorkerTypeOK, ChildRelease, mainVars, workerVars, dqVars
    <3> QED BY <1>11, <3>1, <3>2
  <2> QED BY <1>0, <1>11, <2>1 DEF WorkerTypeOK, ChildAcquire, ChildRelease, mainVars, workerVars, dqVars
<1>12. ASSUME Helper
       PROVE  WorkerTypeOK'
  <2>1. rx' \in Seq(Message)
    BY Zenon, <1>1, <1>12, MessageTypes DEF Helper, HelperAcquire, HelperError, mainVars, workerVars, dqVars
  <2>2. avail' \in Nat /\ requests' \in Nat
    <3>1. CASE HelperAcquire
      BY <1>0, <3>1 DEF WorkerTypeOK, HelperAcquire, mainVars, workerVars, dqVars
    <3>2. CASE HelperError
      BY <1>0, <3>2 DEF WorkerTypeOK, HelperError, mainVars, workerVars, dqVars
    <3> QED BY <1>12, <3>1, <3>2 DEF Helper, mainVars, workerVars, dqVars
  <2> QED BY Zenon, <1>0, <1>12, <2>1, <2>2 DEF WorkerTypeOK, Helper, HelperAcquire, HelperError, mainVars, workerVars, dqVars
<1>13. ASSUME Terminated
       PROVE  WorkerTypeOK'
  BY <1>0, <1>13 DEF WorkerTypeOK, Terminated, vars, mainVars, workerVars, dqVars
<1>14. IoOutcome # {}
  BY Zenon DEF IoOutcome
<1> QED BY <1>3, <1>4, <1>5, <1>6, <1>7, <1>8, <1>9, <1>10, <1>11, <1>12, <1>13, <1>14
        DEF Next, Main

--------------------------------------------------------------------------------
(* The local queue as a sequence                                           *)

LEMMA PushKey ==
  ASSUME NEW q \in Seq(JobRecord), NEW r \in JobRecord
  PROVE  /\ KeysOf(Append(q, r)) = KeysOf(q) \cup {r.key}
         /\ DistinctKeys(q) /\ r.key \notin KeysOf(q) => DistinctKeys(Append(q, r))
<1> DEFINE t == Append(q, r)
<1>1. /\ DOMAIN t = DOMAIN q \cup {Len(q) + 1}
      /\ \A i \in DOMAIN q : t[i] = q[i]
      /\ t[Len(q) + 1] = r
  OBVIOUS
<1> HIDE DEF t
<1>2. KeysOf(t) = KeysOf(q) \cup {r.key}
  BY <1>1 DEF KeysOf
<1>3. ASSUME DistinctKeys(q), r.key \notin KeysOf(q) PROVE DistinctKeys(t)
  BY <1>1, <1>3 DEF DistinctKeys, KeysOf
<1> QED BY <1>2, <1>3 DEF t

LEMMA PopKey ==
  ASSUME NEW q \in Seq(JobRecord), q # <<>>, DistinctKeys(q)
  PROVE  /\ KeysOf(Tail(q)) = KeysOf(q) \ {Head(q).key}
         /\ Head(q).key \in KeysOf(q)
         /\ DistinctKeys(Tail(q))
<1> DEFINE t == Tail(q)
<1> DEFINE h == Head(q)
<1>1. /\ \A i \in DOMAIN t : i \in Nat /\ i + 1 \in DOMAIN q /\ i + 1 # 1 /\ t[i] = q[i + 1]
      /\ \A j \in DOMAIN q : j # 1 => j - 1 \in DOMAIN t /\ t[j - 1] = q[j]
      /\ h = q[1] /\ 1 \in DOMAIN q
  BY TakeFirst
<1> HIDE DEF t, h
<1>2. KeysOf(t) \subseteq KeysOf(q)
  BY <1>1 DEF KeysOf
<1>3. \A k \in KeysOf(q) : k \in KeysOf(t) \/ k = q[1].key
  <2> SUFFICES ASSUME NEW j \in DOMAIN q, j # 1 PROVE q[j].key \in KeysOf(t)
    BY DEF KeysOf
  <2>1. j - 1 \in DOMAIN t /\ t[j - 1] = q[j]
    BY <1>1
  <2> QED BY <2>1 DEF KeysOf
<1>4. q[1].key \notin KeysOf(t) /\ q[1].key \in KeysOf(q)
  BY <1>1 DEF KeysOf, DistinctKeys
<1>5. KeysOf(t) = KeysOf(q) \ {h.key}
  BY <1>1, <1>2, <1>3, <1>4
<1>6. DistinctKeys(t)
  <2> SUFFICES ASSUME NEW i \in DOMAIN t, NEW j \in DOMAIN t, t[i].key = t[j].key
               PROVE  i = j
    BY DEF DistinctKeys
  <2>0. i + 1 \in DOMAIN q /\ j + 1 \in DOMAIN q /\ q[i + 1].key = q[j + 1].key
    BY Zenon, <1>1
  <2>1. i + 1 = j + 1 /\ i \in Nat /\ j \in Nat
    BY <1>1, <2>0 DEF DistinctKeys
  <2> QED BY <2>1
<1> QED BY <1>1, <1>4, <1>5, <1>6 DEF t, h

--------------------------------------------------------------------------------
(* Phases                                                                  *)

\* The steps of the other threads.
Others ==
  \/ \E k \in Key : Worker(k) \/ ChildAcquire(k) \/ ChildRelease(k)
  \/ Helper
  \/ Terminated

LEMMA OthersLeaveMain == Others => UNCHANGED <<dqVars, mainVars>>
BY Zenon DEF Others, Worker, WorkerOutput, WorkerFinish, ChildAcquire, ChildRelease, Helper,
   HelperAcquire, HelperError, Terminated, vars

LEMMA OthersNeedWork ==
  ASSUME JInv, Others, pc = "enqueue"
  PROVE  UNCHANGED <<running, failed, rx, requests>>
<1>1. running = {} /\ ~(requests > 0)
  BY DEF JInv, PhaseInv
<1> QED BY Zenon, <1>1 DEF Others, Worker, WorkerOutput, WorkerFinish, ChildAcquire, ChildRelease,
        Helper, HelperAcquire, HelperError, Terminated, vars, workerVars

LEMMA PhaseKept ==
  ASSUME JInv, Next
  PROVE  PhaseInv'
<1> USE DEF mainVars, workerVars, dqVars, InLoop
<1>0. PhaseInv /\ TypeOK
  BY DEF JInv
<1>1. ASSUME NEW k \in Key, NEW f \in Freshness, Enqueue(k, f)
      PROVE  PhaseInv'
  <2>1. UNCHANGED <<pc, queue, active, tokens, error, result, rx, requests, workerVars, depth>>
        /\ pc = "enqueue"
    BY <1>1 DEF Enqueue, Queue
  <2> QED BY <1>0, <2>1 DEF PhaseInv, Preparing
<1>2. ASSUME Execute
      PROVE  PhaseInv'
  <2>1. DOMAIN depth' = Queued /\ dep_map' = dep_map /\ pc = "enqueue" /\ pc' = "dequeue"
        /\ result' = result
    BY <1>2 DEF Execute, QueueFinished
  <2> QED BY <1>0, <2>1 DEF PhaseInv, Preparing, Queued
<1>3. ASSUME NEW k \in Key, DequeueJob(k)
      PROVE  PhaseInv'
  <2>1. DOMAIN dep_map' \subseteq DOMAIN dep_map /\ depth' = depth
        /\ pc = "dequeue" /\ pc' = "dequeue" /\ result' = result
    BY <1>3 DEF DequeueJob, Dequeue, Queued
  <2> QED BY Zenon, <1>0, <2>1 DEF PhaseInv, Preparing, Queued
<1>4. ASSUME DequeueNone
      PROVE  PhaseInv'
  BY <1>0, <1>4 DEF PhaseInv, Preparing, Queued, DequeueNone, Ready
<1>5. ASSUME NEW s \in BOOLEAN, NEW p \in IoOutcome, RunFresh(s, p) \/ RunDirty(p)
      PROVE  PhaseInv'
  <2>1. /\ UNCHANGED dqVars /\ pc = "spawn"
        /\ \/ pc' = "spawn" /\ result' = result
           \/ pc' = "leave" /\ result' = "Err"
    BY <1>5 DEF RunFresh, RunDirty, Proceed
  <2> QED BY <1>0, <2>1 DEF PhaseInv, Preparing, Queued, Ready
<1>6. ASSUME Block
      PROVE  PhaseInv'
  BY <1>0, <1>6 DEF PhaseInv, Preparing, Queued, Block
<1>7. ASSUME NEW p \in IoOutcome, Break(p)
      PROVE  PhaseInv'
  <2>1. UNCHANGED dqVars /\ pc = "spawn" /\ pc' = "leave" /\ result' # "none"
    BY <1>7 DEF Break
  <2> QED BY <1>0, <2>1 DEF PhaseInv, Preparing, Queued
<1>8. ASSUME NEW p \in IoOutcome, RecvOutput(p) \/ RecvFinish(p) \/ RecvToken
      PROVE  PhaseInv'
  <2>1. /\ pc = "recv"
        /\ \/ pc' = "dequeue" /\ result' = result
           \/ pc' = "leave" /\ result' = "Err"
    BY <1>8 DEF RecvOutput, RecvFinish, RecvToken, Proceed
  <2>2. DOMAIN dep_map' = DOMAIN dep_map /\ depth' = depth
    <3>1. CASE RecvFinish(p)
      BY <3>1, FinishIsClientFinish DEF ClientFinish, Finish, Queued
    <3> QED BY <1>8, <3>1 DEF RecvOutput, RecvToken
  <2> QED BY <1>0, <2>1, <2>2 DEF PhaseInv, Preparing, Queued
<1>9. ASSUME Leave \/ Join
      PROVE  PhaseInv'
  BY <1>0, <1>9 DEF PhaseInv, Preparing, Queued, Leave, Join
<1>10. ASSUME Others
       PROVE  PhaseInv'
  <2>1. UNCHANGED <<dqVars, mainVars>>
    BY <1>10, OthersLeaveMain
  <2>2. pc = "enqueue" => UNCHANGED <<running, failed, rx, requests>>
    BY <1>10, OthersNeedWork
  <2> QED BY <1>0, <2>1, <2>2 DEF PhaseInv, Preparing, Queued, Ready
<1>11. IoOutcome # {} /\ BOOLEAN # {}
  BY Zenon DEF IoOutcome
<1> QED BY <1>1, <1>2, <1>3, <1>4, <1>5, <1>6, <1>7, <1>8, <1>9, <1>10, <1>11
        DEF Next, Main, Others


--------------------------------------------------------------------------------
(* Where the pending jobs are                                              *)

LEMMA WorkKeptPreparing ==
  ASSUME JInv, (\E k \in Key, f \in Freshness : Enqueue(k, f)) \/ Execute
  PROVE  WorkInv'
<1>1. /\ pc = "enqueue" /\ Preparing /\ pending = {} /\ Finished = {} /\ Known = Queued
      /\ active = {} /\ running = {} /\ failed = {} /\ queue = <<>>
      /\ DOMAIN pendingBuild = {} /\ DOMAIN job = Queued
  BY Zenon DEF Enqueue, Execute, JInv, PhaseInv, DQInv, Finished, Known, WorkInv, Preparing, mainVars, workerVars, dqVars
<1>2. /\ UNCHANGED <<pending, pendingBuild, active, running, failed, queue>>
      /\ pc' \in {"enqueue", "dequeue"}
  BY Zenon DEF Enqueue, Execute, Queue, QueueFinished, mainVars, workerVars, dqVars
<1>3. Finished' = {} /\ DOMAIN job' = Known'
  <2>1. ASSUME NEW k \in Key, NEW f \in Freshness, Enqueue(k, f)
        PROVE  Finished' = {} /\ DOMAIN job' = Known'
    <3>1. depth' = depth /\ DOMAIN job' = Queued \cup {k} /\ DOMAIN dep_map' = Queued \cup {k}
      BY <2>1 DEF Enqueue, Queue, mainVars, workerVars, dqVars
    <3> QED BY <1>1, <3>1 DEF Preparing, Finished, Known, Queued
  <2>2. ASSUME Execute
        PROVE  Finished' = {} /\ DOMAIN job' = Known'
    <3>1. DOMAIN depth' = Queued /\ dep_map' = dep_map /\ job' = job
      BY <2>2 DEF Execute, QueueFinished, mainVars, workerVars, dqVars
    <3> QED BY <1>1, <3>1 DEF Preparing, Finished, Known, Queued
  <2> QED BY <2>1, <2>2
<1>4. Waiting = {} /\ Waiting' = {} /\ DistinctKeys(queue')
  BY SMTT(30), <1>1, <1>2 DEF Waiting, KeysOf, DistinctKeys
<1> QED BY <1>1, <1>2, <1>3, <1>4 DEF WorkInv

LEMMA WorkKeptDequeue ==
  ASSUME JInv, NEW k \in Key, DequeueJob(k)
  PROVE  WorkInv'
<1> DEFINE tf == combine(job[k], DequeueFreshness(k))
<1>0. WorkInv /\ DQInv
  BY DEF JInv
<1>1. /\ k \in Queued /\ DOMAIN dep_map' = Queued \ {k} /\ pending' = pending \cup {k}
      /\ depth' = depth /\ job' = job
      /\ pendingBuild' = [x \in DOMAIN pendingBuild \cup {k} |->
                            IF x = k THEN [amt |-> 1, fresh |-> tf] ELSE pendingBuild[x]]
      /\ queue' = Append(queue, [key |-> k, fresh |-> tf])
      /\ UNCHANGED <<pc, active, error, running, failed>>
  BY DEF DequeueJob, Dequeue, Ready, mainVars, workerVars, dqVars
<1>2. ~Preparing /\ k \in DOMAIN depth /\ k \notin pending
  BY <1>0, <1>1 DEF DequeueJob, JInv, PhaseInv, DQInv, mainVars, workerVars, dqVars
<1>3. Finished' = Finished /\ Known' = Known
  BY <1>1, <1>2 DEF Finished, Known, Preparing, Queued
<1>4. tf \in Freshness
  <2>1. k \in DOMAIN job
    BY <1>0, <1>2 DEF WorkInv, Known
  <2>2. job[k] \in Freshness
    BY <2>1 DEF JInv, TypeOK
  <2>3. DequeueFreshness(k) \in Freshness
    BY DEF DequeueFreshness, Freshness, Fresh, Dirty
  <2> QED BY <2>2, <2>3, CombineType
<1> HIDE DEF tf
<1>5. [key |-> k, fresh |-> tf] \in JobRecord /\ queue \in Seq(JobRecord)
  BY <1>4 DEF JobRecord, JInv, TypeOK
<1>6. k \notin Waiting
  BY <1>0, <1>2 DEF WorkInv
<1>7. Waiting' = Waiting \cup {k} /\ DistinctKeys(queue')
  <2>1. KeysOf(queue') = KeysOf(queue) \cup {k}
    BY <1>1, <1>5, PushKey
  <2>2. DistinctKeys(queue')
    BY <1>0, <1>1, <1>5, <1>6, PushKey DEF WorkInv, Waiting
  <2> QED BY <2>1, <2>2 DEF Waiting
<1>8. DOMAIN pendingBuild' = pending' \cup Finished'
  BY <1>0, <1>1, <1>3 DEF WorkInv
<1>9. \A x \in active' \cup Waiting' : pendingBuild'[x].amt = 1
  <2> SUFFICES ASSUME NEW x \in active \cup Waiting \cup {k}
               PROVE  pendingBuild'[x].amt = 1
    BY Zenon, <1>1, <1>7
  <2>1. CASE x = k
    BY <1>1, <2>1
  <2>2. CASE x # k
    BY <1>0, <1>1, <2>2 DEF WorkInv
  <2> QED BY <2>1, <2>2
<1> QED BY ZenonT(30), <1>0, <1>1, <1>2, <1>3, <1>6, <1>7, <1>8, <1>9 DEF WorkInv, InLoop

LEMMA WorkKeptRun ==
  ASSUME JInv, NEW s \in BOOLEAN, NEW p \in IoOutcome, RunFresh(s, p) \/ RunDirty(p)
  PROVE  WorkInv'
<1> DEFINE k == Head(queue).key
<1>0. WorkInv /\ TypeOK
  BY DEF JInv
<1>1. /\ queue # <<>> /\ queue' = Tail(queue) /\ active' = active \cup {k}
      /\ running' \subseteq running \cup {k}
      /\ failed' \subseteq failed \cup {k}
      /\ (failed' = failed \/ running' = running)
      /\ ~error /\ ~error'
      /\ UNCHANGED <<dqVars, job, pendingBuild>>
      /\ pc = "spawn"
  BY DEF RunFresh, RunDirty, MaySpawn, QueueRemoved, mainVars, workerVars, dqVars
<1>2. queue \in Seq(JobRecord) /\ DistinctKeys(queue)
  BY <1>0 DEF TypeOK, JobRecord, WorkInv
<1>3. Waiting' = Waiting \ {k} /\ k \in Waiting /\ DistinctKeys(queue')
  BY <1>1, <1>2, PopKey DEF Waiting
<1> HIDE DEF k
<1>4. Finished' = Finished /\ Known' = Known
  BY <1>1 DEF Finished, Known, Preparing, Queued, mainVars, workerVars, dqVars
<1>5. pending = active \cup Waiting
  BY <1>0, <1>1 DEF WorkInv, InLoop
<1> QED BY <1>0, <1>1, <1>3, <1>4, <1>5 DEF WorkInv, mainVars, workerVars, dqVars

LEMMA WorkKeptFinish ==
  ASSUME JInv, NEW p \in IoOutcome, RecvFinish(p)
  PROVE  WorkInv'
<1> DEFINE k == Head(rx).key
<1>0. WorkInv /\ DQInv
  BY DEF JInv
<1>1. /\ pc = "recv" /\ rx # <<>> /\ Head(rx).type = "Finish"
      /\ active' = active \ {k}
      /\ error' = (error \/ (~Head(rx).ok /\ p))
      /\ (pc' = "dequeue" /\ p) \/ pc' = "leave"
      /\ UNCHANGED <<job, queue, running, failed>>
  BY DEF RecvFinish, Proceed, mainVars, workerVars, dqVars
<1>2. /\ k \in active /\ k \in pending /\ k \notin running /\ k \in DOMAIN pendingBuild
      /\ Head(rx).ok <=> k \notin failed
  BY <1>1, HeadFinish
<1>3. Waiting' = Waiting /\ DistinctKeys(queue') /\ k \notin Waiting
  BY <1>0, <1>1, <1>2 DEF Waiting, WorkInv
<1>4. CASE Head(rx).ok /\ p
  <2>1. ClientFinish(k, pendingBuild[k].fresh)
        /\ pendingBuild' = [pendingBuild EXCEPT ![k].amt = 0]
    BY Zenon, <1>4, FinishIsClientFinish
  <2>2. pending' = pending \ {k} /\ DOMAIN dep_map' = DOMAIN dep_map /\ depth' = depth
    BY <2>1 DEF ClientFinish, Finish, Queued
  <2>3. k \in DOMAIN depth /\ k \notin Queued
    BY <1>0, <1>2 DEF DQInv
  <2>4. Finished' = Finished \cup {k} /\ Known' = Known
    BY <2>2, <2>3 DEF Finished, Known, Preparing, Queued
  <2>5. DOMAIN pendingBuild' = DOMAIN pendingBuild
        /\ \A x \in DOMAIN pendingBuild : x # k => pendingBuild'[x] = pendingBuild[x]
    BY <2>1
  <2> HIDE DEF k
  <2>6. \A x \in active' \cup Waiting' : pendingBuild'[x].amt = 1
    BY <1>0, <1>1, <1>3, <2>5 DEF WorkInv
  <2>7. InLoop' /\ ~error' => pending' = active' \cup Waiting'
    BY Zenon, <1>0, <1>1, <1>2, <1>3, <2>2 DEF WorkInv, InLoop
  <2> QED BY <1>0, <1>1, <1>2, <1>3, <1>4, <2>2, <2>4, <2>5, <2>6, <2>7 DEF WorkInv
<1>5. CASE ~(Head(rx).ok /\ p)
  <2>1. UNCHANGED <<dqVars, pendingBuild>>
    BY <1>5, FinishIsClientFinish
  <2>2. Finished' = Finished /\ Known' = Known
    BY <2>1 DEF Finished, Known, Preparing, Queued, mainVars, workerVars, dqVars
  <2>3. ~(InLoop' /\ ~error')
    BY Zenon, <1>1, <1>5 DEF InLoop
  <2> HIDE DEF k
  <2> QED BY <1>0, <1>1, <1>2, <1>3, <2>1, <2>2, <2>3 DEF WorkInv, mainVars, workerVars, dqVars
<1> QED BY <1>4, <1>5

LEMMA WorkKept ==
  ASSUME JInv, Next
  PROVE  WorkInv'
<1>0. WorkInv
  BY DEF JInv
<1>1. ASSUME NEW p \in IoOutcome,
             DequeueNone \/ Block \/ Break(p) \/ RecvOutput(p) \/ RecvToken \/ Leave \/ Join
      PROVE  WorkInv'
  <2>1. UNCHANGED <<dqVars, job, pendingBuild, queue, active, error, running, failed>>
        /\ (InLoop' => InLoop)
    BY <1>1 DEF DequeueNone, Block, Break, RecvOutput, RecvToken, Leave, Join, InLoop, mainVars, workerVars, dqVars
  <2> QED BY <1>0, <2>1 DEF WorkInv, Known, Finished, Waiting, Preparing, Queued, mainVars, workerVars, dqVars
<1>2. ASSUME Others
      PROVE  WorkInv'
  <2>1. UNCHANGED <<dqVars, mainVars>>
    BY <1>2, OthersLeaveMain
  <2>2. /\ running' \subseteq running
        /\ failed' \subseteq failed \cup (running \ running')
    BY Zenon, <1>2 DEF Others, Worker, WorkerOutput, WorkerFinish, ChildAcquire, ChildRelease, Helper,
       HelperAcquire, HelperError, Terminated, vars, mainVars, workerVars, dqVars
  <2> QED BY <1>0, <2>1, <2>2 DEF WorkInv, Known, Finished, Waiting, Preparing, Queued, InLoop, mainVars, workerVars, dqVars
<1>3. IoOutcome # {} /\ BOOLEAN # {}
  BY Zenon DEF IoOutcome
<1> QED BY <1>1, <1>2, <1>3, WorkKeptPreparing, WorkKeptDequeue, WorkKeptRun, WorkKeptFinish
        DEF Next, Main, Others, mainVars, workerVars, dqVars

--------------------------------------------------------------------------------
(* The messages under way                                                  *)

\* A Finish is sent for a job that had none under way.
LEMMA ChannelFinishSent ==
  ASSUME JInv, NEW k \in Key, NEW ok \in BOOLEAN,
         rx' = Report(k, ok),
         failed' = IF ok THEN failed ELSE failed \cup {k},
         InLoop' => InLoop, error' = error,
         InLoop => /\ k \notin Reported(rx) /\ k \notin failed
                   /\ active' = running' \cup Reported(rx) \cup {k}
                   /\ running' \cap (Reported(rx) \cup {k}) = {}
  PROVE  ChannelInv'
<1> DEFINE m == FinishMsg(k, ok)
<1> DEFINE n == Len(rx) + 1
<1>0. rx \in Seq(Message) /\ ChannelInv
  BY DEF JInv, TypeOK
<1>1. m \in Message /\ m.type = "Finish" /\ m.key = k /\ m.ok = ok
  BY DEF FinishMsg, Message
<1>2. rx' = Append(rx, m)
  BY DEF Report
<1> HIDE DEF m
<1>3. /\ DOMAIN rx' = DOMAIN rx \cup {n} /\ n \notin DOMAIN rx
      /\ \A i \in DOMAIN rx : rx'[i] = rx[i]
      /\ rx'[n] = m
      /\ FinishesIn(rx') = FinishesIn(rx) \cup {n}
      /\ Reported(rx') = Reported(rx) \cup {k}
  BY <1>0, <1>1, <1>2, SendMessage
<1>4. \A i \in FinishesIn(rx) : i \in DOMAIN rx /\ rx[i].key \in Reported(rx)
  BY DEF FinishesIn, Reported
<1> HIDE DEF n
<1>5. ASSUME InLoop PROVE \A i, j \in FinishesIn(rx') : rx'[i].key = rx'[j].key => i = j
  BY SMTT(30), <1>0, <1>1, <1>3, <1>4, <1>5 DEF ChannelInv, ActiveAccounted
<1>6. ASSUME InLoop PROVE \A i \in FinishesIn(rx') : rx'[i].ok <=> rx'[i].key \notin failed'
  <2> SUFFICES ASSUME NEW i \in FinishesIn(rx) \cup {n}
               PROVE  rx'[i].ok <=> rx'[i].key \notin failed'
    BY <1>3
  <2>1. CASE i = n
    BY <1>1, <1>3, <1>6, <2>1
  <2>2. CASE i \in FinishesIn(rx)
    <3>1. rx'[i] = rx[i] /\ rx[i].key # k /\ (rx[i].ok <=> rx[i].key \notin failed)
      BY <1>0, <1>3, <1>4, <1>6, <2>2 DEF ChannelInv
    <3> QED BY <3>1
  <2> QED BY <2>1, <2>2
<1>7. ASSUME InLoop, ~error PROVE failed' \subseteq Reported(rx')
  BY <1>0, <1>3, <1>7 DEF ChannelInv
<1>8. ~IoMayFail => \A i \in DOMAIN rx' : rx'[i].type = "Token" => rx'[i].ok
  <2>1. m.type # "Token"
    BY <1>1
  <2> QED BY <1>0, <1>3, <2>1 DEF ChannelInv
<1>9. InLoop => /\ active' = running' \cup Reported(rx')
                /\ running' \cap Reported(rx') = {}
  BY <1>3
<1> QED BY Zenon, <1>5, <1>6, <1>7, <1>8, <1>9 DEF ChannelInv, ActiveAccounted

\* Any other message is sent.
LEMMA ChannelOtherSent ==
  ASSUME JInv, NEW m \in Message, rx' = Append(rx, m), m.type # "Finish",
         ~IoMayFail => (m.type = "Token" => m.ok),
         UNCHANGED <<pc, error, active, running, failed>>
  PROVE  ChannelInv'
<1> DEFINE n == Len(rx) + 1
<1>0. rx \in Seq(Message) /\ ChannelInv
  BY DEF JInv, TypeOK
<1>1. /\ DOMAIN rx' = DOMAIN rx \cup {n} /\ n \notin DOMAIN rx
      /\ \A i \in DOMAIN rx : rx'[i] = rx[i]
      /\ rx'[n] = m
  BY SMTT(30), <1>0, SendMessage
<1>2. /\ FinishesIn(rx') = FinishesIn(rx) \cup (IF m.type = "Finish" THEN {n} ELSE {})
      /\ Reported(rx') = Reported(rx) \cup (IF m.type = "Finish" THEN {m.key} ELSE {})
  BY <1>0, SendMessage
<1>3. /\ DOMAIN rx' = DOMAIN rx \cup {n} /\ n \notin DOMAIN rx
      /\ \A i \in DOMAIN rx : rx'[i] = rx[i]
      /\ rx'[n] = m
      /\ FinishesIn(rx') = FinishesIn(rx)
      /\ Reported(rx') = Reported(rx)
  BY <1>1, <1>2
<1>4. \A i \in FinishesIn(rx) : rx'[i] = rx[i]
  BY <1>3 DEF FinishesIn
<1> HIDE DEF n
<1>5. ~IoMayFail => \A i \in DOMAIN rx' : rx'[i].type = "Token" => rx'[i].ok
  BY <1>0, <1>3 DEF ChannelInv
<1>6. InLoop => \A i \in FinishesIn(rx') : rx'[i].ok <=> rx'[i].key \notin failed'
  BY Zenon, <1>0, <1>3, <1>4 DEF ChannelInv
<1>7. ActiveAccounted'
  BY Zenon, <1>0, <1>3, <1>4 DEF ChannelInv, ActiveAccounted, InLoop
<1>8. InLoop' = InLoop
  BY DEF InLoop
<1>9. InLoop /\ ~error => failed' \subseteq Reported(rx')
  BY <1>0, <1>3 DEF ChannelInv
<1> QED BY Zenon, <1>5, <1>6, <1>7, <1>8, <1>9 DEF ChannelInv

\* The first message is received.
LEMMA ChannelReceived ==
  ASSUME JInv, pc = "recv", rx # <<>>, rx' = Tail(rx),
         IF Head(rx).type = "Finish"
         THEN active' = active \ {Head(rx).key} /\ (InLoop' /\ ~Head(rx).ok => error')
         ELSE active' = active,
         error => error',
         UNCHANGED <<running, failed>>
  PROVE  ChannelInv'
<1>0. /\ rx \in Seq(Message) /\ ChannelInv /\ InLoop /\ WorkInv
      /\ \A i, j \in FinishesIn(rx) : rx[i].key = rx[j].key => i = j
  BY DEF JInv, TypeOK, InLoop, ChannelInv, ActiveAccounted
<1>1. /\ \A i, j \in FinishesIn(rx') : rx'[i].key = rx'[j].key => i = j
      /\ Reported(rx') = IF Head(rx).type = "Finish"
                         THEN Reported(rx) \ {Head(rx).key} ELSE Reported(rx)
      /\ Head(rx).type = "Finish" => Head(rx).key \in Reported(rx)
  BY Zenon, <1>0, ReceiveReported
<1>2. \A i \in DOMAIN rx' : i + 1 \in DOMAIN rx /\ rx'[i] = rx[i + 1]
  BY <1>0, TakeFirst
<1>3. ~IoMayFail => \A i \in DOMAIN rx' : rx'[i].type = "Token" => rx'[i].ok
  BY <1>0, <1>2 DEF ChannelInv
<1>4. \A i \in FinishesIn(rx') : rx'[i].ok <=> rx'[i].key \notin failed'
  <2> SUFFICES ASSUME NEW i \in FinishesIn(rx')
               PROVE  rx'[i].ok <=> rx'[i].key \notin failed
    OBVIOUS
  <2>1. i + 1 \in FinishesIn(rx) /\ rx'[i] = rx[i + 1]
    BY Zenon, <1>2 DEF FinishesIn
  <2> QED BY Zenon, <1>0, <2>1 DEF ChannelInv
<1>5. active' = running' \cup Reported(rx') /\ running' \cap Reported(rx') = {}
  BY SMTT(30), <1>0, <1>1 DEF ChannelInv, ActiveAccounted
<1>6. InLoop' /\ ~error' => failed' \subseteq Reported(rx')
  <2>1. CASE Head(rx).type = "Finish"
    <3>1. Head(rx).ok <=> Head(rx).key \notin failed
      <4>1. Head(rx) = rx[1] /\ 1 \in FinishesIn(rx)
        BY <1>0, <2>1, TakeFirst DEF FinishesIn
      <4> QED BY <1>0, <4>1 DEF ChannelInv
    <3> QED BY <1>0, <1>1, <2>1, <3>1 DEF ChannelInv
  <2>2. CASE Head(rx).type # "Finish"
    BY <1>0, <1>1, <2>2 DEF ChannelInv
  <2> QED BY <2>1, <2>2
<1> QED BY Zenon, <1>1, <1>3, <1>4, <1>5, <1>6 DEF ChannelInv, ActiveAccounted

LEMMA ChannelKept ==
  ASSUME JInv, Next
  PROVE  ChannelInv'
<1>0. ChannelInv /\ WorkInv /\ TypeOK /\ PhaseInv
  BY DEF JInv
<1>1. ASSUME \/ (\E k \in Key, f \in Freshness : Enqueue(k, f)) \/ Execute
             \/ (\E k \in Key : DequeueJob(k) \/ ChildAcquire(k) \/ ChildRelease(k))
             \/ DequeueNone \/ Block \/ (\E p \in IoOutcome : Break(p)) \/ Leave \/ Terminated
      PROVE  ChannelInv'
  <2>1. UNCHANGED <<rx, active, running, failed, error>>
    BY Zenon, <1>1 DEF Enqueue, Execute, DequeueJob, DequeueNone, Block, Break, Leave, ChildAcquire,
       ChildRelease, Terminated, vars, mainVars, workerVars, dqVars
  <2>2. (InLoop' => InLoop) \/ (active = {} /\ running = {} /\ failed = {} /\ rx = <<>>)
    BY Zenon, <1>0, <1>1 DEF Enqueue, Execute, DequeueJob, DequeueNone, Block, Break, Leave,
       ChildAcquire, ChildRelease, Terminated, vars, InLoop, PhaseInv, mainVars, workerVars, dqVars
  <2>3. CASE InLoop' => InLoop
    BY <1>0, <2>1, <2>3 DEF ChannelInv, ActiveAccounted
  <2>4. CASE active = {} /\ running = {} /\ failed = {} /\ rx = <<>>
    <3>1. rx' = <<>> /\ FinishesIn(rx') = {} /\ DOMAIN rx' = {}
      BY <2>1, <2>4 DEF FinishesIn
    <3>2. Reported(rx') = {}
      BY <3>1 DEF Reported
    <3> QED BY <2>1, <2>4, <3>1, <3>2 DEF ChannelInv, ActiveAccounted
  <2> QED BY <2>2, <2>3, <2>4
<1>2. ASSUME NEW s \in BOOLEAN, NEW p \in IoOutcome, RunFresh(s, p)
      PROVE  ChannelInv'
  <2> DEFINE k == Head(queue).key
  <2>1. /\ k \in Key /\ k \in Waiting
    <3>1. queue \in Seq(JobRecord) /\ queue # <<>>
      BY <1>0, <1>2 DEF RunFresh, MaySpawn, TypeOK, JobRecord, mainVars, workerVars, dqVars
    <3>2. Head(queue) \in JobRecord /\ Head(queue) = queue[1] /\ 1 \in DOMAIN queue
      BY <3>1, TakeFirst
    <3> QED BY <3>2 DEF JobRecord, Waiting, KeysOf
  <2>2. /\ pc = "spawn" /\ rx' = Report(k, s) /\ active' = active \cup {k} /\ running' = running
        /\ failed' = (IF s THEN failed ELSE failed \cup {k}) /\ error' = error
    BY <1>2 DEF RunFresh, mainVars, workerVars, dqVars
  <2> HIDE DEF k
  <2>3. InLoop
    BY <2>2 DEF InLoop
  <2>4. k \notin active /\ k \notin failed /\ k \notin running
    BY <1>0, <2>1 DEF WorkInv
  <2>5. active = running \cup Reported(rx) /\ running \cap Reported(rx) = {}
    BY <1>0, <2>3 DEF ChannelInv, ActiveAccounted
  <2> QED BY <2>1, <2>2, <2>3, <2>4, <2>5, ChannelFinishSent
<1>3. ASSUME NEW p \in IoOutcome, RunDirty(p)
      PROVE  ChannelInv'
  <2> DEFINE k == Head(queue).key
  <2>1. /\ k \in Key /\ k \in Waiting
    <3>1. queue \in Seq(JobRecord) /\ queue # <<>>
      BY <1>0, <1>3 DEF RunDirty, MaySpawn, TypeOK, JobRecord, mainVars, workerVars, dqVars
    <3>2. Head(queue) \in JobRecord /\ Head(queue) = queue[1] /\ 1 \in DOMAIN queue
      BY <3>1, TakeFirst
    <3> QED BY <3>2 DEF JobRecord, Waiting, KeysOf
  <2>2. /\ pc = "spawn" /\ active' = active \cup {k} /\ running' = running \cup {k}
        /\ UNCHANGED <<rx, failed, error>>
    BY <1>3 DEF RunDirty, mainVars, workerVars, dqVars
  <2> HIDE DEF k
  <2>3. InLoop
    BY <2>2 DEF InLoop
  <2>4. k \notin active
    BY <1>0, <2>1 DEF WorkInv
  <2> QED BY <1>0, <2>2, <2>3, <2>4 DEF ChannelInv, ActiveAccounted
<1>4. ASSUME NEW p \in IoOutcome, RecvOutput(p) \/ RecvFinish(p) \/ RecvToken
      PROVE  ChannelInv'
  <2>1. /\ pc = "recv" /\ rx # <<>> /\ rx' = Tail(rx) /\ UNCHANGED <<running, failed>>
    BY <1>4 DEF RecvOutput, RecvFinish, RecvToken, mainVars, workerVars, dqVars
  <2>3. error => error'
    <3>1. CASE RecvOutput(p) \/ RecvToken
      BY Zenon, <3>1 DEF RecvOutput, RecvToken, mainVars, workerVars, dqVars
    <3>2. CASE RecvFinish(p)
      BY Zenon, <3>2 DEF RecvFinish, mainVars, workerVars, dqVars
    <3> QED BY <1>4, <3>1, <3>2
  <2>2. IF Head(rx).type = "Finish"
        THEN active' = active \ {Head(rx).key} /\ (InLoop' /\ ~Head(rx).ok => error')
        ELSE active' = active
    <3>1. CASE RecvOutput(p) \/ RecvToken
      BY <3>1 DEF RecvOutput, RecvToken, OutputMsg, mainVars, workerVars, dqVars
    <3>2. CASE RecvFinish(p)
      <4>1. /\ Head(rx).type = "Finish" /\ active' = active \ {Head(rx).key}
            /\ ~p => ~InLoop'
        BY <3>2 DEF RecvFinish, Proceed, InLoop, mainVars, workerVars, dqVars
      <4>2. error' = (error \/ (~Head(rx).ok /\ p))
        BY <3>2 DEF RecvFinish, mainVars, workerVars, dqVars
      <4> QED BY Zenon, <4>1, <4>2
    <3> QED BY <1>4, <3>1, <3>2
  <2> QED BY <2>1, <2>2, <2>3, ChannelReceived
<1>5. ASSUME Join
      PROVE  ChannelInv'
  <2>1. rx' = <<>> /\ ~InLoop'
    BY <1>5 DEF Join, InLoop, mainVars, workerVars, dqVars
  <2> QED BY <2>1 DEF ChannelInv, ActiveAccounted
<1>6. ASSUME (\E k \in Key : WorkerOutput(k)) \/ HelperAcquire \/ HelperError
      PROVE  ChannelInv'
  <2>1. UNCHANGED <<pc, error, active, running, failed>>
    BY Zenon, <1>6 DEF WorkerOutput, HelperAcquire, HelperError, mainVars, workerVars, dqVars
  <2>2. \E m \in Message : /\ rx' = Append(rx, m) /\ m.type # "Finish"
                           /\ ~IoMayFail => (m.type = "Token" => m.ok)
    BY Zenon, <1>6, MessageTypes
       DEF WorkerOutput, HelperAcquire, HelperError, OutputMsg, TokenMsg, mainVars, workerVars, dqVars
  <2> QED BY <2>1, <2>2, ChannelOtherSent
<1>7. ASSUME NEW k \in Key, NEW s \in BOOLEAN, WorkerFinish(k, s)
      PROVE  ChannelInv'
  <2>1. /\ k \in running /\ running' = running \ {k} /\ rx' = Report(k, s)
        /\ failed' = (IF s THEN failed ELSE failed \cup {k})
        /\ UNCHANGED <<pc, error, active>>
    BY <1>7 DEF WorkerFinish, mainVars, workerVars, dqVars
  <2>2. k \notin failed
    BY <1>0, <2>1 DEF WorkInv
  <2>3. InLoop => active = running \cup Reported(rx) /\ running \cap Reported(rx) = {}
    BY <1>0 DEF ChannelInv, ActiveAccounted
  <2>4. InLoop' = InLoop
    BY <2>1 DEF InLoop
  <2>5. InLoop => /\ k \notin Reported(rx) /\ k \notin failed
                  /\ active' = running' \cup Reported(rx) \cup {k}
                  /\ running' \cap (Reported(rx) \cup {k}) = {}
    BY <2>1, <2>2, <2>3
  <2> QED BY <2>1, <2>4, <2>5, ChannelFinishSent
<1>8. IoOutcome # {}
  BY Zenon DEF IoOutcome
<1> QED BY <1>1, <1>2, <1>3, <1>4, <1>5, <1>6, <1>7, <1>8 DEF Next, Main, Worker, Helper, mainVars, workerVars, dqVars

--------------------------------------------------------------------------------
(* The main thread's tokens                                                *)

LEMMA TokenKept ==
  ASSUME CountingFacts, JInv, Next
  PROVE  TokenPerJob'
<1>0. /\ TokenPerJob /\ tokens \in Nat
      /\ active \in SUBSET Key /\ Cardinality(active) \in Nat
      /\ (Cardinality(active) = 0 <=> active = {})
      /\ pc \in {"enqueue", "dequeue", "spawn", "recv", "leave", "join", "done"}
  BY ActiveFinite DEF JInv, TypeOK
<1>1. ASSUME (\E k \in Key, f \in Freshness : Enqueue(k, f)) \/ Execute
      PROVE  TokenPerJob'
  <2>1. active' = {} /\ tokens' = 0 /\ pc' # "recv"
    BY Zenon, <1>1 DEF Enqueue, Execute, JInv, PhaseInv, mainVars, workerVars, dqVars
  <2> QED BY <2>1 DEF TokenPerJob, CountingFacts
<1>2. ASSUME (\E k \in Key : DequeueJob(k)) \/ DequeueNone
      PROVE  TokenPerJob'
  <2>1. UNCHANGED <<active, tokens>> /\ pc' # "recv" /\ InLoop
    BY Zenon, <1>2 DEF DequeueJob, DequeueNone, InLoop, mainVars, workerVars, dqVars
  <2> QED BY <1>0, <2>1 DEF TokenPerJob
<1>3. ASSUME NEW s \in BOOLEAN, NEW p \in IoOutcome, RunFresh(s, p) \/ RunDirty(p)
      PROVE  TokenPerJob'
  <2> DEFINE k == Head(queue).key
  <2>1. /\ active' = active \cup {k} /\ tokens' = tokens /\ pc' # "recv"
        /\ Cardinality(active) < tokens + 1
    BY Zenon, <1>3 DEF RunFresh, RunDirty, MaySpawn, Proceed, mainVars, workerVars, dqVars
  <2>0. k \in Key
    BY <1>3, HeadQueue DEF RunFresh, RunDirty, MaySpawn, JInv, mainVars, workerVars, dqVars
  <2> HIDE DEF k
  <2>2. Cardinality(active') \in Nat /\ Cardinality(active') <= Cardinality(active) + 1
    BY <1>0, <2>1, <2>0 DEF CountingFacts
  <2> QED BY <1>0, <2>1, <2>2 DEF TokenPerJob
<1>4. ASSUME Block
      PROVE  TokenPerJob'
  <2>1. /\ active # {} /\ active' = active /\ pc = "spawn"
        /\ tokens' = IF tokens > Cardinality(active) - 1 THEN Cardinality(active) - 1 ELSE tokens
    BY <1>4 DEF Block, mainVars, workerVars, dqVars
  <2>2. Cardinality(active) <= tokens + 1
    BY <1>0, <2>1 DEF TokenPerJob, InLoop
  <2> QED BY <1>0, <2>1, <2>2 DEF TokenPerJob
<1>5. ASSUME NEW p \in IoOutcome, Break(p) \/ Leave \/ Join
      PROVE  TokenPerJob'
  BY <1>5 DEF Break, Leave, Join, TokenPerJob, InLoop, mainVars, workerVars, dqVars
<1>6. ASSUME NEW p \in IoOutcome, RecvOutput(p)
      PROVE  TokenPerJob'
  <2>1. UNCHANGED <<active, tokens>> /\ pc' # "recv" /\ pc = "recv"
    BY <1>6 DEF RecvOutput, Proceed, mainVars, workerVars, dqVars
  <2> QED BY <1>0, <2>1 DEF TokenPerJob, InLoop
<1>7. ASSUME RecvToken
      PROVE  TokenPerJob'
  <2>1. active' = active /\ (tokens' = tokens \/ tokens' = tokens + 1) /\ pc' # "recv" /\ pc = "recv"
    BY <1>7 DEF RecvToken, Proceed, mainVars, workerVars, dqVars
  <2> QED BY <1>0, <2>1 DEF TokenPerJob, InLoop
<1>8. ASSUME NEW p \in IoOutcome, RecvFinish(p)
      PROVE  TokenPerJob'
  <2> DEFINE k == Head(rx).key
  <2>1. /\ active' = active \ {k} /\ pc' # "recv" /\ pc = "recv" /\ k \in active
        /\ tokens' = (IF active' = {} THEN tokens ELSE tokens - 1)
    BY <1>8, HeadFinish DEF RecvFinish, Proceed, TokensAfter, mainVars, workerVars, dqVars
  <2> HIDE DEF k
  <2>2. Cardinality(active') = Cardinality(active) - 1
    BY <1>0, <2>1 DEF CountingFacts
  <2>3. tokens + 1 = Cardinality(active)
    BY <1>0, <2>1 DEF TokenPerJob
  <2> QED BY <1>0, <2>1, <2>2, <2>3 DEF TokenPerJob
<1>9. ASSUME Others
      PROVE  TokenPerJob'
  BY <1>0, <1>9, OthersLeaveMain DEF TokenPerJob, InLoop, mainVars, workerVars, dqVars
<1>10. IoOutcome # {}
  BY Zenon DEF IoOutcome
<1>11. (\E s \in BOOLEAN, p \in IoOutcome : RunFresh(s, p)) \/ (\E p \in IoOutcome : RunDirty(p))
       => TokenPerJob'
  BY Zenon, <1>3
<1> QED BY <1>1, <1>2, <1>11, <1>4, <1>5, <1>6, <1>7, <1>8, <1>9, <1>10 DEF Next, Main, Others, mainVars, workerVars, dqVars


================================================================================
