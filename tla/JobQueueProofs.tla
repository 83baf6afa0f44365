---------------------------- MODULE JobQueueProofs -----------------------------
(***************************************************************************)
(* The build loop is correct for every number of jobs, every job graph and *)
(* every -j: the parts of the invariant about freshness and about the      *)
(* outcome, the proof that all of it is inductive, and what follows.  The  *)
(* proofs of the dependency queue carry over: the loop is one of its       *)
(* clients.                                                                *)
(***************************************************************************)
EXTENDS JobQueueInvariance, FiniteSetTheorems, WellFoundedInduction

--------------------------------------------------------------------------------
(* Freshness                                                               *)

LEMMA FreshKeptDequeue ==
  ASSUME JInv, NEW k \in Key, DequeueJob(k)
  PROVE  FreshInv'
<1> DEFINE tf == combine(job[k], DequeueFreshness(k))
<1>0. WorkInv /\ DQInv /\ FreshInv /\ TypeOK
  BY DEF JInv
<1>1. /\ k \in Queued /\ DOMAIN dep_map' = Queued \ {k} /\ pending' = pending \cup {k}
      /\ depth' = depth /\ job' = job /\ deps' = deps /\ dep_map[k] = {}
      /\ pendingBuild' = [x \in DOMAIN pendingBuild \cup {k} |->
                            IF x = k THEN [amt |-> 1, fresh |-> tf] ELSE pendingBuild[x]]
      /\ queue' = Append(queue, [key |-> k, fresh |-> tf])
      /\ dirty' \cup {k} = dirty \cup {k}
      /\ running' = running
  BY Zenon DEF DequeueJob, Dequeue, Ready, mainVars, workerVars, dqVars
<1>2. ~Preparing /\ k \in DOMAIN depth /\ k \notin pending /\ k \notin Finished
  BY Zenon, <1>0, <1>1 DEF DequeueJob, JInv, PhaseInv, DQInv, Finished, mainVars, workerVars, dqVars
<1>3. deps[k] \subseteq Finished /\ k \notin DOMAIN pendingBuild
      /\ Finished' = Finished /\ DOMAIN pendingBuild = pending \cup Finished
  <2>1. UnbuiltExact /\ DOMAIN pendingBuild = pending \cup Finished
    BY Zenon, <1>0 DEF DQInv, WorkInv
  <2>2. dep_map[k] = deps[k] \ Finished
    BY Zenon, <1>1, <2>1 DEF UnbuiltExact
  <2>3. deps[k] \subseteq Finished
    BY Zenon, <1>1, <2>2
  <2>4. k \in Queued /\ Queued' = Queued \ {k} /\ pending' = pending \cup {k} /\ depth' = depth
    BY Zenon, <1>1 DEF Queued
  <2>5. Finished' = Finished
    BY <2>4 DEF Finished
  <2> QED BY Zenon, <1>2, <2>1, <2>3, <2>5
<1>4. ASSUME tf = Fresh
      PROVE  /\ job[k] = Fresh
             /\ \A d \in deps[k] : d \in DOMAIN pendingBuild /\ pendingBuild[d].fresh = Fresh
  <2>1. job[k] = Fresh /\ k \notin dirty
    BY <1>4 DEF combine, DequeueFreshness, Fresh, Dirty
  <2>2. \A d \in Finished : pendingBuild[d].fresh \in {Fresh, Dirty}
    BY <1>0, <1>3 DEF TypeOK, Freshness
  <2>3. \A d \in deps[k] : pendingBuild[d].fresh # Dirty
    BY <1>0, <1>2, <1>3, <2>1 DEF FreshInv
  <2> QED BY <1>3, <2>1, <2>2, <2>3
<1>5. tf \in Freshness
  <2>1. k \in DOMAIN job
    BY <1>0, <1>2 DEF WorkInv, Known
  <2>2. job[k] \in Freshness
    BY <1>0, <2>1 DEF TypeOK
  <2>3. DequeueFreshness(k) \in Freshness
    BY DEF DequeueFreshness, Freshness, Fresh, Dirty
  <2> QED BY <2>2, <2>3, CombineType
<1> HIDE DEF tf
<1>6. DOMAIN pendingBuild' = DOMAIN pendingBuild \cup {k}
      /\ pendingBuild'[k].fresh = tf
      /\ \A x \in DOMAIN pendingBuild : pendingBuild'[x] = pendingBuild[x]
  BY <1>1, <1>3
<1>7. \A x \in DOMAIN pendingBuild' :
        pendingBuild'[x].fresh = Fresh =>
          /\ job'[x] = Fresh
          /\ \A d \in deps'[x] : d \in DOMAIN pendingBuild' /\ pendingBuild'[d].fresh = Fresh
  <2> SUFFICES ASSUME NEW x \in DOMAIN pendingBuild', pendingBuild'[x].fresh = Fresh
               PROVE  /\ job[x] = Fresh
                      /\ \A d \in deps[x] : d \in DOMAIN pendingBuild /\ pendingBuild[d].fresh = Fresh
    <3>1. deps' = deps /\ job' = job
      BY Zenon, <1>1
    <3> QED BY <1>6, <3>1
  <2>1. CASE x = k
    BY <1>4, <1>6, <2>1
  <2>2. CASE x # k
    BY Zenon, <1>0, <1>6, <2>2 DEF FreshInv, FreshnessPropagates
  <2> QED BY <2>1, <2>2
<1>8. \A i \in DOMAIN queue' : queue'[i].fresh = pendingBuild'[queue'[i].key].fresh
  <2> DEFINE e == [key |-> k, fresh |-> tf]
  <2>1. e \in JobRecord /\ queue \in Seq(JobRecord) /\ e.key = k /\ e.fresh = tf
    BY <1>0, <1>5 DEF JobRecord, TypeOK
  <2>2. queue' = Append(queue, e)
    BY <1>1
  <2> HIDE DEF e
  <2>3. \A i \in DOMAIN queue' : queue'[i] = e \/ (i \in DOMAIN queue /\ queue'[i] = queue[i])
    BY <2>1, <2>2
  <2>4. \A i \in DOMAIN queue : queue[i].key \in DOMAIN pendingBuild
    BY <1>0, <1>3 DEF WorkInv, Waiting, KeysOf
  <2>5. \A i \in DOMAIN queue : queue[i].fresh = pendingBuild[queue[i].key].fresh
    BY Zenon, <1>0 DEF FreshInv, FreshnessPropagates
  <2> SUFFICES ASSUME NEW i \in DOMAIN queue'
               PROVE  queue'[i].fresh = pendingBuild'[queue'[i].key].fresh
    OBVIOUS
  <2>6. CASE queue'[i] = e
    BY Zenon, <1>6, <2>1, <2>6
  <2>7. CASE i \in DOMAIN queue /\ queue'[i] = queue[i]
    BY Zenon, <1>6, <2>4, <2>5, <2>7
  <2> QED BY Zenon, <2>3, <2>6, <2>7
<1>9. \A x \in running' : pendingBuild'[x].fresh = Dirty
  BY Zenon, <1>0, <1>1, <1>3, <1>6 DEF FreshInv, FreshnessPropagates, WorkInv
<1>10. dirty' = dirty
  BY DEF DequeueJob, Dequeue, mainVars, workerVars, dqVars
<1>11. \A d \in Finished' : pendingBuild'[d].fresh = Dirty =>
         \A r \in DOMAIN depth' : d \in deps'[r] => r \in dirty'
  BY Zenon, <1>0, <1>1, <1>3, <1>6, <1>10 DEF FreshInv
<1> QED BY <1>7, <1>8, <1>9, <1>11 DEF FreshInv, FreshnessPropagates

LEMMA FreshKeptRun ==
  ASSUME JInv, NEW s \in BOOLEAN, NEW p \in IoOutcome, RunFresh(s, p) \/ RunDirty(p)
  PROVE  FreshInv'
<1> DEFINE k == Head(queue).key
<1>0. FreshInv /\ TypeOK
  BY DEF JInv
<1>1. /\ queue # <<>> /\ queue' = Tail(queue)
      /\ UNCHANGED <<dqVars, job, pendingBuild>>
      /\ running' = running \/ (running' = running \cup {k} /\ Head(queue).fresh = Dirty)
  BY DEF RunFresh, RunDirty, MaySpawn, QueueRemoved, mainVars, workerVars, dqVars
<1>2. Head(queue) = queue[1] /\ 1 \in DOMAIN queue
  BY <1>0, <1>1, HeadQueue
<1>3. Head(queue).fresh = pendingBuild[k].fresh
  BY <1>0, <1>2 DEF FreshInv, FreshnessPropagates
<1>4. \A i \in DOMAIN queue' : i + 1 \in DOMAIN queue /\ queue'[i] = queue[i + 1]
  <2>1. queue \in Seq(JobRecord)
    BY <1>0 DEF TypeOK, JobRecord
  <2> QED BY <1>1, <2>1, TakeFirst
<1>5. \A i \in DOMAIN queue' : queue'[i].fresh = pendingBuild'[queue'[i].key].fresh
  BY <1>0, <1>1, <1>4 DEF FreshInv, FreshnessPropagates
<1>6. \A x \in running' : pendingBuild'[x].fresh = Dirty
  BY <1>0, <1>1, <1>3 DEF FreshInv, FreshnessPropagates
<1>7. Finished' = Finished
  BY <1>1 DEF Finished, Queued, mainVars, workerVars, dqVars
<1> QED BY <1>0, <1>1, <1>5, <1>6, <1>7 DEF FreshInv, FreshnessPropagates, mainVars, workerVars, dqVars

LEMMA FreshKeptFinish ==
  ASSUME JInv, NEW p \in IoOutcome, RecvFinish(p)
  PROVE  FreshInv'
<1> DEFINE k == Head(rx).key
<1> DEFINE f == pendingBuild[k].fresh
<1>0. FreshInv /\ TypeOK /\ DQInv /\ WorkInv
  BY DEF JInv
<1>1. UNCHANGED <<deps, job, queue, running>> /\ k \in pending /\ k \in DOMAIN pendingBuild
  BY HeadFinish DEF RecvFinish, mainVars, workerVars, dqVars
<1>2. CASE Head(rx).ok /\ p
  <2>1. ClientFinish(k, f) /\ pendingBuild' = [pendingBuild EXCEPT ![k].amt = 0]
    BY Zenon, <1>2, FinishIsClientFinish
  <2>2. /\ DOMAIN pendingBuild' = DOMAIN pendingBuild
        /\ \A x \in DOMAIN pendingBuild : pendingBuild'[x].fresh = pendingBuild[x].fresh
    BY <1>0, <1>1, <2>1 DEF TypeOK
  <2>3. /\ pending' = pending \ {k} /\ DOMAIN dep_map' = DOMAIN dep_map /\ depth' = depth
        /\ dirty' = IF f = Dirty THEN dirty \cup Dependents(k) ELSE dirty
    BY <2>1 DEF ClientFinish, Finish, Queued
  <2>4. k \in DOMAIN depth /\ k \notin Queued /\ k \in Key /\ ~Preparing
    BY <1>0, <1>1 DEF DQInv, DQTypeOK
  <2>5. Finished' = Finished \cup {k}
    BY <2>3, <2>4, <1>1 DEF Finished, Queued
  <2>6. Dependents(k) = {r \in DOMAIN depth : k \in deps[r]}
    BY <1>0, <2>4 DEF DQInv, Known
  <2> HIDE DEF k, f
  <2>7. \A d \in Finished' : pendingBuild'[d].fresh = Dirty =>
          \A r \in DOMAIN depth' : d \in deps'[r] => r \in dirty'
    <3> SUFFICES ASSUME NEW d \in Finished \cup {k}, pendingBuild'[d].fresh = Dirty,
                        NEW r \in DOMAIN depth, d \in deps[r]
                 PROVE  r \in dirty'
      BY <1>1, <2>3, <2>5
    <3>1. d \in DOMAIN pendingBuild
      BY <1>0, <1>1 DEF WorkInv
    <3>2. pendingBuild[d].fresh = Dirty
      BY <2>2, <3>1
    <3>3. CASE d = k
      BY <2>3, <2>6, <3>2, <3>3 DEF f
    <3>4. CASE d \in Finished
      BY <1>0, <2>3, <3>2, <3>4 DEF FreshInv
    <3> QED BY <3>3, <3>4
  <2>8. \A x \in DOMAIN pendingBuild' :
          pendingBuild'[x].fresh = Fresh =>
            /\ job'[x] = Fresh
            /\ \A d \in deps'[x] : d \in DOMAIN pendingBuild' /\ pendingBuild'[d].fresh = Fresh
    BY <1>0, <1>1, <2>2 DEF FreshInv, FreshnessPropagates
  <2>9. \A i \in DOMAIN queue' : queue'[i].fresh = pendingBuild'[queue'[i].key].fresh
    <3>1. \A i \in DOMAIN queue : queue[i].key \in DOMAIN pendingBuild
      BY <1>0 DEF WorkInv, Waiting, KeysOf
    <3> QED BY <1>0, <1>1, <2>2, <3>1 DEF FreshInv, FreshnessPropagates
  <2>10. \A x \in running' : pendingBuild'[x].fresh = Dirty
    BY <1>0, <1>1, <2>2 DEF FreshInv, FreshnessPropagates, WorkInv
  <2> QED BY <2>7, <2>8, <2>9, <2>10 DEF FreshInv, FreshnessPropagates
<1>3. CASE ~(Head(rx).ok /\ p)
  <2>1. UNCHANGED <<dqVars, pendingBuild>>
    BY <1>3, FinishIsClientFinish
  <2> QED BY <1>0, <1>1, <2>1 DEF FreshInv, FreshnessPropagates, Finished, Queued, mainVars, workerVars, dqVars
<1> QED BY <1>2, <1>3

LEMMA FreshKept ==
  ASSUME JInv, Next
  PROVE  FreshInv'
<1>0. FreshInv
  BY DEF JInv
<1>1. ASSUME (\E k \in Key, f \in Freshness : Enqueue(k, f)) \/ Execute
      PROVE  FreshInv'
  <2>1. /\ pc = "enqueue" /\ UNCHANGED <<pendingBuild, pending, queue, running>>
    BY Zenon, <1>1 DEF Enqueue, Execute, Queue, QueueFinished, mainVars, workerVars, dqVars
  <2>2. /\ running' = {} /\ queue' = <<>>
    BY <2>1 DEF JInv, PhaseInv
  <2>3. Finished = {} /\ DOMAIN pendingBuild = {}
    BY <2>1 DEF JInv, PhaseInv, DQInv, WorkInv, Finished, Preparing
  <2>4. Finished' = {}
    BY <1>1, WorkKeptPreparing, <2>1, <2>3 DEF WorkInv
  <2> QED BY <2>1, <2>2, <2>3, <2>4 DEF FreshInv, FreshnessPropagates
<1>2. ASSUME NEW p \in IoOutcome,
             DequeueNone \/ Block \/ Break(p) \/ RecvOutput(p) \/ RecvToken \/ Leave \/ Join
      PROVE  FreshInv'
  <2>1. UNCHANGED <<dqVars, job, pendingBuild, queue, running>>
    BY <1>2 DEF DequeueNone, Block, Break, RecvOutput, RecvToken, Leave, Join, mainVars, workerVars, dqVars
  <2> QED BY <1>0, <2>1 DEF FreshInv, FreshnessPropagates, Finished, Queued, mainVars, workerVars, dqVars
<1>3. ASSUME Others
      PROVE  FreshInv'
  <2>1. UNCHANGED <<dqVars, mainVars>>
    BY <1>3, OthersLeaveMain
  <2>2. running' \subseteq running
    BY Zenon, <1>3 DEF Others, Worker, WorkerOutput, WorkerFinish, ChildAcquire, ChildRelease, Helper,
       HelperAcquire, HelperError, Terminated, vars, mainVars, workerVars, dqVars
  <2> QED BY <1>0, <2>1, <2>2 DEF FreshInv, FreshnessPropagates, Finished, Queued, mainVars, workerVars, dqVars
<1>4. IoOutcome # {} /\ BOOLEAN # {}
  BY Zenon DEF IoOutcome
<1> QED BY <1>1, <1>2, <1>3, <1>4, FreshKeptDequeue, FreshKeptRun, FreshKeptFinish
        DEF Next, Main, Others, mainVars, workerVars, dqVars

--------------------------------------------------------------------------------
(* The outcome                                                             *)

\* When nothing is active, nothing can be spawned and no job has failed, everything is done.
LEMMA LoopEndsEmpty ==
  ASSUME CountingFacts, JInv, pc = "spawn", ~MaySpawn, active = {}, ~error
  PROVE  IsEmpty
<1>0. InLoop /\ tokens \in Nat /\ queue \in Seq(JobRecord)
  BY DEF InLoop, JInv, TypeOK, JobRecord
<1>1. queue = <<>>
  BY <1>0 DEF MaySpawn, CountingFacts
<1>2. pending = {}
  BY <1>0, <1>1 DEF JInv, WorkInv, Waiting, KeysOf
<1>3. Ready = {} /\ NeverStuck /\ (Preparing => Queued = {})
  BY InvNeverStuck DEF CountingFacts, JInv, PhaseInv
<1> QED BY <1>2, <1>3 DEF NeverStuck, IsEmpty

LEMMA OutcomeKept ==
  ASSUME CountingFacts, JInv, Next
  PROVE  OutcomeInv'
<1>0. OutcomeInv /\ WorkInv /\ ChannelInv /\ TypeOK
      /\ (result = "none" <=> (pc = "enqueue" \/ InLoop))
  BY DEF JInv, PhaseInv
<1>1. ASSUME (\E k \in Key, f \in Freshness : Enqueue(k, f)) \/ Execute
             \/ (\E k \in Key : DequeueJob(k)) \/ DequeueNone \/ Block
      PROVE  OutcomeInv'
  <2>1. UNCHANGED <<result, error, failed>> /\ (pc = "enqueue" \/ InLoop)
    BY Zenon, <1>1 DEF Enqueue, Execute, DequeueJob, DequeueNone, Block, InLoop, mainVars, workerVars, dqVars
  <2> QED BY <1>0, <2>1 DEF OutcomeInv, OutcomeTrue
<1>2. ASSUME NEW s \in BOOLEAN, NEW p \in IoOutcome,
             RunFresh(s, p) \/ RunDirty(p) \/ RecvOutput(p)
      PROVE  OutcomeInv'
  <2>1. /\ InLoop /\ error' = error /\ failed \subseteq failed'
        /\ result' = IF p THEN result ELSE "Err"
    BY Zenon, <1>2 DEF RunFresh, RunDirty, RecvOutput, Proceed, InLoop, mainVars, workerVars, dqVars
  <2>2. ~IoMayFail => p
    BY DEF IoOutcome
  <2> QED BY <1>0, <2>1, <2>2 DEF OutcomeInv, OutcomeTrue
<1>3. ASSUME NEW p \in IoOutcome, RecvFinish(p)
      PROVE  OutcomeInv'
  <2>1. /\ InLoop /\ failed' = failed
        /\ result' = IF p THEN result ELSE "Err"
        /\ pc = "recv" /\ rx # <<>> /\ Head(rx).type = "Finish"
    BY <1>3 DEF RecvFinish, Proceed, InLoop, mainVars, workerVars, dqVars
  <2>2. error' = (error \/ (~Head(rx).ok /\ p))
    BY <1>3 DEF RecvFinish, mainVars, workerVars, dqVars
  <2>3. Head(rx).ok <=> Head(rx).key \notin failed
    BY <2>1, HeadFinish
  <2>4. ~IoMayFail => p
    BY DEF IoOutcome
  <2>5. error' => failed' # {}
    BY Zenon, <1>0, <2>1, <2>2, <2>3 DEF OutcomeInv
  <2> QED BY <1>0, <2>1, <2>4, <2>5 DEF OutcomeInv, OutcomeTrue
<1>4. ASSUME RecvToken
      PROVE  OutcomeInv'
  <2>1. /\ InLoop /\ failed' = failed /\ error' = error
        /\ result' = IF Head(rx).ok THEN result ELSE "Err"
        /\ rx # <<>> /\ Head(rx).type = "Token"
    BY <1>4 DEF RecvToken, Proceed, InLoop, mainVars, workerVars, dqVars
  <2>2. Head(rx) = rx[1] /\ 1 \in DOMAIN rx
    BY <1>0, <2>1, TakeFirst DEF TypeOK
  <2>3. ~IoMayFail => Head(rx).ok
    BY <1>0, <2>1, <2>2 DEF ChannelInv
  <2> QED BY <1>0, <2>1, <2>3 DEF OutcomeInv, OutcomeTrue
<1>5. ASSUME NEW p \in IoOutcome, Break(p)
      PROVE  OutcomeInv'
  <2>1. /\ pc = "spawn" /\ ~MaySpawn /\ active = {}
        /\ UNCHANGED <<dqVars, error, running, failed>>
    BY <1>5 DEF Break, mainVars, workerVars, dqVars
  <2>2. running = {}
    BY <1>0, <2>1 DEF WorkInv
  <2>3. ~error => IsEmpty
    BY <2>1, LoopEndsEmpty
  <2>4. IsEmpty => failed = {}
    BY <1>0 DEF IsEmpty, WorkInv
  <2>5. error => failed # {}
    BY <1>0 DEF OutcomeInv
  <2>6. ~IoMayFail => p
    BY DEF IoOutcome
  <2>7. IsEmpty' = IsEmpty
    BY <2>1 DEF IsEmpty, Queued, mainVars, workerVars, dqVars
  <2>8. CASE IsEmpty
    <3>1. result' = IF p THEN "Ok" ELSE "Err"
      BY <1>5, <2>8 DEF Break, mainVars, workerVars, dqVars
    <3> QED BY <2>1, <2>2, <2>4, <2>5, <2>6, <2>7, <2>8, <3>1 DEF OutcomeInv, OutcomeTrue
  <2>9. CASE ~IsEmpty
    <3>1. result' = "Err"
      BY <1>5, <2>3, <2>9 DEF Break, mainVars, workerVars, dqVars
    <3> QED BY <2>1, <2>2, <2>3, <2>5, <2>9, <3>1 DEF OutcomeInv, OutcomeTrue
  <2> QED BY <2>8, <2>9
<1>6. ASSUME Leave \/ Join
      PROVE  OutcomeInv'
  <2>1. UNCHANGED <<dqVars, result, error, running, failed>>
    BY <1>6 DEF Leave, Join, mainVars, workerVars, dqVars
  <2> QED BY <1>0, <2>1 DEF OutcomeInv, OutcomeTrue, IsEmpty, Queued, mainVars, workerVars, dqVars
<1>7. ASSUME Others
      PROVE  OutcomeInv'
  <2>1. UNCHANGED <<dqVars, mainVars>>
    BY <1>7, OthersLeaveMain
  <2>2. /\ running' \subseteq running /\ failed \subseteq failed'
        /\ failed' \subseteq failed \cup running
    BY Zenon, <1>7 DEF Others, Worker, WorkerOutput, WorkerFinish, ChildAcquire, ChildRelease, Helper,
       HelperAcquire, HelperError, Terminated, vars, mainVars, workerVars, dqVars
  <2> QED BY <1>0, <2>1, <2>2 DEF OutcomeInv, OutcomeTrue, IsEmpty, Queued, mainVars, workerVars, dqVars
<1>8. IoOutcome # {} /\ BOOLEAN # {}
  BY Zenon DEF IoOutcome
<1> QED BY <1>1, <1>2, <1>3, <1>4, <1>5, <1>6, <1>7, <1>8 DEF Next, Main, Others, mainVars, workerVars, dqVars

--------------------------------------------------------------------------------
(* Init and Next                                                           *)

LEMMA JInit == Init => JInv
<1> SUFFICES ASSUME Init PROVE JInv
  OBVIOUS
<1>1. DQInv /\ DQTypeOK
  BY Zenon, InitEstablishes DEF Init, DQInv
<1>2. /\ Preparing /\ Queued = {} /\ pending = {} /\ Finished = {} /\ Known = {} /\ ~InLoop
      /\ DOMAIN rx = {} /\ DOMAIN queue = {} /\ DOMAIN depth = {}
  BY DEF Init, DQInit, New, Preparing, Queued, Finished, Known, InLoop
<1>3. TypeOK
  <2>1. Jobs - 1 \in Nat
    BY JobsAssumption
  <2>2. /\ DOMAIN job = {} /\ job \in [{} -> Freshness]
        /\ DOMAIN pendingBuild = {} /\ pendingBuild \in [{} -> [amt : Nat, fresh : Freshness]]
    BY DEF Init
  <2>3. output \in [Key -> Nat] /\ child \in [Key -> Nat]
    BY DEF Init
  <2>4. queue \in Seq([key : Key, fresh : Freshness]) /\ rx \in Seq(Message)
    BY DEF Init
  <2>5. avail \in Nat
    BY <2>1 DEF Init
  <2> QED BY Zenon, <1>1, <2>2, <2>3, <2>4, <2>5 DEF Init, TypeOK
<1>4. PhaseInv
  BY <1>2 DEF Init, PhaseInv
<1>5. WorkInv
  BY <1>2 DEF Init, WorkInv, Waiting, KeysOf, DistinctKeys
<1>6. ChannelInv /\ TokenPerJob
  BY <1>2 DEF Init, ChannelInv, ActiveAccounted, TokenPerJob
<1>7. FreshInv /\ OutcomeInv
  BY Zenon, <1>2 DEF Init, FreshInv, FreshnessPropagates, OutcomeInv, OutcomeTrue
<1> QED BY <1>1, <1>3, <1>4, <1>5, <1>6, <1>7 DEF JInv

LEMMA JStep == CountingFacts /\ JInv /\ [Next]_vars => JInv'
<1> SUFFICES ASSUME CountingFacts, JInv, [Next]_vars PROVE JInv'
  OBVIOUS
<1>1. DQInv' /\ DQTypeOK'
  BY QueueInvariantKept DEF DQInv
<1>2. CASE Next
  <2>1. TypeOK'
    BY <1>1, <1>2, LocalTypeKept, WorkerTypeKept DEF TypeOK, LocalTypeOK, WorkerTypeOK
  <2> QED BY <1>1, <1>2, <2>1, PhaseKept, WorkKept, ChannelKept, TokenKept, FreshKept, OutcomeKept
          DEF JInv
<1>3. CASE UNCHANGED vars
  <2> USE <1>3 DEF vars, mainVars, workerVars, dqVars, JInv
  <2>1. TypeOK'
    <3>1. LocalTypeOK' /\ WorkerTypeOK'
      BY TypeSplit DEF LocalTypeOK, WorkerTypeOK
    <3> QED BY Zenon, <1>1, <3>1 DEF TypeOK, LocalTypeOK, WorkerTypeOK
  <2>2. /\ Preparing' = Preparing /\ Queued' = Queued /\ Finished' = Finished /\ Known' = Known
        /\ InLoop' = InLoop /\ Ready' = Ready /\ Waiting' = Waiting /\ IsEmpty' = IsEmpty
    BY Zenon DEF Preparing, Queued, Finished, Known, InLoop, Ready, Waiting, IsEmpty
  <2>3. PhaseInv' /\ WorkInv'
    BY <2>2 DEF PhaseInv, WorkInv
  <2>4. ChannelInv' /\ TokenPerJob'
    BY Zenon, <2>2 DEF ChannelInv, ActiveAccounted, TokenPerJob
  <2>5. FreshInv' /\ OutcomeInv'
    BY Zenon, <2>2 DEF FreshInv, FreshnessPropagates, OutcomeInv, OutcomeTrue
  <2> QED BY <1>1, <2>1, <2>3, <2>4, <2>5
<1> QED BY <1>2, <1>3

--------------------------------------------------------------------------------
(* Finite sets, and the theorems                                           *)


\* A nonempty set of keys has one of least rank.
LEMMA LeastRank ==
  ASSUME NEW rank \in [Key -> Nat], NEW S \in SUBSET Key, S # {}
  PROVE  \E k \in S : \A x \in S : rank[k] <= rank[x]
<1> DEFINE T == {rank[x] : x \in S}
<1> DEFINE Less == {ss \in Nat \X Nat : ss[1] < ss[2]}
<1>1. T \subseteq Nat /\ T # {}
  OBVIOUS
<1>2. IsWellFoundedOn(Less, Nat)
  BY NatLessThanWellFounded DEF OpToRel
<1>3. PICK n \in T : \A m \in T : ~ (<<m, n>> \in Less)
  <2> HIDE DEF T, Less
  <2> QED BY <1>1, <1>2, WFMin
<1>4. \A m \in T : n <= m
  <2> SUFFICES ASSUME NEW m \in T PROVE n <= m
    OBVIOUS
  <2>1. m \in Nat /\ n \in Nat /\ ~ (<<m, n>> \in Less)
    BY <1>1, <1>3
  <2> HIDE DEF T
  <2> QED BY <2>1
<1> QED BY <1>4

LEMMA RanksHaveLeast == LeastRanked
<1> SUFFICES ASSUME NEW rank \in [Key -> 0..Cardinality(Key)], NEW S \in SUBSET Key, S # {}
             PROVE  \E k \in S : \A x \in S : ~(rank[x] < rank[k])
  BY DEF LeastRanked
<1>1. Cardinality(Key) \in Nat
  BY GraphsAssumption, FS_CardinalityType
<1>2. rank \in [Key -> Nat]
  BY <1>1
<1>3. PICK k \in S : \A x \in S : rank[k] <= rank[x]
  BY <1>2, LeastRank
<1> QED BY <1>2, <1>3

(***************************************************************************)
(* On an acyclic graph `dequeue` returns None only when keys are pending   *)
(* or everything is built.                                                 *)
(***************************************************************************)
THEOREM QueueNeverStuck == DQSpec => []NeverStuck
BY QueueInvariant, InvNeverStuck, RanksHaveLeast, PTL

--------------------------------------------------------------------------------
LEMMA TokensInType == ASSUME NEW s \in Seq(Message) PROVE TokensIn(s) \in Nat
<1> DEFINE T == {i \in DOMAIN s : s[i].type = "Token" /\ s[i].ok}
<1>1. T \in SUBSET (1..Len(s)) /\ Len(s) \in Nat
  OBVIOUS
<1>2. IsFiniteSet(1..Len(s))
  BY <1>1, FS_Interval
<1>3. IsFiniteSet(T)
  BY <1>1, <1>2, FS_Subset
<1>4. Cardinality(T) \in Nat
  BY <1>3, FS_CardinalityType
<1> QED BY <1>4 DEF TokensIn

LEMMA Counting == CountingFacts
<1>1. \A s \in Seq(Message) : TokensIn(s) \in Nat
  BY TokensInType
<1>2. \A S \in SUBSET Key : IsFiniteSet(S)
  BY GraphsAssumption, FS_Subset
<1>3. \A S \in SUBSET Key : Cardinality(S) \in Nat /\ (Cardinality(S) = 0 <=> S = {})
  BY <1>2, FS_CardinalityType, FS_EmptySet
<1>4. \A S \in SUBSET Key : \A k \in S : Cardinality(S \ {k}) = Cardinality(S) - 1
  BY <1>2, FS_RemoveElement
<1>5. \A S \in SUBSET Key : \A k \in Key : Cardinality(S \cup {k}) <= Cardinality(S) + 1
  <2> SUFFICES ASSUME NEW S \in SUBSET Key, NEW k \in Key
               PROVE  Cardinality(S \cup {k}) <= Cardinality(S) + 1
    OBVIOUS
  <2>1. Cardinality(S \cup {k}) = IF k \in S THEN Cardinality(S) ELSE Cardinality(S) + 1
    BY Zenon, <1>2, FS_AddElement
  <2>2. Cardinality(S) \in Nat
    BY <1>3
  <2> QED BY <2>1, <2>2
<1> QED BY <1>1, <1>3, <1>4, <1>5, RanksHaveLeast DEF CountingFacts

(***************************************************************************)
(* The inductive invariant of the build loop of drain_the_queue.           *)
(***************************************************************************)
THEOREM LoopInvariant == Spec => []JInv
BY JInit, JStep, Counting, PTL DEF Spec

(***************************************************************************)
(* Every variable keeps its type: the build loop never gives back a token  *)
(* that it does not hold.                                                  *)
(***************************************************************************)
THEOREM LoopTypes == Spec => []TypeOK
<1>1. JInv => TypeOK
  BY DEF JInv
<1> QED BY <1>1, LoopInvariant, PTL

(***************************************************************************)
(* The build loop uses its DependencyQueue as a client should: what holds  *)
(* of the queue for all clients holds in the build loop.                   *)
(***************************************************************************)
THEOREM LoopImplementsClient == Spec => DQSpec
<1>1. Init => DQInit
  BY DEF Init
<1>2. JInv /\ [Next]_vars => [DQNext]_dqVars
  BY StepIsClientStep
<1> QED BY <1>1, <1>2, LoopInvariant, PTL DEF Spec, DQSpec

(***************************************************************************)
(* Every active job has a running thread or exactly one Finish on the way: *)
(* drain_the_queue never blocks in recv with nobody left to wake it.       *)
(***************************************************************************)
THEOREM NobodyForgotten == Spec => []ActiveAccounted
<1>1. JInv => ActiveAccounted
  BY DEF JInv, ChannelInv
<1> QED BY <1>1, LoopInvariant, PTL

(***************************************************************************)
(* One job runs on the inherited token and every other active job has a    *)
(* token of its own, for every -j: the assertion on a Finish holds.        *)
(***************************************************************************)
THEOREM TokensSuffice == Spec => []TokenPerJob
<1>1. JInv => TokenPerJob
  BY DEF JInv
<1> QED BY <1>1, LoopInvariant, PTL

(***************************************************************************)
(* A rebuilt dependency rebuilds everything above it.                      *)
(***************************************************************************)
THEOREM DirtySpreads == Spec => []FreshnessPropagates
<1>1. JInv => FreshnessPropagates
  BY DEF JInv, FreshInv
<1> QED BY <1>1, LoopInvariant, PTL

(***************************************************************************)
(* No job starts before everything it depends on has succeeded.            *)
(***************************************************************************)
THEOREM DependenciesFirst == Spec => []RunsAfterDependencies
<1>1. JInv => RunsAfterDependencies
  <2> SUFFICES ASSUME JInv, NEW k \in active \cup running
               PROVE  deps[k] \cap (Queued \cup pending \cup failed) = {}
    BY DEF RunsAfterDependencies
  <2>1. k \in pending /\ failed \subseteq pending
    BY DEF JInv, WorkInv
  <2>2. deps[k] \subseteq Finished
    BY <2>1 DEF JInv, DQInv, BuiltInOrder
  <2> QED BY <2>1, <2>2 DEF Finished
<1> QED BY <1>1, LoopInvariant, PTL

(***************************************************************************)
(* What drain_the_queue returns is the truth about the build, and its      *)
(* internal error "finished with jobs still left in the queue" is dead     *)
(* code.                                                                   *)
(***************************************************************************)
THEOREM TruthfulOutcome == Spec => []OutcomeTrue
<1>1. JInv => OutcomeTrue
  BY DEF JInv, OutcomeInv
<1> QED BY <1>1, LoopInvariant, PTL

--------------------------------------------------------------------------------
(* What the loop does, as BuildPromise sees it                             *)

PromiseStep == [Promise!Next]_(Promise!vars)

LEMMA StartedIs == Started = (pending \cup Finished) \ Waiting
BY DEF Started, Waiting, KeysOf

\* A step that leaves what BuildPromise sees alone.
LEMMA PromiseStutter ==
  ASSUME UNCHANGED <<deps, depth, Started, Finished, failed, error, result>>
  PROVE  PromiseStep
BY DEF PromiseStep, Promise!vars

LEMMA PromisePrepare ==
  ASSUME JInv, (\E k \in Key, f \in Freshness : Enqueue(k, f)) \/ Execute
  PROVE  PromiseStep
<1>1. /\ pc = "enqueue" /\ DOMAIN depth = {} /\ pending = {} /\ queue = <<>> /\ result = "none"
      /\ Queued \subseteq Key
  BY DEF Enqueue, Execute, JInv, PhaseInv, DQInv, DQTypeOK, Preparing
<1>2. UNCHANGED <<deps, pending, queue, failed, error, result>>
  BY DEF Enqueue, Execute, Queue, QueueFinished, workerVars
<1>3. Finished = {} /\ Started = {}
  BY <1>1 DEF Finished, Started
<1>4. ASSUME NEW k \in Key, NEW f \in Freshness, Enqueue(k, f)
      PROVE  PromiseStep
  <2>1. depth' = depth
    BY <1>4 DEF Enqueue, Queue
  <2>2. Finished' = {} /\ Started' = {}
    BY <1>1, <1>2, <2>1 DEF Finished, Started
  <2> QED BY <1>2, <1>3, <2>1, <2>2, PromiseStutter
<1>5. ASSUME Execute
      PROVE  PromiseStep
  <2>1. DOMAIN depth' = Queued /\ dep_map' = dep_map /\ Closed
    BY <1>5 DEF Execute, QueueFinished
  <2>2. Finished' = {} /\ Started' = {}
    BY <1>1, <1>2, <2>1 DEF Finished, Started, Queued
  <2>3. Promise!Request(Queued)
    BY <1>1, <1>2, <1>3, <2>1, <2>2 DEF Promise!Request, Closed
  <2> QED BY <1>1, <2>3 DEF PromiseStep, Promise!Next
<1> QED BY <1>4, <1>5

LEMMA PromiseDequeue ==
  ASSUME JInv, NEW k \in Key, DequeueJob(k)
  PROVE  PromiseStep
<1> DEFINE tf == combine(job[k], DequeueFreshness(k))
<1>1. /\ k \in Queued /\ DOMAIN dep_map' = Queued \ {k} /\ pending' = pending \cup {k}
      /\ queue' = Append(queue, [key |-> k, fresh |-> tf])
      /\ UNCHANGED <<deps, depth, failed, error, result>>
  BY DEF DequeueJob, Dequeue, Ready, workerVars
<1>2. k \notin pending /\ k \notin Finished /\ Finished' = Finished
  BY <1>1 DEF JInv, DQInv, Finished, Queued
<1>3. Waiting' = Waiting \cup {k}
  <2>1. queue \in Seq(JobRecord)
    BY DEF JInv, TypeOK, JobRecord
  <2>2. [key |-> k, fresh |-> tf] \in JobRecord
    <3>1. k \in DOMAIN job
      BY <1>1 DEF JInv, WorkInv, Known, DQInv, PhaseInv
    <3>2. job[k] \in Freshness
      BY <3>1 DEF JInv, TypeOK
    <3>3. tf \in Freshness
      BY <3>2 DEF combine, DequeueFreshness, Freshness, Fresh, Dirty
    <3> HIDE DEF tf
    <3> QED BY <3>3 DEF JobRecord
  <2> HIDE DEF tf
  <2> QED BY <1>1, <2>1, <2>2, PushKey DEF Waiting
<1>4. Started' = Started
  <2>1. Started' = (pending' \cup Finished') \ Waiting'
    BY StartedIs DEF Started, Waiting, KeysOf
  <2> QED BY <1>1, <1>2, <1>3, <2>1, StartedIs
<1> QED BY <1>1, <1>2, <1>4, PromiseStutter

LEMMA PromiseRun ==
  ASSUME JInv, NEW s \in BOOLEAN, NEW p \in IoOutcome, RunFresh(s, p) \/ RunDirty(p)
  PROVE  PromiseStep
<1> DEFINE k == Head(queue).key
<1>1. /\ pc = "spawn" /\ ~error /\ queue # <<>> /\ queue' = Tail(queue)
      /\ failed' \in {failed, failed \cup {k}}
      /\ result' = (IF p THEN result ELSE "Err")
      /\ UNCHANGED <<deps, dep_map, depth, pending, error>>
  BY DEF RunFresh, RunDirty, MaySpawn, QueueRemoved, Proceed, dqVars
<1>2. Waiting' = Waiting \ {k} /\ k \in Waiting
  <2>1. queue \in Seq(JobRecord) /\ DistinctKeys(queue)
    BY DEF JInv, TypeOK, JobRecord, WorkInv
  <2> QED BY <1>1, <2>1, PopKey DEF Waiting
<1>3. k \in pending /\ k \in Key /\ k \in DOMAIN depth /\ deps[k] \subseteq Finished
  BY <1>2 DEF JInv, WorkInv, DQInv, DQTypeOK, BuiltInOrder
<1>4. Finished' = Finished
  BY <1>1 DEF Finished, Queued
<1> HIDE DEF k
<1>5. Started' = Started \cup {k} /\ k \notin Started
  <2>1. Started' = (pending' \cup Finished') \ Waiting'
    BY DEF Started, Waiting, KeysOf
  <2> QED BY <1>1, <1>2, <1>3, <1>4, <2>1, StartedIs
<1>6. result = "none" /\ (~p => IoMayFail)
  BY <1>1 DEF JInv, PhaseInv, InLoop, IoOutcome
<1>7. Promise!MayGiveUp
  BY <1>1, <1>6 DEF Promise!MayGiveUp
<1>8. Promise!Start(k)
  BY <1>1, <1>3, <1>4, <1>5, <1>7 DEF Promise!Start
<1> QED BY <1>3, <1>8 DEF PromiseStep, Promise!Next

\* The call returns because printing, or the jobserver, failed.
LEMMA PromiseGiveUp ==
  ASSUME UNCHANGED <<dqVars, queue, failed, error>>,
         result = "none", result' \in {result, "Err"}, result' = "Err" => IoMayFail
  PROVE  PromiseStep
<1>1. UNCHANGED <<deps, depth, Started, Finished, failed, error>>
  BY DEF dqVars, Started, Finished, Queued
<1>2. CASE result' = result
  BY <1>1, <1>2, PromiseStutter
<1>3. CASE result' = "Err"
  BY <1>1, <1>3 DEF Promise!Return, Promise!Next, PromiseStep
<1> QED BY <1>2, <1>3

LEMMA PromiseFinish ==
  ASSUME JInv, NEW p \in IoOutcome, RecvFinish(p)
  PROVE  PromiseStep
<1> DEFINE k == Head(rx).key
<1>1. /\ pc = "recv" /\ rx # <<>> /\ Head(rx).type = "Finish"
      /\ error' = (error \/ (~Head(rx).ok /\ p))
      /\ result' = (IF p THEN result ELSE "Err")
      /\ UNCHANGED <<queue, failed>>
  BY DEF RecvFinish, Proceed, workerVars
<1>2. result = "none" /\ (~p => IoMayFail) /\ error \in BOOLEAN /\ p \in BOOLEAN
  BY <1>1 DEF JInv, PhaseInv, InLoop, IoOutcome, TypeOK
<1>3. k \in active /\ k \in pending /\ k \in Key /\ (Head(rx).ok <=> k \notin failed)
      /\ Head(rx).ok \in BOOLEAN
  BY <1>1, HeadFinish
<1>4. CASE Head(rx).ok /\ p
  <2>1. ClientFinish(k, pendingBuild[k].fresh)
    BY <1>4, FinishIsClientFinish
  <2>2. /\ pending' = pending \ {k} /\ DOMAIN dep_map' = Queued
        /\ UNCHANGED <<deps, depth>>
    BY <2>1 DEF ClientFinish, Finish
  <2>3. k \in DOMAIN depth /\ k \notin Queued /\ k \notin Finished
    BY <1>3 DEF JInv, DQInv, Finished
  <2>4. k \notin Waiting /\ Waiting' = Waiting
    BY <1>1, <1>3 DEF JInv, WorkInv, Waiting
  <2> HIDE DEF k
  <2>5. Finished' = Finished \cup {k}
    BY <2>2, <2>3 DEF Finished, Queued
  <2>6. Started' = Started /\ k \in Started
    <3>1. Started' = (pending' \cup Finished') \ Waiting'
      BY DEF Started, Waiting, KeysOf
    <3> QED BY <1>3, <2>2, <2>4, <2>5, <3>1, StartedIs
  <2>7. error' = error /\ result' = result
    BY <1>1, <1>2, <1>4
  <2>8. Promise!Succeed(k)
    BY <1>1, <1>2, <1>3, <1>4, <2>2, <2>3, <2>5, <2>6, <2>7
       DEF Promise!Succeed, Promise!Unfinished
  <2> QED BY <1>3, <2>8 DEF PromiseStep, Promise!Next
<1>5. CASE ~(Head(rx).ok /\ p)
  <2>1. UNCHANGED dqVars
    BY <1>5, FinishIsClientFinish
  <2>2. CASE p
    <3>1. UNCHANGED <<deps, depth, Started, Finished, failed, result>>
      BY <1>1, <2>1, <2>2 DEF dqVars, Started, Finished, Queued
    <3>2. failed # {} /\ error' = TRUE
      BY <1>1, <1>2, <1>3, <1>5, <2>2
    <3> QED BY <1>2, <3>1, <3>2 DEF Promise!Notice, Promise!Next, PromiseStep
  <2>3. CASE ~p
    BY <1>1, <1>2, <2>1, <2>3, PromiseGiveUp
  <2> QED BY <2>2, <2>3
<1> QED BY <1>4, <1>5

LEMMA PromiseReturn ==
  ASSUME CountingFacts, JInv, NEW p \in IoOutcome, Break(p)
  PROVE  PromiseStep
<1>1. /\ pc = "spawn" /\ ~MaySpawn /\ active = {}
      /\ UNCHANGED <<dqVars, queue, failed, error>>
      /\ result' = (CASE IsEmpty  -> IF p THEN "Ok" ELSE "Err"
                       [] ~IsEmpty /\ error -> "Err"
                       [] ~IsEmpty /\ ~error -> "Internal")
  BY DEF Break, workerVars
<1>2. UNCHANGED <<deps, depth, Started, Finished>>
  BY <1>1 DEF dqVars, Started, Finished, Queued
<1>3. result = "none" /\ (~p => IoMayFail) /\ (error => failed # {})
  BY <1>1 DEF JInv, PhaseInv, InLoop, IoOutcome, OutcomeInv
<1>4. IsEmpty => Finished = DOMAIN depth /\ failed = {}
  BY DEF IsEmpty, Finished, JInv, WorkInv
<1>5. ~error => IsEmpty
  BY <1>1, LoopEndsEmpty
<1>6. Promise!Return
  <2>1. CASE IsEmpty
    BY <1>1, <1>2, <1>3, <1>4, <2>1 DEF Promise!Return
  <2>2. CASE ~IsEmpty
    BY <1>1, <1>2, <1>3, <1>5, <2>2 DEF Promise!Return
  <2> QED BY <2>1, <2>2
<1> QED BY <1>6 DEF PromiseStep, Promise!Next

LEMMA PromiseOthers ==
  ASSUME JInv, Others
  PROVE  PromiseStep
<1>1. UNCHANGED <<deps, depth, Started, Finished, error, result>>
  <2>1. UNCHANGED <<dqVars, mainVars>>
    BY OthersLeaveMain
  <2> QED BY <2>1 DEF dqVars, mainVars, Started, Finished, Queued
<1>2. failed' = failed \/ \E k \in running : failed' = failed \cup {k}
  BY Zenon DEF Others, Worker, WorkerOutput, WorkerFinish, ChildAcquire, ChildRelease, Helper,
     HelperAcquire, HelperError, Terminated, vars, workerVars
<1>3. CASE failed' = failed
  BY <1>1, <1>3, PromiseStutter
<1>4. ASSUME NEW k \in running, failed' = failed \cup {k}
      PROVE  PromiseStep
  <2>1. k \in pending /\ k \notin failed /\ k \notin Waiting /\ k \in Key
    BY DEF JInv, WorkInv, TypeOK
  <2>2. k \in Started /\ k \notin Finished
    BY <2>1, StartedIs DEF Finished
  <2>3. Promise!Fail(k)
    BY <1>1, <1>4, <2>1, <2>2 DEF Promise!Fail, Promise!Unfinished
  <2> QED BY <2>1, <2>3 DEF PromiseStep, Promise!Next
<1> QED BY <1>2, <1>3, <1>4

LEMMA StepIsPromised ==
  ASSUME CountingFacts, JInv, [Next]_vars
  PROVE  PromiseStep
<1>1. ASSUME DequeueNone \/ Block \/ Leave \/ Join \/ UNCHANGED vars
      PROVE  PromiseStep
  <2>1. UNCHANGED <<deps, dep_map, depth, pending, queue, failed, error, result>>
    BY Zenon, <1>1 DEF DequeueNone, Block, Leave, Join, vars, dqVars, mainVars, workerVars
  <2>2. UNCHANGED <<Started, Finished>>
    BY <2>1 DEF Started, Finished, Queued
  <2> QED BY <2>1, <2>2, PromiseStutter
<1>2. ASSUME NEW p \in IoOutcome, RecvOutput(p)
      PROVE  PromiseStep
  <2>1. /\ UNCHANGED <<dqVars, queue, failed, error>>
        /\ pc = "recv" /\ result' = (IF p THEN result ELSE "Err")
    BY <1>2 DEF RecvOutput, Proceed, workerVars
  <2>2. result = "none" /\ (~p => IoMayFail)
    BY <2>1 DEF JInv, PhaseInv, InLoop, IoOutcome
  <2> QED BY <2>1, <2>2, PromiseGiveUp
<1>3. ASSUME RecvToken
      PROVE  PromiseStep
  <2>1. /\ UNCHANGED <<dqVars, queue, failed, error>>
        /\ pc = "recv" /\ rx # <<>> /\ Head(rx).type = "Token"
        /\ result' = (IF Head(rx).ok THEN result ELSE "Err")
    BY <1>3 DEF RecvToken, Proceed, workerVars
  <2>2. result = "none" /\ rx \in Seq(Message)
    BY <2>1 DEF JInv, PhaseInv, InLoop, TypeOK
  <2>3. ~IoMayFail => Head(rx).ok
    <3>1. Head(rx) = rx[1] /\ 1 \in DOMAIN rx
      BY <2>1, <2>2, TakeFirst
    <3> QED BY <2>1, <3>1 DEF JInv, ChannelInv
  <2> QED BY <2>1, <2>2, <2>3, PromiseGiveUp
<1>4. IoOutcome # {} /\ BOOLEAN # {}
  BY Zenon DEF IoOutcome
<1> QED BY <1>1, <1>2, <1>3, <1>4, PromisePrepare, PromiseDequeue, PromiseRun, PromiseFinish,
           PromiseReturn, PromiseOthers
        DEF Next, Main, Others

(***************************************************************************)
(* The build loop, with all its threads and tokens, keeps the promise of   *)
(* BuildPromise: jobs in dependency order, each once, none after a failure *)
(* was seen or the call has returned, and a truthful outcome.              *)
(***************************************************************************)
THEOREM LoopKeepsPromise == Spec => KeepsPromise
<1>1. Init => Promise!Init
  <2> SUFFICES ASSUME Init PROVE Promise!Init
    OBVIOUS
  <2>1. DOMAIN depth = {} /\ pending = {} /\ queue = <<>>
    BY DEF Init, DQInit, New
  <2>2. Finished = {} /\ Started = {}
    BY <2>1 DEF Finished, Started
  <2> QED BY <2>1, <2>2 DEF Promise!Init, Init, DQInit
<1>2. JInv /\ [Next]_vars => [Promise!Next]_(Promise!vars)
  BY Counting, StepIsPromised DEF PromiseStep
<1> QED BY <1>1, <1>2, LoopInvariant, PTL DEF Spec, KeepsPromise, Promise!Spec

(***************************************************************************)
(* After a job is seen to fail, no other is started.                       *)
(***************************************************************************)
THEOREM NothingAfterError == Spec => NoJobAfterError
<1>1. [Next]_vars => [error => active' \subseteq active]_vars
  <2> SUFFICES ASSUME Next, error PROVE active' \subseteq active
    OBVIOUS
  <2>1. CASE Others
    BY <2>1, OthersLeaveMain DEF mainVars
  <2>2. CASE Main
    BY Zenon, <2>2 DEF Main, Enqueue, Execute, DequeueJob, DequeueNone, RunFresh, RunDirty, MaySpawn,
       Block, Break, RecvOutput, RecvFinish, RecvToken, Leave, Join
  <2> QED BY <2>1, <2>2 DEF Next, Others
<1> QED BY <1>1, PTL DEF Spec, NoJobAfterError
================================================================================
