------------------------------- MODULE JobQueue --------------------------------
(***************************************************************************)
(* The parallel build loop of core/compiler/job_queue.rs on top of the     *)
(* DependencyQueue: the main thread dequeues what is ready, spawns a       *)
(* worker per job as far as its jobserver tokens allow, and reacts to the  *)
(* messages that the workers and the jobserver's helper thread send on one *)
(* channel.                                                                *)
(*                                                                         *)
(* The main thread is split at every point where another thread's step     *)
(* can come in between; `pc` is where it stands.  Fresh jobs run on the    *)
(* main thread itself.  A worker is a rustc (or build script) process that *)
(* shares the same jobserver.  Printing is left out, but that it may fail  *)
(* and make the loop return early (`?`) is not.                            *)
(***************************************************************************)
EXTENDS DependencyQueue, Sequences

CONSTANTS
  Jobs,        \* -j: the jobserver holds Jobs - 1 tokens
  IoMayFail,   \* whether writing to the shell and acquiring tokens may fail
  MaxOutput    \* bound on the output messages of one job

ASSUME JobsAssumption ==
  /\ Jobs \in Nat \ {0}
  /\ IoMayFail \in BOOLEAN
  /\ MaxOutput \in Nat

VARIABLES
  pc,            \* where the main thread is
  job,           \* queued key -> the freshness its own fingerprint gave it
  pendingBuild,  \* JobQueue.pending: dequeued key -> PendingBuild
  queue,         \* the local queue of drain_the_queue
  active,        \* JobQueue.active; a Vec without duplicates
  tokens,        \* number of tokens held by the main thread
  rx,            \* the channel
  error,         \* the local `error` is Some
  result,        \* what drain_the_queue returned
  running,       \* keys whose worker thread is running
  output,        \* key -> messages its worker has sent so far
  requests,      \* token requests the helper thread has not served yet
  avail,         \* tokens in the jobserver's pipe
  child,         \* key -> tokens held by its worker's process
  failed         \* keys whose job failed

mainVars == <<pc, job, pendingBuild, queue, active, tokens, error, result>>
workerVars == <<running, output, child, failed>>
vars == <<dqVars, mainVars, workerVars, rx, requests, avail>>

FinishMsg(k, ok) == [type |-> "Finish", key |-> k, ok |-> ok]
TokenMsg(ok) == [type |-> "Token", ok |-> ok]
\* Run, BuildPlanMsg, Stdout, Stderr and FixDiagnostic only print.
OutputMsg == [type |-> "Output"]

Message ==
  [type : {"Finish"}, key : Key, ok : BOOLEAN]
    \cup [type : {"Token"}, ok : BOOLEAN] \cup {OutputMsg}

IoOutcome == IF IoMayFail THEN BOOLEAN ELSE {TRUE}

Init ==
  /\ DQInit
  /\ pc = "enqueue"
  /\ job = [k \in {} |-> Fresh]
  /\ pendingBuild = [k \in {} |-> [amt |-> 0, fresh |-> Fresh]]
  /\ queue = <<>>
  /\ active = {}
  /\ tokens = 0
  /\ rx = <<>>
  /\ error = FALSE
  /\ result = "none"
  /\ running = {}
  /\ output = [k \in Key |-> 0]
  /\ requests = 0
  /\ avail = Jobs - 1
  /\ child = [k \in Key |-> 0]
  /\ failed = {}

--------------------------------------------------------------------------------
(* The main thread                                                         *)

\* The caller (`compile`) enqueues each unit of the graph once.
Enqueue(k, fresh) ==
  /\ pc = "enqueue"
  /\ k \notin Queued
  /\ Queue(Fresh, k, deps[k])
  /\ job' = [x \in Queued \cup {k} |-> IF x = k THEN fresh ELSE job[x]]
  /\ UNCHANGED <<deps, pc, pendingBuild, queue, active, tokens, error, result>>
  /\ UNCHANGED <<workerVars, rx, requests, avail>>

Execute ==
  /\ pc = "enqueue"
  /\ Closed
  /\ QueueFinished
  /\ pc' = "dequeue"
  /\ UNCHANGED <<deps, job, pendingBuild, queue, active, tokens, error, result>>
  /\ UNCHANGED <<workerVars, rx, requests, avail>>

\* Evaluated after the job has been pushed onto the local queue.
NeedsToken == active # {} \/ queue' # <<>>

\* One turn of `while let Some((fresh, key, jobs)) = self.queue.dequeue()`.
DequeueJob(k) ==
  LET total_fresh == combine(job[k], DequeueFreshness(k)) IN
  /\ pc = "dequeue"
  /\ Dequeue(k)
  /\ pendingBuild' = [x \in DOMAIN pendingBuild \cup {k} |->
                        IF x = k THEN [amt |-> 1, fresh |-> total_fresh]
                                 ELSE pendingBuild[x]]
  /\ queue' = Append(queue, [key |-> k, fresh |-> total_fresh])
  /\ requests' = IF NeedsToken THEN requests + 1 ELSE requests
  /\ UNCHANGED <<deps, pc, job, active, tokens, error, result>>
  /\ UNCHANGED <<workerVars, rx, avail>>

DequeueNone ==
  /\ pc = "dequeue"
  /\ Ready = {}
  /\ pc' = "spawn"
  /\ UNCHANGED <<dqVars, job, pendingBuild, queue, active, tokens, error, result>>
  /\ UNCHANGED <<workerVars, rx, requests, avail>>

MaySpawn == ~error /\ Cardinality(active) < tokens + 1 /\ queue # <<>>

\* Go on at `next`, or return the error that printing caused.
Proceed(ok, next) ==
  /\ pc' = IF ok THEN next ELSE "leave"
  /\ result' = IF ok THEN result ELSE "Err"

\* The last thing `doit` does: my_tx.send(Message::Finish(key, res)).
Report(k, success) == Append(rx, FinishMsg(k, success))

\* queue.remove(0)
QueueRemoved == Tail(queue)

\* `run` of a fresh job: doit() is called on the main thread.
RunFresh(success, printed) ==
  LET k == Head(queue).key IN
  /\ pc = "spawn"
  /\ MaySpawn
  /\ Head(queue).fresh = Fresh
  /\ queue' = QueueRemoved
  /\ active' = active \cup {k}
  /\ rx' = Report(k, success)
  /\ failed' = IF success THEN failed ELSE failed \cup {k}
  /\ Proceed(printed, "spawn")
  /\ UNCHANGED <<dqVars, job, pendingBuild, tokens, error>>
  /\ UNCHANGED <<running, output, child, requests, avail>>

\* `run` of a dirty job: doit is spawned in the scope.
RunDirty(printed) ==
  LET k == Head(queue).key IN
  /\ pc = "spawn"
  /\ MaySpawn
  /\ Head(queue).fresh = Dirty
  /\ queue' = QueueRemoved
  /\ active' = active \cup {k}
  /\ running' = running \cup {k}
  /\ Proceed(printed, "spawn")
  /\ UNCHANGED <<dqVars, job, pendingBuild, tokens, error>>
  /\ UNCHANGED <<output, child, failed, rx, requests, avail>>

BlockOnlyWhenIdle ==
  /\ pc = "spawn"
  /\ ~MaySpawn
  /\ active # {}
  /\ tokens' = IF tokens > Cardinality(active) - 1 THEN Cardinality(active) - 1 ELSE tokens
  /\ avail' = avail + (tokens - tokens')
  /\ pc' = IF queue = <<>> THEN "recv" ELSE "dequeue"
  /\ UNCHANGED <<dqVars, job, pendingBuild, queue, active, error, result>>
  /\ UNCHANGED <<workerVars, rx, requests>>

\* Nothing more to spawn: give back the excess tokens and block in recv.
Block ==
  /\ pc = "spawn"
  /\ ~MaySpawn
  /\ active # {}
  /\ tokens' = IF tokens > Cardinality(active) - 1 THEN Cardinality(active) - 1 ELSE tokens
  /\ avail' = avail + (tokens - tokens')
  /\ pc' = "recv"
  /\ UNCHANGED <<dqVars, job, pendingBuild, queue, active, error, result>>
  /\ UNCHANGED <<workerVars, rx, requests>>

\* Nothing is running: leave the loop with the outcome of the build.
Break(printed) ==
  /\ pc = "spawn"
  /\ ~MaySpawn
  /\ active = {}
  /\ pc' = "leave"
  /\ result' = CASE IsEmpty  -> IF printed THEN "Ok" ELSE "Err"
                 [] ~IsEmpty /\ error -> "Err"
                 [] ~IsEmpty /\ ~error -> "Internal"
  /\ UNCHANGED <<dqVars, job, pendingBuild, queue, active, tokens, error>>
  /\ UNCHANGED <<workerVars, rx, requests, avail>>

RecvOutput(printed) ==
  /\ pc = "recv"
  /\ rx # <<>> /\ Head(rx) = OutputMsg
  /\ rx' = Tail(rx)
  /\ Proceed(printed, "dequeue")
  /\ UNCHANGED <<dqVars, job, pendingBuild, queue, active, tokens, error>>
  /\ UNCHANGED <<workerVars, requests, avail>>

FinishJobPendingOnly(k) ==
  /\ pendingBuild' = [pendingBuild EXCEPT ![k].amt = @ - 1]
  /\ pending' = pending \ {k}
  /\ UNCHANGED <<dep_map, reverse_dep_map, dirty, depth>>

\* JobQueue::finish; warnings that cannot be printed come before it.
FinishJob(k) ==
  LET amt == pendingBuild[k].amt - 1 IN
  /\ pendingBuild' = [pendingBuild EXCEPT ![k].amt = amt]
  /\ IF amt = 0 THEN Finish(k, pendingBuild[k].fresh) ELSE UNCHANGED queueVars

TokensAfterNeverPop(remaining) == tokens

\* The finished job's token is given back unless it was the last job.
TokensAfter(remaining) == IF remaining = {} THEN tokens ELSE tokens - 1

RecvFinish(printed) ==
  LET k == Head(rx).key IN
  /\ pc = "recv"
  /\ rx # <<>> /\ Head(rx).type = "Finish"
  /\ rx' = Tail(rx)
  /\ active' = active \ {k}
  /\ tokens' = TokensAfter(active')
  /\ avail' = IF active' = {} THEN avail ELSE avail + 1
  /\ IF Head(rx).ok /\ printed
     THEN FinishJob(k)
     ELSE UNCHANGED <<queueVars, pendingBuild>>
  /\ error' = (error \/ (~Head(rx).ok /\ printed))
  /\ Proceed(printed, "dequeue")
  /\ UNCHANGED <<deps, job, queue, workerVars, requests>>

RecvToken ==
  LET acquired == Head(rx).ok IN
  /\ pc = "recv"
  /\ rx # <<>> /\ Head(rx).type = "Token"
  /\ rx' = Tail(rx)
  /\ tokens' = IF acquired THEN tokens + 1 ELSE tokens
  /\ Proceed(acquired, "dequeue")
  /\ UNCHANGED <<dqVars, job, pendingBuild, queue, active, error>>
  /\ UNCHANGED <<workerVars, requests, avail>>

\* drain_the_queue returns and drops its tokens.
Leave ==
  /\ pc = "leave"
  /\ tokens' = 0
  /\ avail' = avail + tokens
  /\ pc' = "join"
  /\ UNCHANGED <<dqVars, job, pendingBuild, queue, active, error, result>>
  /\ UNCHANGED <<workerVars, rx, requests>>

TokensIn(s) == Cardinality({i \in DOMAIN s : s[i].type = "Token" /\ s[i].ok})

\* The scope has joined the workers; the helper thread and the channel go.
Join ==
  /\ pc = "join"
  /\ running = {}
  /\ requests' = 0
  /\ rx' = <<>>
  /\ avail' = avail + TokensIn(rx)
  /\ pc' = "done"
  /\ UNCHANGED <<dqVars, job, pendingBuild, queue, active, tokens, error, result>>
  /\ UNCHANGED workerVars

--------------------------------------------------------------------------------
(* Workers, their processes, and the helper thread                         *)

WorkerOutput(k) ==
  /\ k \in running
  /\ output[k] < MaxOutput
  /\ output' = [output EXCEPT ![k] = @ + 1]
  /\ rx' = Append(rx, OutputMsg)
  /\ UNCHANGED <<dqVars, mainVars, running, child, failed, requests, avail>>

\* The process ends, giving back the tokens it took, and the thread reports.
WorkerFinish(k, success) ==
  /\ k \in running
  /\ running' = running \ {k}
  /\ child' = [child EXCEPT ![k] = 0]
  /\ avail' = avail + child[k]
  /\ failed' = IF success THEN failed ELSE failed \cup {k}
  /\ rx' = Report(k, success)
  /\ UNCHANGED <<dqVars, mainVars, output, requests>>

\* rustc takes more tokens for its code generation threads.
ChildAcquire(k) ==
  /\ k \in running
  /\ avail > 0
  /\ avail' = avail - 1
  /\ child' = [child EXCEPT ![k] = @ + 1]
  /\ UNCHANGED <<dqVars, mainVars, running, output, failed, rx, requests>>

ChildRelease(k) ==
  /\ child[k] > 0
  /\ avail' = avail + 1
  /\ child' = [child EXCEPT ![k] = @ - 1]
  /\ UNCHANGED <<dqVars, mainVars, running, output, failed, rx, requests>>

\* The helper thread serves one request with one blocking acquire.
HelperAcquire ==
  /\ requests > 0
  /\ avail > 0
  /\ requests' = requests - 1
  /\ avail' = avail - 1
  /\ rx' = Append(rx, TokenMsg(TRUE))
  /\ UNCHANGED <<dqVars, mainVars, workerVars>>

HelperError ==
  /\ IoMayFail
  /\ requests > 0
  /\ requests' = requests - 1
  /\ rx' = Append(rx, TokenMsg(FALSE))
  /\ UNCHANGED <<dqVars, mainVars, workerVars, avail>>

--------------------------------------------------------------------------------
Main ==
  \/ \E k \in Key, f \in Freshness : Enqueue(k, f)
  \/ Execute
  \/ \E k \in Key : DequeueJob(k)
  \/ DequeueNone
  \/ \E s \in BOOLEAN, p \in IoOutcome : RunFresh(s, p)
  \/ \E p \in IoOutcome : RunDirty(p)
  \/ Block
  \/ \E p \in IoOutcome : Break(p)
  \/ \E p \in IoOutcome : RecvOutput(p)
  \/ \E p \in IoOutcome : RecvFinish(p)
  \/ RecvToken
  \/ Leave
  \/ Join

Worker(k) == WorkerOutput(k) \/ (\E s \in BOOLEAN : WorkerFinish(k, s))

Helper == HelperAcquire \/ HelperError

Terminated == pc = "done" /\ UNCHANGED vars

Next ==
  \/ Main
  \/ \E k \in Key : Worker(k) \/ ChildAcquire(k) \/ ChildRelease(k)
  \/ Helper
  \/ Terminated

Spec == Init /\ [][Next]_vars

(***************************************************************************)
(* The main thread is scheduled and every job's process ends.  Nothing is  *)
(* assumed of the helper thread: the first job needs no token.             *)
(***************************************************************************)
Fairness ==
  /\ WF_vars(Main)
  /\ \A k \in Key : WF_vars(\E s \in BOOLEAN : WorkerFinish(k, s))

FairSpec == Spec /\ Fairness
--------------------------------------------------------------------------------
TypeOK ==
  /\ DQTypeOK
  /\ pc \in {"enqueue", "dequeue", "spawn", "recv", "leave", "join", "done"}
  /\ DOMAIN job \subseteq Key /\ job \in [DOMAIN job -> Freshness]
  /\ DOMAIN pendingBuild \subseteq Key
  /\ pendingBuild \in [DOMAIN pendingBuild -> [amt : Nat, fresh : Freshness]]
  /\ queue \in Seq([key : Key, fresh : Freshness])
  /\ active \subseteq Key
  /\ tokens \in Nat
  /\ rx \in Seq(Message)
  /\ error \in BOOLEAN
  /\ result \in {"none", "Ok", "Err", "Internal"}
  /\ running \subseteq Key
  /\ output \in [Key -> Nat]
  /\ requests \in Nat
  /\ avail \in Nat
  /\ child \in [Key -> Nat]
  /\ failed \subseteq Key

InLoop == pc \in {"dequeue", "spawn", "recv"}

FinishesIn(s) == {i \in DOMAIN s : s[i].type = "Finish"}
Reported(s) == {s[i].key : i \in FinishesIn(s)}

(***************************************************************************)
(* A job is active exactly while its thread runs or its one Finish message *)
(* is on the way.  So recv is never entered with nobody left to wake it,   *)
(* and no "unrecorded package has finished compiling".                     *)
(***************************************************************************)
ActiveAccounted ==
  InLoop =>
    /\ active = running \cup Reported(rx)
    /\ running \cap Reported(rx) = {}
    /\ \A i, j \in FinishesIn(rx) : rx[i].key = rx[j].key => i = j

(***************************************************************************)
(* The main thread runs one job on the token it inherited and holds one    *)
(* token for each other active job; when it blocks it holds no more than   *)
(* that.  This is why `assert!(!tokens.is_empty())` holds on a Finish.     *)
(***************************************************************************)
TokenPerJob ==
  /\ InLoop => Cardinality(active) <= tokens + 1
  /\ pc = "recv" => tokens + 1 = Cardinality(active)

(***************************************************************************)
(* No token is lost or made up, whichever way the loop is left; when the   *)
(* build is over all of them are back in the jobserver.  While the loop    *)
(* runs, the workers and the threads their processes took tokens for are   *)
(* never more than -j allows.  When the main thread blocks, each job that  *)
(* waits for a token has a request of its own still to be answered.        *)
(***************************************************************************)
TokensConserved ==
  /\ avail + tokens + TokensIn(rx) + MapThenSumSet(LAMBDA k : child[k], Key) = Jobs - 1
  /\ pc = "done" => avail = Jobs - 1
  /\ InLoop => Cardinality(running) + MapThenSumSet(LAMBDA k : child[k], Key) <= Jobs
  /\ pc = "recv" /\ ~error =>
       Len(queue) <= requests + Cardinality({i \in DOMAIN rx : rx[i].type = "Token"})

(***************************************************************************)
(* A job is treated as fresh only if its own fingerprint was fresh and     *)
(* everything it depends on was fresh too: a rebuilt dependency rebuilds   *)
(* the whole chain above it, in whatever order the jobs finish.            *)
(***************************************************************************)
FreshnessPropagates ==
  /\ \A k \in DOMAIN pendingBuild :
       pendingBuild[k].fresh = Fresh =>
         /\ job[k] = Fresh
         /\ \A d \in deps[k] : d \in DOMAIN pendingBuild /\ pendingBuild[d].fresh = Fresh
  /\ \A i \in DOMAIN queue : queue[i].fresh = pendingBuild[queue[i].key].fresh
  /\ \A k \in running : pendingBuild[k].fresh = Dirty

(***************************************************************************)
(* A job runs only after everything it depends on has succeeded; what      *)
(* depends on a failed job is never started.                               *)
(***************************************************************************)
RunsAfterDependencies ==
  \A k \in active \cup running : deps[k] \cap (Queued \cup pending \cup failed) = {}

(***************************************************************************)
(* The outcome is the truth: Ok means that every queued job succeeded; an  *)
(* error is reported if a job failed, and only then unless printing or the *)
(* jobserver failed; and "finished with jobs still left in the queue"      *)
(* never happens.  When the loop is left over a failed job, the other jobs *)
(* have been waited for.                                                   *)
(***************************************************************************)
OutcomeTrue ==
  /\ result # "Internal"
  /\ result = "Ok" => failed = {} /\ IsEmpty /\ running = {}
  /\ ~IoMayFail /\ result = "Err" => failed # {} /\ running = {}

(***************************************************************************)
(* Once the main thread has seen a job fail it starts no other.            *)
(***************************************************************************)
NoJobAfterError == [][error => active' \subseteq active]_vars

(***************************************************************************)
(* The loop, seen without its threads, tokens and messages, does what      *)
(* BuildPromise promises: a job counts as started when it has left the     *)
(* local queue of drain_the_queue, and as done when the main thread has    *)
(* recorded it.                                                            *)
(***************************************************************************)
Started == (pending \cup Finished) \ {queue[i].key : i \in DOMAIN queue}
Promise == INSTANCE BuildPromise WITH
  requested <- DOMAIN depth,
  started   <- Started,
  done      <- Finished,
  outcome   <- result
\* JobQueue::execute starts each job once, in the order of the dependencies and
\* never after a failure was seen, and returns the truth.
KeepsPromise == Promise!Spec

(***************************************************************************)
(* The build ends, whatever fails and however the tokens are shared.       *)
(***************************************************************************)
Termination == <>(pc = "done")
================================================================================
