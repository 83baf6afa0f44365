------------------------------ MODULE BuildPromise -----------------------------
(***************************************************************************)
(* What JobQueue::execute promises its caller, without threads, tokens or  *)
(* messages: each requested job is started at most once and only after     *)
(* everything it depends on is done, none is started once a failure has    *)
(* been noticed or the call has returned, and the outcome is the truth.    *)
(***************************************************************************)
CONSTANTS Key, Graphs, IoMayFail

VARIABLES
  deps,       \* the job graph
  requested,  \* the jobs of this build, once they are all known
  started,
  done,       \* finished with success
  failed,
  error,      \* a failure has been noticed
  outcome     \* "none" until the call returns

vars == <<deps, requested, started, done, failed, error, outcome>>

Init ==
  /\ deps \in Graphs
  /\ requested = {} /\ started = {} /\ done = {} /\ failed = {}
  /\ error = FALSE
  /\ outcome = "none"

Unfinished == started \ (done \cup failed)

\* Printing may fail with any step of the main thread, and ends the call.
MayGiveUp == outcome = "none" /\ (outcome' = "none" \/ (IoMayFail /\ outcome' = "Err"))

Request(jobs) ==
  /\ requested = {} /\ outcome = "none"
  /\ \A k \in jobs : deps[k] \subseteq jobs
  /\ requested' = jobs
  /\ UNCHANGED <<deps, started, done, failed, error, outcome>>

\* A fresh job is over, and may have failed, as soon as it is started.
Start(k) ==
  /\ ~error
  /\ k \in requested \ started
  /\ deps[k] \subseteq done
  /\ started' = started \cup {k}
  /\ failed' \in {failed, failed \cup {k}}
  /\ MayGiveUp
  /\ UNCHANGED <<deps, requested, done, error>>

\* A job may still fail after the call has given up: it is waited for.
Fail(k) ==
  /\ k \in Unfinished
  /\ failed' = failed \cup {k}
  /\ UNCHANGED <<deps, requested, started, done, error, outcome>>

Succeed(k) ==
  /\ outcome = "none"
  /\ k \in Unfinished
  /\ done' = done \cup {k}
  /\ UNCHANGED <<deps, requested, started, failed, error, outcome>>

Notice ==
  /\ outcome = "none"
  /\ failed # {}
  /\ error' = TRUE
  /\ UNCHANGED <<deps, requested, started, done, failed, outcome>>

Return ==
  /\ outcome = "none"
  /\ \/ outcome' = "Ok" /\ done = requested /\ failed = {}
     \/ outcome' = "Err" /\ (failed # {} \/ IoMayFail)
  /\ UNCHANGED <<deps, requested, started, done, failed, error>>

Next ==
  \/ \E jobs \in SUBSET Key : Request(jobs)
  \/ \E k \in Key : Start(k) \/ Fail(k) \/ Succeed(k)
  \/ Notice
  \/ Return

Spec == Init /\ [][Next]_vars
================================================================================
