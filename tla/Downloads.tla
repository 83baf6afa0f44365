------------------------------- MODULE Downloads -------------------------------
(***************************************************************************)
(* core/package.rs, PackageSet and Downloads, with util/network.rs: many   *)
(* crates downloaded at a time over one curl Multi handle.  The clients    *)
(* (PackageSet::get_many, and the State of unit_dependencies.rs) start     *)
(* downloads and wait for the next one that ends.                          *)
(*                                                                         *)
(* Timeouts apply to the batch: `updated_at` and the speed check are those *)
(* of all transfers together.  Instants are kept relative to now: the age  *)
(* of updated_at and the time left to next_speed_check.  A token is only   *)
(* ever used for one package of a session, so the package stands for it.   *)
(* The progress bar and the statistics are left out.                       *)
(***************************************************************************)
EXTENDS Integers, Sequences, FiniteSets, SequencesExt

CONSTANTS
  None,
  Package,
  Local,          \* packages whose source answers Ready
  Size,           \* bytes of a crate
  Chunk,          \* bytes that may arrive at once
  Retries,        \* net.retry
  Dur,            \* http.timeout, in ticks
  LowSpeedLimit,  \* http.low-speed-limit, in bytes per Dur
  Faults,         \* how a transfer may fail: "spurious", "fatal"
  MayFail,        \* whether unpacking or the shell may fail
  MaxExtract      \* bound on the ticks that unpacking a crate takes

ASSUME DownloadsAssumption ==
  /\ Local \subseteq Package
  /\ Size \in Nat \ {0} /\ Chunk \subseteq 1..Size /\ Chunk # {}
  /\ Retries \in Nat /\ Dur \in Nat \ {0} /\ LowSpeedLimit \in Nat
  /\ Faults \subseteq {"spurious", "fatal"} /\ MayFail \in BOOLEAN
  /\ MaxExtract \in Nat

VARIABLES
  phase,        \* "idle", "open", "wait", "extract", "failed" or "panicked"
  downloading,  \* PackageSet::downloading
  slots,        \* the filled cells of PackageSet::packages
  todo,         \* what the client will still ask for
  asked,        \* what it has asked for
  pkgs,         \* what it got, in order
  pending,      \* keys of Downloads::pending
  pending_ids,
  dl,           \* package -> its Download
  results,      \* Downloads::results
  wire,         \* package -> its curl transfer
  age, left,    \* now - updated_at, next_speed_check - now
  threshold,    \* next_speed_check_bytes_threshold
  unpacking,    \* the package and the number of bytes given to finish_download
  elapsed,      \* ticks since finish_download was called
  quiet         \* ticks, not those of unpacking, without a byte for anyone

client == <<todo, asked, pkgs, slots, downloading>>
clocks == <<age, left, threshold, quiet>>
vars == <<phase, client, pending, pending_ids, dl, results, wire, clocks, unpacking, elapsed>>

NewDownload == [data |-> 0, current |-> 0, timed_out |-> FALSE, remaining |-> Retries]
NoTransfer == [active |-> FALSE, got |-> 0]

Init ==
  /\ phase = "idle" /\ downloading = FALSE
  /\ slots = {} /\ todo = {} /\ asked = {} /\ pkgs = <<>>
  /\ pending = {} /\ pending_ids = {} /\ results = <<>>
  /\ dl = [t \in Package |-> NewDownload]
  /\ wire = [t \in Package |-> NoTransfer]
  /\ age = 0 /\ left = 0 /\ threshold = 0 /\ quiet = 0
  /\ unpacking = None /\ elapsed = 0

--------------------------------------------------------------------------------
(* The client                                                              *)

\* enable_download, for a client that wants some packages.
enable_download(ids) ==
  /\ phase \in {"idle", "failed"} /\ ~downloading
  /\ phase' = "open" /\ downloading' = TRUE
  /\ todo' = ids /\ asked' = {} /\ pkgs' = <<>>
  /\ pending' = {} /\ pending_ids' = {} /\ results' = <<>>
  /\ dl' = [t \in Package |-> NewDownload]
  /\ wire' = [t \in Package |-> NoTransfer]
  /\ age' = 0 /\ left' = 0 /\ threshold' = 0 /\ quiet' = 0
  /\ unpacking' = None /\ elapsed' = 0
  /\ UNCHANGED slots

\* Drop for Downloads; transfers under way are dropped with it.
Drop(end) ==
  /\ phase' = end
  /\ downloading' = FALSE

\* Downloads::enqueue hands t to curl and restarts both clocks of the batch.
enqueue(t, remaining, data) ==
  /\ pending' = pending \cup {t} /\ pending_ids' = pending_ids \cup {t}
  /\ dl' = [dl EXCEPT ![t] = [NewDownload EXCEPT !.remaining = remaining, !.data = data]]
  /\ wire' = [wire EXCEPT ![t] = [active |-> TRUE, got |-> 0]]
  /\ age' = 0 /\ left' = Dur /\ threshold' = LowSpeedLimit /\ quiet' = 0

\* Downloads::start
start(t) ==
  /\ phase = "open" /\ t \in todo
  /\ todo' = todo \ {t} /\ asked' = asked \cup {t}
  /\ IF t \in slots \cup Local
     THEN /\ slots' = slots \cup {t}
          /\ pkgs' = Append(pkgs, t)
          /\ UNCHANGED <<pending, pending_ids, dl, wire, clocks>>
     ELSE /\ enqueue(t, Retries, 0)
          /\ UNCHANGED <<slots, pkgs>>
  /\ UNCHANGED <<phase, downloading, results, unpacking, elapsed>>

\* The client calls Downloads::wait while something remains.
Wait ==
  /\ phase = "open" /\ pending # {}
  /\ phase' = "wait"
  /\ UNCHANGED <<client, pending, pending_ids, dl, results, wire, clocks, unpacking, elapsed>>

Close ==
  /\ phase = "open" /\ todo = {} /\ pending = {}
  /\ Drop("idle")
  /\ UNCHANGED <<todo, asked, pkgs, slots, pending, pending_ids, dl, results, wire,
                 clocks, unpacking, elapsed>>

--------------------------------------------------------------------------------
(* curl's callbacks, inside Multi::perform                                 *)

bytes_threshold_not_renewed(delta) == IF delta >= threshold THEN 0 ELSE threshold - delta

\* What delta more bytes leave to be received until the next speed check.
bytes_threshold(delta) ==
  CASE delta = 0 -> threshold
    [] delta # 0 /\ delta >= threshold -> LowSpeedLimit
    [] OTHER -> threshold - delta

speed_check(delta) == IF delta # 0 /\ delta >= threshold THEN Dur ELSE left

timed_out_with_data(delta) == IF delta # 0 /\ speed_check(delta) <= 0 THEN "slow" ELSE "no"

\* Too long without a byte for anyone, or too few bytes since the last check.
timed_out(delta) ==
  CASE delta = 0 /\ age > Dur -> "stalled"
    [] ~(delta = 0 /\ age > Dur) /\ speed_check(delta) <= 0 -> "slow"
    [] OTHER -> "no"

Transferring(t) == phase = "wait" /\ t \in pending /\ wire[t].active

\* The write callback, and Downloads::progress, when t has `cur` bytes.  A
\* progress callback that returns false aborts the transfer.
progress(t, cur) ==
  LET delta == cur - dl[t].current
      why == timed_out(delta)
  IN
  /\ threshold' = bytes_threshold(delta)
  /\ phase' = IF why = "slow" /\ threshold' = 0 THEN "panicked" ELSE phase
  /\ age' = IF delta # 0 \/ why = "stalled" THEN 0 ELSE age
  /\ left' = IF why = "slow" THEN Dur ELSE speed_check(delta)
  /\ quiet' = IF delta # 0 THEN 0 ELSE quiet
  /\ dl' = [dl EXCEPT ![t].data = @ + delta, ![t].current = cur,
                      ![t].timed_out = @ \/ why # "no"]
  /\ wire' = [wire EXCEPT ![t] = [active |-> why = "no", got |-> cur]]
  /\ results' = IF why # "no" THEN Append(results, <<t, "aborted">>) ELSE results
  /\ UNCHANGED <<client, pending, pending_ids, unpacking, elapsed>>

Receive(t) ==
  /\ Transferring(t)
  /\ \E c \in Chunk : wire[t].got + c <= Size /\ progress(t, wire[t].got + c)

NoData(t) == Transferring(t) /\ progress(t, wire[t].got)

\* progress returns false without a message when the shell fails.
ShellFails(t) ==
  /\ Transferring(t) /\ MayFail
  /\ wire' = [wire EXCEPT ![t].active = FALSE]
  /\ results' = Append(results, <<t, "aborted">>)
  /\ UNCHANGED <<phase, client, pending, pending_ids, dl, clocks, unpacking, elapsed>>

\* The transfer ends and Multi::messages reports it.
Complete(t) ==
  /\ Transferring(t)
  /\ \E r \in Faults \cup {"ok"} :
       /\ r = "ok" => wire[t].got = Size
       /\ results' = Append(results, <<t, r>>)
  /\ wire' = [wire EXCEPT ![t].active = FALSE]
  /\ UNCHANGED <<phase, client, pending, pending_ids, dl, clocks, unpacking, elapsed>>

--------------------------------------------------------------------------------
(* Downloads::wait                                                         *)

\* maybe_spurious; an abort is one if the progress callback left a message.
maybe_spurious(t, r) == r = "spurious" \/ (r = "aborted" /\ dl[t].timed_out)

\* Retry::try
can_retry(t, r) == maybe_spurious(t, r) /\ dl[t].remaining > 0

retry_with_old_data(t) == enqueue(t, dl[t].remaining - 1, dl[t].data)

\* Retry::try answers None: the request is enqueued again, without its data.
retry(t) == enqueue(t, dl[t].remaining - 1, 0)

\* The loop of wait up to the source's finish_download.
TakeResult ==
  /\ phase = "wait" /\ results # <<>>
  /\ LET t == Last(results)[1]
         r == Last(results)[2]
     IN \/ /\ can_retry(t, r)
           /\ retry(t)
           /\ UNCHANGED <<phase, downloading, unpacking, elapsed>>
        \/ /\ r # "ok" /\ ~can_retry(t, r)
           /\ Drop("failed")
           /\ pending' = pending \ {t} /\ pending_ids' = pending_ids \ {t}
           /\ UNCHANGED <<dl, wire, clocks, unpacking, elapsed>>
        \/ /\ r = "ok"
           /\ phase' = "extract" /\ unpacking' = <<t, dl[t].data>> /\ elapsed' = 0
           /\ pending' = pending \ {t} /\ pending_ids' = pending_ids \ {t}
           /\ UNCHANGED <<downloading, dl, wire, clocks>>
  /\ results' = Front(results)
  /\ UNCHANGED <<todo, asked, pkgs, slots>>

Extracted_uncompensated ==
  /\ phase = "extract"
  /\ phase' = "open" /\ unpacking' = None
  /\ slots' = slots \cup {unpacking[1]}
  /\ pkgs' = Append(pkgs, unpacking[1])
  /\ UNCHANGED <<todo, asked, downloading, pending, pending_ids, dl, results, wire,
                 clocks, elapsed>>

\* finish_download returned; its time does not count for the other transfers.
Extracted ==
  /\ phase = "extract"
  /\ phase' = "open" /\ unpacking' = None
  /\ slots' = slots \cup {unpacking[1]}
  /\ pkgs' = Append(pkgs, unpacking[1])
  /\ age' = age - elapsed /\ left' = left + elapsed
  /\ UNCHANGED <<todo, asked, downloading, pending, pending_ids, dl, results, wire,
                 threshold, quiet, elapsed>>

\* A checksum that does not match, or an error while unpacking.
ExtractFails ==
  /\ phase = "extract" /\ MayFail
  /\ Drop("failed")
  /\ UNCHANGED <<todo, asked, pkgs, slots, pending, pending_ids, dl, results, wire,
                 clocks, unpacking, elapsed>>

--------------------------------------------------------------------------------
(* Time, and the specification                                             *)

\* Time that has passed beyond both limits makes no further difference.
Tick ==
  /\ phase \in {"open", "wait", "extract"} /\ pending # {}
  /\ age < Dur + 1 + MaxExtract
  /\ phase = "extract" => elapsed < MaxExtract
  /\ phase # "extract" => quiet <= Dur
  /\ age' = age + 1 /\ left' = left - 1
  /\ IF phase = "extract"
     THEN elapsed' = elapsed + 1 /\ UNCHANGED quiet
     ELSE quiet' = quiet + 1 /\ UNCHANGED elapsed
  /\ UNCHANGED <<phase, client, pending, pending_ids, dl, results, wire, threshold, unpacking>>

Client ==
  \/ \E ids \in SUBSET Package : enable_download(ids)
  \/ \E t \in Package : start(t)
  \/ Wait \/ Close

Main == TakeResult \/ Extracted \/ ExtractFails

Next ==
  \/ Client \/ Main \/ Tick
  \/ \E t \in Package : Receive(t) \/ NoData(t) \/ ShellFails(t) \/ Complete(t)

Spec == Init /\ [][Next]_vars

\* The client does not stop half way, curl calls the progress callback of
\* every transfer again and again, and time passes; no byte need ever arrive.
FairSpec ==
  /\ Spec
  /\ WF_vars(\E t \in Package : start(t)) /\ WF_vars(Wait) /\ WF_vars(Close)
  /\ WF_vars(TakeResult) /\ WF_vars(Extracted) /\ WF_vars(Tick)
  /\ \A t \in Package : WF_vars(NoData(t))

--------------------------------------------------------------------------------
(* Properties                                                              *)

\* "assert!(self.next_speed_check_bytes_threshold.get() > 0)"
SpeedAssertion == phase # "panicked"

\* The assertions of Downloads: the speed check never fires with a threshold
\* of 0 (progress), pending and pending_ids agree (wait), and a result is that
\* of a transfer still pending, with one result at most ("got a token for a
\* non-in-progress transfer").
AssertionsHold ==
  /\ SpeedAssertion
  /\ pending = pending_ids
  /\ \A i \in DOMAIN results : results[i][1] \in pending /\ ~wire[results[i][1]].active
  /\ \A i, j \in DOMAIN results : results[i][1] = results[j][1] => i = j

\* A package that was asked for is delivered, under way, or being unpacked,
\* and it is only one of these, and delivered only once: so when a session
\* ends well get_many returns each of its packages exactly once.  The source is
\* given the bytes of one whole transfer to unpack, never those of an attempt
\* that failed as well.
DeliveredOnce ==
  phase \in {"open", "wait", "extract", "idle"} =>
    LET unpacked == IF phase = "extract" THEN {unpacking[1]} ELSE {}
    IN  /\ asked = ToSet(pkgs) \cup pending \cup unpacked
        /\ Cardinality(asked) = Len(pkgs) + Cardinality(pending) + Cardinality(unpacked)
        /\ phase = "extract" => unpacking[2] = Size

\* A transfer is only aborted for want of data when the batch really went
\* without a byte for longer than Dur, time spent on unpacking not counted.
TimeoutEarned ==
  [][\A t \in Package :
       dl'[t].timed_out /\ ~dl[t].timed_out /\ age > Dur => quiet > Dur]_vars

\* A session ends even if the network never delivers a byte.
SessionEnds == [](phase = "open" => <>(phase \in {"idle", "failed"}))
================================================================================
