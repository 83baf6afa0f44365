---------------------------- MODULE DownloadsProofs ----------------------------
(***************************************************************************)
(* The promises of Downloads (core/package.rs) for any set of packages,    *)
(* any timeout and any number of retries.                                  *)
(***************************************************************************)
EXTENDS Downloads, FiniteSetTheorems, TLAPS

Result == Package \X {"ok", "spurious", "fatal", "aborted"}
Download == [data : Int, current : Int, timed_out : BOOLEAN, remaining : Int]
Transfer == [active : BOOLEAN, got : Int]

Types ==
  /\ todo \subseteq Package /\ pkgs \in Seq(Package) /\ pending \subseteq Package
  /\ dl \in [Package -> Download] /\ wire \in [Package -> Transfer]
  /\ results \in Seq(Result)
  /\ age \in Int /\ left \in Int /\ threshold \in Int /\ quiet \in Nat /\ elapsed \in Int
  /\ phase = "extract" => unpacking \in Package \X Int

\* Each result is the only one of a pending transfer that has ended, and what
\* was kept of a pending transfer are the bytes of its current attempt.
TransferInv ==
  /\ pending = pending_ids
  /\ \A i \in DOMAIN results :
       /\ results[i][1] \in pending /\ ~wire[results[i][1]].active
       /\ results[i][2] = "ok" => wire[results[i][1]].got = Size
  /\ \A i, j \in DOMAIN results : results[i][1] = results[j][1] => i = j
  /\ \A t \in pending : dl[t].current = wire[t].got /\ dl[t].data = wire[t].got

\* updated_at is not older than the last byte, unpacking aside.
ClockInv ==
  /\ phase \in {"open", "wait"} => age <= quiet
  /\ phase = "extract" => age <= quiet + elapsed

\* With a low-speed limit the threshold of a batch never drops to 0.
ThresholdInv == LowSpeedLimit > 0 => SpeedAssertion /\ (pending # {} => threshold > 0)

\* DeliveredOnce, and that nothing is asked for a second time.
DeliveryInv ==
  /\ IsFiniteSet(asked) /\ todo \cap asked = {}
  /\ DeliveredOnce

DownloadsInv == Types /\ TransferInv /\ ClockInv /\ ThresholdInv /\ DeliveryInv

\* A session starts with nothing asked for.
LEMMA DownloadsInvInit == Init => DownloadsInv
<1> SUFFICES ASSUME Init PROVE DownloadsInv
  OBVIOUS
<1> USE DownloadsAssumption DEF Init
<1>1. Types
  BY DEF Types, Download, Transfer, NewDownload, NoTransfer
<1>2. TransferInv /\ ClockInv /\ ThresholdInv
  BY DEF TransferInv, ClockInv, ThresholdInv, SpeedAssertion
<1>3. DeliveryInv
  BY FS_EmptySet DEF DeliveryInv, DeliveredOnce, ToSet
<1> QED
  BY <1>1, <1>2, <1>3 DEF DownloadsInv

\* What Downloads::enqueue does to the transfers.
LEMMA Enqueues ==
  ASSUME Types, NEW t \in Package, NEW n \in Int, enqueue(t, n, 0)
  PROVE  /\ dl' \in [Package -> Download] /\ wire' \in [Package -> Transfer]
         /\ wire'[t].got = 0 /\ dl'[t].current = 0 /\ dl'[t].data = 0 /\ ~dl'[t].timed_out
         /\ \A u \in Package \ {t} : dl'[u] = dl[u] /\ wire'[u] = wire[u]
<1> DEFINE d == [NewDownload EXCEPT !.remaining = n, !.data = 0]
           w == [active |-> TRUE, got |-> 0]
<1>0. NewDownload \in Download /\ NewDownload.current = 0 /\ NewDownload.timed_out = FALSE
  BY DownloadsAssumption DEF NewDownload, Download
<1>1. d \in Download /\ d.current = 0 /\ d.data = 0 /\ d.timed_out = FALSE
  BY <1>0 DEF Download
<1>2. w \in Transfer /\ w.got = 0
  BY DEF Transfer
<1>3. dl' = [dl EXCEPT ![t] = d] /\ wire' = [wire EXCEPT ![t] = w]
  BY DEF enqueue
<1> HIDE DEF d, w
<1> QED
  BY <1>1, <1>2, <1>3 DEF Types

\* What the callback of a transfer does to it.
LEMMA Progresses ==
  ASSUME Types, NEW t \in Package, NEW cur \in Int, progress(t, cur)
  PROVE  /\ dl' \in [Package -> Download] /\ wire' \in [Package -> Transfer]
         /\ wire'[t].got = cur /\ dl'[t].current = cur
         /\ dl'[t].data = dl[t].data + (cur - dl[t].current)
         /\ wire'[t].active <=> timed_out(cur - dl[t].current) = "no"
         /\ \A u \in Package \ {t} : dl'[u] = dl[u] /\ wire'[u] = wire[u]
<1> DEFINE delta == cur - dl[t].current
           why == timed_out(delta)
           w == [active |-> why = "no", got |-> cur]
           late == dl[t].timed_out \/ why # "no"
           d == [dl[t] EXCEPT !.data = dl[t].data + delta, !.current = cur, !.timed_out = late]
<1>0. dl[t] \in Download /\ late \in BOOLEAN
  BY DEF Types
<1>1. w \in Transfer /\ w.got = cur /\ (w.active <=> why = "no")
  BY DEF Transfer
<1>2. d \in Download /\ d.current = cur /\ d.data = dl[t].data + delta
  <2>1. delta \in Int /\ dl[t].data + delta \in Int
    BY <1>0 DEF Download
  <2> HIDE DEF late, delta
  <2> QED
    BY <1>0, <2>1 DEF Download
<1>3. wire' = [wire EXCEPT ![t] = w]
  BY DEF progress
<1>4. dl' = [dl EXCEPT ![t] = d]
  BY <1>0 DEF progress, Types, Download
<1> HIDE DEF d, w, why
<1>5. /\ dl' \in [Package -> Download] /\ dl'[t] = d
      /\ \A u \in Package \ {t} : dl'[u] = dl[u]
  BY <1>2, <1>4 DEF Types
<1>6. /\ wire' \in [Package -> Transfer] /\ wire'[t] = w
      /\ \A u \in Package \ {t} : wire'[u] = wire[u]
  BY <1>1, <1>3 DEF Types
<1> QED
  BY <1>1, <1>2, <1>5, <1>6 DEF why

\* curl calls back for an active transfer, with as many bytes as before or more.
LEMMA Callback ==
  ASSUME Types, NEW t \in Package, Receive(t) \/ NoData(t)
  PROVE  /\ phase = "wait" /\ t \in pending /\ wire[t].active
         /\ \E cur \in Int : cur >= wire[t].got /\ progress(t, cur)
<1>1. wire[t].got \in Int
  BY DEF Types, Transfer
<1>2. \A c \in Chunk : c \in Int /\ c > 0
  BY DownloadsAssumption
<1> QED
  BY <1>1, <1>2 DEF Receive, NoData, Transferring

\* A result is taken off the end of the vector.
LEMMA Takes ==
  ASSUME Types, results # <<>>
  PROVE  /\ Len(results) \in DOMAIN results /\ Last(results) = results[Len(results)]
         /\ Last(results) \in Result /\ Last(results)[1] \in Package
         /\ Front(results) \in Seq(Result)
         /\ DOMAIN Front(results) = DOMAIN results \ {Len(results)}
         /\ \A i \in DOMAIN Front(results) : Front(results)[i] = results[i]
         /\ \A t \in Package : dl[t].remaining - 1 \in Int
<1>1. results \in Seq(Result) /\ Len(results) \in Nat \ {0}
  BY DEF Types
<1>2. Last(results) \in Result
  BY <1>1 DEF Last
<1>3. /\ Front(results) \in Seq(Result)
      /\ DOMAIN Front(results) = 1 .. Len(results) - 1
      /\ \A i \in DOMAIN Front(results) : Front(results)[i] = results[i]
  BY <1>1 DEF Front
<1>4. \A t \in Package : dl[t].remaining - 1 \in Int
  BY DEF Types, Download
<1> QED
  BY <1>1, <1>2, <1>3, <1>4 DEF Result, Last

\* A result is appended to the vector.
LEMMA Appends ==
  ASSUME Types, NEW x \in Result, results' = Append(results, x)
  PROVE  /\ results' \in Seq(Result)
         /\ DOMAIN results' = DOMAIN results \cup {Len(results) + 1}
         /\ Len(results) + 1 \notin DOMAIN results
         /\ results'[Len(results) + 1] = x
         /\ \A i \in DOMAIN results : results'[i] = results[i]
BY DEF Types

\* A transfer that ends keeps its bytes.
LEMMA Ends ==
  ASSUME Types, NEW t \in Package, wire' = [wire EXCEPT ![t].active = FALSE]
  PROVE  /\ wire' \in [Package -> Transfer] /\ ~wire'[t].active
         /\ wire'[t].got = wire[t].got
         /\ \A u \in Package \ {t} : wire'[u] = wire[u]
<1> DEFINE w == [wire[t] EXCEPT !.active = FALSE]
<1>1. wire[t] \in Transfer
  BY DEF Types
<1>2. w \in Transfer /\ w.active = FALSE /\ w.got = wire[t].got
  BY <1>1 DEF Transfer
<1>3. wire' = [wire EXCEPT ![t] = w]
  OBVIOUS
<1> HIDE DEF w
<1> QED
  BY <1>2, <1>3 DEF Types

\* Every step keeps the types.
LEMMA TypesStep ==
  ASSUME Types, [Next]_vars
  PROVE  Types'
<1> USE DownloadsAssumption DEF client, clocks
<1>1. ASSUME NEW ids \in SUBSET Package, enable_download(ids) PROVE Types'
  BY <1>1 DEF enable_download, Types, Download, Transfer, NewDownload, NoTransfer
<1>2. ASSUME NEW t \in Package, start(t) PROVE Types'
  <2>1. CASE t \in slots \cup Local
    <3>1. pkgs' \in Seq(Package)
      BY <1>2, <2>1 DEF start, Types
    <3> QED
      BY <1>2, <2>1, <3>1 DEF start, Types
  <2>2. CASE t \notin slots \cup Local
    <3>1. enqueue(t, Retries, 0) /\ Retries \in Int
      BY <1>2, <2>2 DEF start
    <3>2. dl' \in [Package -> Download] /\ wire' \in [Package -> Transfer]
      BY <3>1, Enqueues
    <3> QED
      BY <1>2, <2>2, <3>1, <3>2 DEF start, enqueue, Types
  <2> QED
    BY <2>1, <2>2
<1>3. CASE Wait \/ Close \/ ExtractFails \/ UNCHANGED vars
  BY <1>3 DEF Wait, Close, ExtractFails, Drop, vars, Types
<1>4. CASE TakeResult
  <2> DEFINE t == Last(results)[1]
             r == Last(results)[2]
  <2>1. results' \in Seq(Result) /\ t \in Package /\ dl[t].remaining - 1 \in Int
    BY <1>4, Takes DEF TakeResult
  <2>2. UNCHANGED <<todo, pkgs>>
    BY <1>4 DEF TakeResult
  <2>3. CASE retry(t) /\ UNCHANGED <<phase, unpacking, elapsed>>
    <3>1. enqueue(t, dl[t].remaining - 1, 0)
      BY <2>3 DEF retry
    <3> HIDE DEF t
    <3>2. dl' \in [Package -> Download] /\ wire' \in [Package -> Transfer]
      BY <2>1, <3>1, Enqueues
    <3> QED
      BY <2>1, <2>2, <2>3, <3>1, <3>2 DEF enqueue, Types
  <2>4. CASE /\ phase' = "failed" /\ pending' = pending \ {t}
             /\ UNCHANGED <<dl, wire, clocks, unpacking, elapsed>>
    BY <2>1, <2>2, <2>4 DEF Types
  <2>5. CASE /\ unpacking' = <<t, dl[t].data>> /\ elapsed' = 0 /\ pending' = pending \ {t}
             /\ UNCHANGED <<dl, wire, clocks>>
    <3>1. unpacking' \in Package \X Int
      BY <2>1, <2>5 DEF Types, Download
    <3> QED
      BY <2>1, <2>2, <2>5, <3>1 DEF Types
  <2> QED
    BY <1>4, <2>3, <2>4, <2>5 DEF TakeResult, Drop
<1>5. CASE Extracted
  <2>1. pkgs' \in Seq(Package)
    BY <1>5 DEF Extracted, Types
  <2> QED
    BY <1>5, <2>1 DEF Extracted, Types
<1>6. CASE Tick
  BY <1>6 DEF Tick, Types
<1>7. ASSUME NEW t \in Package, Receive(t) \/ NoData(t) PROVE Types'
  <2>1. PICK cur \in Int : progress(t, cur)
    BY <1>7, Callback
  <2> DEFINE delta == cur - dl[t].current
             why == timed_out(delta)
  <2>2. delta \in Int
    BY DEF Types, Download
  <2>3. results' \in Seq(Result)
    <3>1. <<t, "aborted">> \in Result
      BY DEF Result
    <3>2. results' = Append(results, <<t, "aborted">>) \/ results' = results
      BY <2>1 DEF progress
    <3>3. results \in Seq(Result)
      BY DEF Types
    <3> QED
      BY <3>1, <3>2, <3>3, Appends
  <2>4. threshold' \in Int /\ age' \in Int /\ left' \in Int /\ quiet' \in Nat
    <3>1. bytes_threshold(delta) \in Int /\ speed_check(delta) \in Int
      BY <2>2 DEF Types, bytes_threshold, speed_check
    <3> HIDE DEF delta
    <3> QED
      BY <2>1, <3>1 DEF progress, Types, delta
  <2>5. phase' # "extract"
    BY <1>7, <2>1, Callback DEF progress
  <2> QED
    BY <2>1, <2>3, <2>4, <2>5, Progresses DEF progress, Types
<1>8. ASSUME NEW t \in Package, ShellFails(t) \/ Complete(t) PROVE Types'
  <2>1. PICK x \in Result : results' = Append(results, x)
    BY <1>8 DEF ShellFails, Complete, Result
  <2>2. wire' \in [Package -> Transfer]
    BY <1>8, Ends DEF ShellFails, Complete
  <2>3. results' \in Seq(Result)
    BY <2>1, Appends
  <2> QED
    BY <1>8, <2>2, <2>3 DEF ShellFails, Complete, Types
<1> QED
  BY <1>1, <1>2, <1>3, <1>4, <1>5, <1>6, <1>7, <1>8 DEF Next, Client, Main

\* A package the client still wants is not under way.
LEMMA NotPending ==
  ASSUME DeliveryInv, NEW t \in todo, phase = "open"
  PROVE  t \notin asked /\ t \notin pending
BY DEF DeliveryInv, DeliveredOnce

\* Every step keeps the results in order.
LEMMA TransferStep ==
  ASSUME Types, TransferInv, DeliveryInv, [Next]_vars
  PROVE  TransferInv'
<1> USE DEF client, clocks
<1>1. ASSUME NEW ids \in SUBSET Package, enable_download(ids) PROVE TransferInv'
  BY <1>1 DEF enable_download, TransferInv
<1>2. ASSUME NEW t \in Package, start(t) PROVE TransferInv'
  <2>1. CASE t \in slots \cup Local
    BY <1>2, <2>1 DEF start, TransferInv
  <2>2. CASE t \notin slots \cup Local
    <3>1. enqueue(t, Retries, 0) /\ Retries \in Int /\ UNCHANGED results
      BY <1>2, <2>2, DownloadsAssumption DEF start
    <3>2. t \notin pending
      BY <1>2, NotPending DEF start
    <3>3. /\ wire'[t].got = 0 /\ dl'[t].current = 0 /\ dl'[t].data = 0
          /\ \A u \in Package \ {t} : dl'[u] = dl[u] /\ wire'[u] = wire[u]
      BY <3>1, Enqueues
    <3>4. pending' = pending \cup {t} /\ pending_ids' = pending_ids \cup {t}
      BY <3>1 DEF enqueue
    <3> QED
      BY <3>1, <3>2, <3>3, <3>4 DEF TransferInv, Types
  <2> QED
    BY <2>1, <2>2
<1>3. CASE Wait \/ Close \/ Extracted \/ ExtractFails \/ Tick \/ UNCHANGED vars
  BY <1>3 DEF Wait, Close, Extracted, ExtractFails, Tick, Drop, vars, TransferInv
<1>4. CASE TakeResult
  <2> SUFFICES ASSUME NEW t, NEW n, t = Last(results)[1], n = Len(results)
               PROVE  TransferInv'
    OBVIOUS
  <2>1. /\ n \in DOMAIN results /\ t = results[n][1] /\ t \in Package
        /\ DOMAIN results' = DOMAIN results \ {n}
        /\ \A i \in DOMAIN results' : results'[i] = results[i]
        /\ dl[t].remaining - 1 \in Int
    BY <1>4, Takes DEF TakeResult
  <2>2. \A i \in DOMAIN results' : results[i][1] # t
    BY <2>1 DEF TransferInv
  <2>3. CASE retry(t)
    <3>1. enqueue(t, dl[t].remaining - 1, 0)
      BY <2>3 DEF retry
    <3>2. /\ wire'[t].got = 0 /\ dl'[t].current = 0 /\ dl'[t].data = 0
          /\ \A u \in Package \ {t} : dl'[u] = dl[u] /\ wire'[u] = wire[u]
      BY <2>1, <3>1, Enqueues
    <3>3. pending' = pending \cup {t} /\ pending_ids' = pending_ids \cup {t}
      BY <3>1 DEF enqueue
    <3> QED
      BY <2>1, <2>2, <3>2, <3>3 DEF TransferInv, Types
  <2>4. CASE /\ pending' = pending \ {t} /\ pending_ids' = pending_ids \ {t}
             /\ UNCHANGED <<dl, wire>>
    BY <2>1, <2>2, <2>4 DEF TransferInv
  <2> QED
    BY <1>4, <2>3, <2>4 DEF TakeResult
<1>5. ASSUME NEW t \in Package, Receive(t) \/ NoData(t) PROVE TransferInv'
  <2>1. PICK cur \in Int : progress(t, cur)
    BY <1>5, Callback
  <2> DEFINE why == timed_out(cur - dl[t].current)
  <2>2. /\ wire'[t].got = cur /\ dl'[t].current = cur
        /\ dl'[t].data = dl[t].data + (cur - dl[t].current)
        /\ wire'[t].active <=> why = "no"
        /\ \A u \in Package \ {t} : dl'[u] = dl[u] /\ wire'[u] = wire[u]
    BY <2>1, Progresses
  <2>3. t \in pending /\ wire[t].active /\ UNCHANGED <<pending, pending_ids>>
    BY <1>5, <2>1, Callback DEF progress
  <2>4. \A i \in DOMAIN results : results[i][1] # t
    BY <2>3 DEF TransferInv
  <2>5. \A u \in pending : dl'[u].current = wire'[u].got /\ dl'[u].data = wire'[u].got
    <3>1. dl[t].current = dl[t].data /\ dl[t].current \in Int
      BY <2>3 DEF TransferInv, Types, Download
    <3>2. dl'[t].data = cur
      BY <2>2, <3>1
    <3>3. \A u \in pending \ {t} : dl'[u] = dl[u] /\ wire'[u] = wire[u]
      BY <2>2 DEF Types
    <3> QED
      BY <2>2, <3>2, <3>3 DEF TransferInv
  <2>6. CASE why = "no"
    <3>1. UNCHANGED results
      BY <2>1, <2>6 DEF progress
    <3> HIDE DEF why
    <3> QED
      BY <2>2, <2>3, <2>4, <2>5, <3>1 DEF TransferInv, Types
  <2>7. CASE why # "no"
    <3>1. results' = Append(results, <<t, "aborted">>) /\ <<t, "aborted">> \in Result
      BY <2>1, <2>7 DEF progress, Result
    <3>2. /\ DOMAIN results' = DOMAIN results \cup {Len(results) + 1}
          /\ results'[Len(results) + 1] = <<t, "aborted">>
          /\ \A i \in DOMAIN results : results'[i] = results[i]
      BY <3>1, Appends
    <3> HIDE DEF why
    <3> QED
      BY <2>2, <2>3, <2>4, <2>5, <2>7, <3>2 DEF TransferInv, Types
  <2> QED
    BY <2>6, <2>7
<1>6. ASSUME NEW t \in Package, ShellFails(t) \/ Complete(t) PROVE TransferInv'
  <2>1. PICK x \in Result : /\ results' = Append(results, x)
                            /\ x[1] = t /\ (x[2] = "ok" => wire[t].got = Size)
    <3>1. CASE ShellFails(t)
      <4>1. <<t, "aborted">> \in Result
        BY DEF Result
      <4> QED
        BY <3>1, <4>1 DEF ShellFails
    <3>2. CASE Complete(t)
      <4>1. PICK r \in Faults \cup {"ok"} : /\ r = "ok" => wire[t].got = Size
                                            /\ results' = Append(results, <<t, r>>)
        BY <3>2 DEF Complete
      <4>2. <<t, r>> \in Result
        BY DownloadsAssumption DEF Result
      <4> QED
        BY <4>1, <4>2
    <3> QED
      BY <1>6, <3>1, <3>2
  <2>2. /\ t \in pending /\ wire[t].active /\ UNCHANGED <<pending, pending_ids, dl>>
        /\ wire' = [wire EXCEPT ![t].active = FALSE]
    BY <1>6 DEF ShellFails, Complete, Transferring
  <2>3. /\ ~wire'[t].active /\ wire'[t].got = wire[t].got
        /\ \A u \in Package \ {t} : wire'[u] = wire[u]
    BY <2>2, Ends
  <2>4. /\ DOMAIN results' = DOMAIN results \cup {Len(results) + 1}
        /\ results'[Len(results) + 1] = x
        /\ \A i \in DOMAIN results : results'[i] = results[i]
    BY <2>1, Appends
  <2>5. \A i \in DOMAIN results : results[i][1] # t
    BY <2>2 DEF TransferInv
  <2> QED
    BY <2>1, <2>2, <2>3, <2>4, <2>5 DEF TransferInv, Types
<1> QED
  BY <1>1, <1>2, <1>3, <1>4, <1>5, <1>6 DEF Next, Client, Main

\* Every step keeps the clocks and the threshold in order.
LEMMA ClockStep ==
  ASSUME Types, TransferInv, ClockInv, ThresholdInv, [Next]_vars
  PROVE  ClockInv' /\ ThresholdInv'
<1> USE DownloadsAssumption DEF client, clocks
<1>1. ASSUME NEW ids \in SUBSET Package, enable_download(ids) PROVE ClockInv' /\ ThresholdInv'
  BY <1>1 DEF enable_download, ClockInv, ThresholdInv, SpeedAssertion
<1>2. ASSUME NEW t \in Package, start(t) PROVE ClockInv' /\ ThresholdInv'
  BY <1>2 DEF start, enqueue, ClockInv, ThresholdInv, SpeedAssertion
<1>3. CASE Wait \/ Close \/ ExtractFails \/ UNCHANGED vars
  BY <1>3 DEF Wait, Close, ExtractFails, Drop, vars, ClockInv, ThresholdInv, SpeedAssertion
<1>4. CASE TakeResult
  <2>1. ClockInv'
    BY <1>4 DEF TakeResult, retry, enqueue, Drop, ClockInv, Types
  <2>2. ThresholdInv'
    BY <1>4 DEF TakeResult, retry, enqueue, Drop, ThresholdInv, SpeedAssertion
  <2> QED
    BY <2>1, <2>2
<1>5. CASE Extracted \/ Tick
  BY <1>5 DEF Extracted, Tick, ClockInv, ThresholdInv, SpeedAssertion, Types
<1>6. ASSUME NEW t \in Package, Receive(t) \/ NoData(t) PROVE ClockInv' /\ ThresholdInv'
  <2>1. PICK cur \in Int : cur >= wire[t].got /\ progress(t, cur)
    BY <1>6, Callback
  <2> DEFINE delta == cur - dl[t].current
  <2>2. phase = "wait" /\ t \in pending /\ UNCHANGED pending
    BY <1>6, <2>1, Callback DEF progress
  <2>3. delta \in Nat
    BY <2>1, <2>2 DEF TransferInv, Types, Download, Transfer
  <2>4. /\ age' = 0 \/ age' = age
        /\ quiet' = quiet \/ (quiet' = 0 /\ age' = 0)
        /\ phase' \in {"wait", "panicked"}
    BY <2>1, <2>2 DEF progress
  <2>5. ClockInv'
    BY <2>2, <2>4 DEF ClockInv, Types
  <2>6. threshold' = bytes_threshold(delta)
    BY <2>1 DEF progress
  <2>7. ASSUME LowSpeedLimit > 0 PROVE threshold' > 0
    BY <2>2, <2>3, <2>6, <2>7 DEF bytes_threshold, ThresholdInv, Types
  <2>8. ThresholdInv'
    BY <2>1, <2>2, <2>7 DEF progress, ThresholdInv, SpeedAssertion
  <2> QED
    BY <2>5, <2>8
<1>7. ASSUME NEW t \in Package, ShellFails(t) \/ Complete(t) PROVE ClockInv' /\ ThresholdInv'
  BY <1>7 DEF ShellFails, Complete, ClockInv, ThresholdInv, SpeedAssertion
<1> QED
  BY <1>1, <1>2, <1>3, <1>4, <1>5, <1>6, <1>7 DEF Next, Client, Main

\* A package is added to those that were delivered.
LEMMA Delivers ==
  ASSUME Types, NEW t \in Package, pkgs' = Append(pkgs, t)
  PROVE  ToSet(pkgs') = ToSet(pkgs) \cup {t} /\ Len(pkgs') = Len(pkgs) + 1
<1>1. /\ DOMAIN pkgs' = DOMAIN pkgs \cup {Len(pkgs) + 1}
      /\ pkgs'[Len(pkgs) + 1] = t /\ \A i \in DOMAIN pkgs : pkgs'[i] = pkgs[i]
      /\ Len(pkgs') = Len(pkgs) + 1
  BY DEF Types
<1> QED
  BY <1>1 DEF ToSet

\* DeliveredOnce for the phases in which a session is open, with what is being
\* unpacked given as a set.
Delivered(unpacked, n) ==
  /\ asked = ToSet(pkgs) \cup pending \cup unpacked
  /\ Cardinality(asked) = Len(pkgs) + Cardinality(pending) + n

\* The two ways to say it.
LEMMA DeliveredForm ==
  /\ phase \in {"open", "wait", "idle"} => (DeliveredOnce <=> Delivered({}, 0))
  /\ phase = "extract" =>
       (DeliveredOnce <=> Delivered({unpacking[1]}, 1) /\ unpacking[2] = Size)
BY FS_EmptySet, FS_Singleton DEF DeliveredOnce, Delivered

\* Every step keeps each package in its one place.
LEMMA DeliveryStep ==
  ASSUME Types, TransferInv, DeliveryInv, [Next]_vars
  PROVE  DeliveryInv'
<1> USE DEF client, clocks
<1>0. /\ IsFiniteSet(asked) /\ todo \cap asked = {} /\ Len(pkgs) \in Nat
      /\ phase \in {"open", "wait", "idle"} => Delivered({}, 0)
      /\ phase = "extract" => Delivered({unpacking[1]}, 1) /\ unpacking[2] = Size
  BY DeliveredForm DEF DeliveryInv, Types
<1>1. ASSUME phase \in {"open", "wait", "extract"}
      PROVE  IsFiniteSet(pending) /\ Cardinality(pending) \in Nat /\ Cardinality(asked) \in Nat
  <2>1. pending \subseteq asked
    BY <1>0, <1>1 DEF Delivered
  <2> QED
    BY <1>0, <2>1, FS_Subset, FS_CardinalityType
<1> DEFINE Same == UNCHANGED <<todo, asked, pkgs, pending>>
<1>2. ASSUME NEW ids \in SUBSET Package, enable_download(ids) PROVE DeliveryInv'
  <2>1. /\ asked' = {} /\ pkgs' = <<>> /\ pending' = {} /\ phase' = "open"
    BY <1>2 DEF enable_download
  <2> QED
    BY <2>1, FS_EmptySet DEF DeliveryInv, DeliveredOnce, ToSet
<1>3. ASSUME NEW t \in Package, start(t) PROVE DeliveryInv'
  <2>1. /\ phase = "open" /\ phase' = "open" /\ t \notin asked /\ t \notin pending
        /\ todo' = todo \ {t} /\ asked' = asked \cup {t}
    BY <1>3, NotPending DEF start
  <2>2. IsFiniteSet(asked') /\ Cardinality(asked') = Cardinality(asked) + 1
    BY <1>0, <2>1, FS_AddElement
  <2>3. Delivered({}, 0)'
    <3>1. CASE t \in slots \cup Local
      <4>1. pkgs' = Append(pkgs, t) /\ UNCHANGED pending
        BY <1>3, <3>1 DEF start
      <4>2. ToSet(pkgs') = ToSet(pkgs) \cup {t} /\ Len(pkgs') = Len(pkgs) + 1
        BY <4>1, Delivers
      <4> QED
        BY <1>0, <1>1, <2>1, <2>2, <4>1, <4>2 DEF Delivered
    <3>2. CASE t \notin slots \cup Local
      <4>1. pending' = pending \cup {t} /\ UNCHANGED pkgs
        BY <1>3, <3>2 DEF start, enqueue
      <4>2. Cardinality(pending') = Cardinality(pending) + 1
        BY <1>1, <2>1, <4>1, FS_AddElement
      <4> QED
        BY <1>0, <1>1, <2>1, <2>2, <4>1, <4>2 DEF Delivered
    <3> QED
      BY <3>1, <3>2
  <2>4. DeliveredOnce'
    BY <2>1, <2>3, FS_EmptySet DEF Delivered, DeliveredOnce
  <2> QED
    BY <1>0, <2>1, <2>2, <2>4 DEF DeliveryInv
<1>4. CASE Wait \/ Close \/ Tick \/ UNCHANGED vars
  <2>1. Same /\ UNCHANGED unpacking
    BY <1>4 DEF Wait, Close, Tick, Drop, vars
  <2>2. phase' = phase \/ (phase = "open" /\ phase' \in {"wait", "idle"})
    BY <1>4 DEF Wait, Close, Tick, Drop, vars
  <2> QED
    BY <2>1, <2>2 DEF DeliveryInv, DeliveredOnce
<1>5. CASE ExtractFails
  BY <1>5 DEF ExtractFails, Drop, DeliveryInv, DeliveredOnce
<1>6. CASE TakeResult
  <2> SUFFICES ASSUME NEW t, t = Last(results)[1]
               PROVE  DeliveryInv'
    OBVIOUS
  <2> DEFINE r == Last(results)[2]
  <2>1. /\ phase = "wait" /\ UNCHANGED <<todo, asked, pkgs>>
        /\ t \in pending /\ (r = "ok" => dl[t].data = Size)
    BY SMTT(30), <1>6, Takes DEF TakeResult, TransferInv
  <2>2. CASE retry(t) /\ UNCHANGED phase
    <3>1. pending' = pending
      BY <2>1, <2>2 DEF retry, enqueue
    <3> QED
      BY <2>1, <2>2, <3>1 DEF DeliveryInv, DeliveredOnce
  <2>3. CASE phase' = "failed"
    BY <2>1, <2>3 DEF DeliveryInv, DeliveredOnce
  <2>4. CASE /\ r = "ok" /\ phase' = "extract" /\ unpacking' = <<t, dl[t].data>>
             /\ pending' = pending \ {t}
    <3>1. Cardinality(pending') = Cardinality(pending) - 1
      BY <1>1, <2>1, <2>4, FS_RemoveElement
    <3>2. Delivered({t}, 1)'
      BY <1>0, <1>1, <2>1, <2>4, <3>1 DEF Delivered
    <3>3. unpacking'[1] = t /\ unpacking'[2] = Size
      BY <2>1, <2>4
    <3>4. DeliveredOnce'
      BY <2>4, <3>2, <3>3, FS_Singleton DEF Delivered, DeliveredOnce
    <3> QED
      BY <1>0, <2>1, <3>4 DEF DeliveryInv
  <2> QED
    BY <1>6, <2>2, <2>3, <2>4 DEF TakeResult, Drop
<1>7. CASE Extracted
  <2> SUFFICES ASSUME NEW t, t = unpacking[1]
               PROVE  DeliveryInv'
    OBVIOUS
  <2>1. /\ phase = "extract" /\ phase' = "open" /\ pkgs' = Append(pkgs, t)
        /\ UNCHANGED <<todo, asked, pending>> /\ t \in Package
    BY <1>7 DEF Extracted, Types
  <2>2. ToSet(pkgs') = ToSet(pkgs) \cup {t} /\ Len(pkgs') = Len(pkgs) + 1
    BY <2>1, Delivers
  <2>3. Delivered({}, 0)'
    BY <1>0, <1>1, <2>1, <2>2 DEF Delivered
  <2>4. DeliveredOnce'
    BY <2>1, <2>3, FS_EmptySet DEF Delivered, DeliveredOnce
  <2> QED
    BY <1>0, <2>1, <2>4 DEF DeliveryInv
<1>8. ASSUME NEW t \in Package, Receive(t) \/ NoData(t) PROVE DeliveryInv'
  <2>1. PICK cur \in Int : progress(t, cur)
    BY <1>8, Callback
  <2>2. Same /\ phase = "wait" /\ phase' \in {"wait", "panicked"}
    BY <1>8, <2>1, Callback DEF progress
  <2> QED
    BY <2>2 DEF DeliveryInv, DeliveredOnce
<1>9. ASSUME NEW t \in Package, ShellFails(t) \/ Complete(t) PROVE DeliveryInv'
  BY <1>9 DEF ShellFails, Complete, DeliveryInv, DeliveredOnce
<1> QED
  BY <1>2, <1>3, <1>4, <1>5, <1>6, <1>7, <1>8, <1>9 DEF Next, Client, Main

\* DownloadsInv holds always, however transfers end, fail or stall.
THEOREM DownloadsInvariant == Spec => []DownloadsInv
<1>1. DownloadsInv /\ [Next]_vars => DownloadsInv'
  BY TypesStep, TransferStep, ClockStep, DeliveryStep DEF DownloadsInv
<1> QED
  BY <1>1, DownloadsInvInit, PTL DEF Spec

\* PackageSet::get_many returns each package it was asked for once, unpacked
\* from one whole transfer.
THEOREM EachDeliveredOnce == Spec => []DeliveredOnce
<1>1. DownloadsInv => DeliveredOnce
  BY DEF DownloadsInv, DeliveryInv
<1> QED
  BY <1>1, DownloadsInvariant, PTL

\* The assertions of Downloads never fail, if http.low-speed-limit is not 0.
THEOREM NoAssertionFails == LowSpeedLimit > 0 => (Spec => []AssertionsHold)
<1> SUFFICES ASSUME LowSpeedLimit > 0 PROVE Spec => []AssertionsHold
  OBVIOUS
<1>1. DownloadsInv => AssertionsHold
  BY DEF DownloadsInv, TransferInv, ThresholdInv, AssertionsHold
<1> QED
  BY <1>1, DownloadsInvariant, PTL

\* A transfer is only given up as stalled after Dur without a byte for any
\* transfer, however long the unpacking of other crates takes.
THEOREM StallIsEarned == Spec => TimeoutEarned
<1> DEFINE Earned == \A t \in Package :
                       dl'[t].timed_out /\ ~dl[t].timed_out /\ age > Dur => quiet > Dur
<1>1. DownloadsInv /\ [Next]_vars => Earned
  <2> SUFFICES ASSUME DownloadsInv, [Next]_vars, NEW u \in Package,
                      dl'[u].timed_out, ~dl[u].timed_out, age > Dur
               PROVE  quiet > Dur
    OBVIOUS
  <2> USE DEF client, clocks
  <2>0. Types
    BY DEF DownloadsInv
  <2>1. ~NewDownload.timed_out
    BY DEF NewDownload
  <2>2. ASSUME NEW ids \in SUBSET Package, enable_download(ids) PROVE FALSE
    BY <2>1, <2>2 DEF enable_download
  <2>3. ASSUME NEW t \in Package, NEW n \in Int, enqueue(t, n, 0) PROVE FALSE
    BY <2>0, <2>3, Enqueues
  <2>4. ASSUME NEW t \in Package, start(t) PROVE FALSE
    <3>1. dl' = dl \/ (enqueue(t, Retries, 0) /\ Retries \in Int)
      BY <2>4, DownloadsAssumption DEF start
    <3> QED
      BY <2>3, <3>1
  <2>5. CASE TakeResult
    <3>1. Last(results)[1] \in Package /\ dl[Last(results)[1]].remaining - 1 \in Int
      BY <2>0, <2>5, Takes DEF TakeResult
    <3>2. \/ dl' = dl
          \/ enqueue(Last(results)[1], dl[Last(results)[1]].remaining - 1, 0)
      BY <2>5 DEF TakeResult, retry
    <3> QED
      BY <2>3, <3>1, <3>2
  <2>6. ASSUME NEW t \in Package, Receive(t) \/ NoData(t) PROVE quiet > Dur
    <3>1. phase = "wait"
      BY <2>0, <2>6, Callback
    <3> QED
      BY <2>0, <3>1, DownloadsAssumption DEF DownloadsInv, ClockInv, Types
  <2>7. CASE dl' = dl
    BY <2>7
  <2> QED
    BY <2>2, <2>4, <2>5, <2>6, <2>7
    DEF Next, Client, Main, Wait, Close, Extracted, ExtractFails, Tick, ShellFails, Complete, vars
<1> QED
  BY <1>1, DownloadsInvariant, PTL DEF Spec, TimeoutEarned
================================================================================
