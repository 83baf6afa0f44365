------------------------------- MODULE FixProofs -------------------------------
(***************************************************************************)
(* cargo fix for any number of processes, files and fixes: the lock server *)
(* keeps the processes of one entry point apart, what a process posts is   *)
(* printed, all but one message, and bad fixes are backed out.             *)
(***************************************************************************)
EXTENDS Fix, TLAPS

--------------------------------------------------------------------------------
(* What the steps of a process do to its record                            *)

Fields == {"args", "pc", "ret", "round", "sugg", "orig", "applied", "last", "errs", "told"}

\* The state of a process is a record of these fields.
ProcShape ==
  /\ DOMAIN proc = Process /\ proc = [p \in Process |-> proc[p]]
  /\ \A p \in Process : DOMAIN proc[p] = Fields

\* A step that gives `p` a new place and new values of four other fields.
Moved(p, l, r, told, orig, sugg) ==
  /\ ProcShape'
  /\ \A q \in Process \ {p} : proc'[q] = proc[q]
  /\ proc'[p].pc = l /\ proc'[p].ret = r /\ proc'[p].told = told
  /\ proc'[p].orig = orig /\ proc'[p].sugg = sugg

\* Goto changes the place only.
LEMMA GotoEffect ==
  ASSUME ProcShape, NEW p \in Process, NEW l, Goto(p, l)
  PROVE  Moved(p, l, proc[p].ret, proc[p].told, proc[p].orig, proc[p].sugg)
BY DEF ProcShape, Goto, Moved, Fields

\* Message::post: the process goes on at l once the message is read.
LEMMA PostEffect ==
  ASSUME ProcShape, NEW p \in Process, NEW m, NEW l, post(p, m, l)
  PROVE  Moved(p, "posting", l, proc[p].told \cup {m}, proc[p].orig, proc[p].sugg)
BY DEF ProcShape, post, Moved, Fields

\* A run of rustc finds suggestions if the crate compiles.
LEMMA RustcEffect ==
  ASSUME ProcShape, NEW p \in Process, RunRustc(p)
  PROVE  \E s : /\ s = IF Compiles(p) \/ BrokenCode THEN Fixes \ content[Entry[p]] ELSE {}
                /\ Moved(p, IF s = {} THEN "report" ELSE "apply", proc[p].ret, proc[p].told,
                         proc[p].orig, s)
<1> DEFINE s == IF Compiles(p) \/ BrokenCode THEN Fixes \ content[Entry[p]] ELSE {}
<1>1. proc' = [proc EXCEPT ![p].last = proc[p].applied, ![p].errs = FALSE, ![p].sugg = s,
                          ![p].pc = IF s = {} THEN "report" ELSE "apply"]
  BY DEF RunRustc
<1> HIDE DEF s
<1>2. Moved(p, IF s = {} THEN "report" ELSE "apply", proc[p].ret, proc[p].told,
                         proc[p].orig, s)
  BY Zenon, <1>1 DEF ProcShape, Moved, Fields
<1> QED BY <1>2 DEF s

\* Some of them are applied, and the original code is kept.
LEMMA FixEffect ==
  ASSUME ProcShape, NEW p \in Process, rustfix_and_fix(p)
  PROVE  \E ok \in SUBSET proc[p].sugg, l \in {"round", "report"} :
           /\ content' = [content EXCEPT ![Entry[p]] = @ \cup ok]
           /\ Moved(p, l, proc[p].ret, proc[p].told, Original(p), {})
<1>1. PICK ok \in SUBSET proc[p].sugg :
        LET applied == proc[p].applied + Cardinality(ok)
            errs == ok # proc[p].sugg
        IN /\ content' = [content EXCEPT ![Entry[p]] = @ \cup ok]
           /\ proc' = [proc EXCEPT ![p] =
                        [@ EXCEPT !.orig = Original(p), !.applied = applied, !.errs = errs,
                                  !.round = proc[p].round + 1, !.sugg = {},
                                  !.pc = IF progress_yet_to_be_made(p, applied, errs)
                                         THEN "round" ELSE "report"]]
  BY Zenon DEF rustfix_and_fix
<1> DEFINE applied == proc[p].applied + Cardinality(ok)
           errs == ok # proc[p].sugg
           l == IF progress_yet_to_be_made(p, applied, errs) THEN "round" ELSE "report"
<1>2. content' = [content EXCEPT ![Entry[p]] = @ \cup ok] /\ l \in {"round", "report"}
  BY <1>1
<1>3. Moved(p, l, proc[p].ret, proc[p].told, Original(p), {})
  BY Zenon, <1>1 DEF ProcShape, Moved, Fields
<1> HIDE DEF l
<1> QED BY Zenon, <1>2, <1>3

\* The job's thread only notes that the process has ended.
LEMMA ReapEffect ==
  ASSUME ProcShape, NEW p \in Process, Reap(p)
  PROVE  Moved(p, proc[p].pc, "reaped", proc[p].told, proc[p].orig, proc[p].sugg)
BY Zenon DEF ProcShape, Reap, Moved, Fields

--------------------------------------------------------------------------------
(* The lock server                                                         *)

Thread == [live : BOOLEAN, queue : Seq(Process), serving : Process \cup {None}]

\* Each thread serves clients of its own file, and only while it is live.
ServerInv ==
  /\ threads \in [File -> Thread]
  /\ backlog \in Seq(Process \cup {"stop"})
  /\ \A f \in File : \A i \in DOMAIN threads[f].queue : Entry[threads[f].queue[i]] = f
  /\ \A f \in File : threads[f].serving # None => threads[f].live /\ Entry[threads[f].serving] = f

\* The client a thread is serving is the only one of its file that was sent the
\* byte and is still connected; nobody else is in the critical section.
HolderInv ==
  /\ granted \subseteq Process
  /\ \A p \in granted \ closed : threads[Entry[p]].serving = p
  /\ \A p \in Process : InCriticalSection(p) => p \in granted \ closed
  /\ \A p \in Process :
       proc[p].pc \in {"start", "verify_edition", "connect", "wait"} => p \notin closed
  /\ \A p \in Process : At(p, "posting") => proc[p].ret \in {"failed", "unlock", "ok", "final"}

FixInv == ProcShape /\ ServerInv /\ HolderInv

\* `cargo fix` starts with no client connected and no thread of the server running.
LEMMA FixInvInit == Init => FixInv
<1> SUFFICES ASSUME Init PROVE FixInv
  OBVIOUS
<1>1. PICK a \in [Process -> Args] : proc = [p \in Process |-> NewProc(a[p])]
  BY DEF Init
<1>2. ProcShape
  BY <1>1 DEF ProcShape, NewProc, Fields
<1>3. ServerInv
  <2>1. NoThread \in Thread /\ NoThread.serving = None /\ NoThread.queue = <<>>
    BY DEF NoThread, Thread
  <2> QED
    BY <2>1 DEF Init, ServerInv
<1>4. HolderInv
  BY <1>1 DEF Init, HolderInv, InCriticalSection, At, NewProc
<1> QED
  BY <1>2, <1>3, <1>4 DEF FixInv

\* Steps that touch neither the clients, the threads nor a process.
LEMMA Elsewhere ==
  ASSUME FixInv, UNCHANGED <<proc, threads, granted, closed>>,
         backlog' \in Seq(Process \cup {"stop"})
  PROVE  FixInv'
BY DEF FixInv, ProcShape, ServerInv, HolderInv, InCriticalSection, At

\* A step of a process that moves it from one place to another.
LEMMA Moves ==
  ASSUME FixInv, NEW p \in Process, ProcShape', \A q \in Process \ {p} : proc'[q] = proc[q],
         UNCHANGED <<threads, granted>>,
         backlog' \in Seq(Process \cup {"stop"}),
         closed' \in {closed, closed \cup {p}},
         proc'[p].pc \in {"start", "verify_edition", "connect", "wait"} => p \notin closed',
         InCriticalSection(p)' => p \in granted \ closed',
         proc'[p].pc = "posting" => proc'[p].ret \in {"failed", "unlock", "ok", "final"}
  PROVE  FixInv'
<1>1. ServerInv'
  BY DEF FixInv, ServerInv
<1>2. HolderInv'
  BY DEF FixInv, HolderInv, InCriticalSection, At
<1> QED
  BY <1>1, <1>2 DEF FixInv

\* A step that replaces the thread of f by one that is in order.
LEMMA Replaces ==
  ASSUME FixInv, NEW f \in File, NEW t \in Thread,
         threads' = [threads EXCEPT ![f] = t],
         backlog' \in Seq(Process \cup {"stop"}),
         \A i \in DOMAIN t.queue : Entry[t.queue[i]] = f,
         t.serving # None => t.live /\ Entry[t.serving] = f,
         \A p \in granted \ closed : Entry[p] = f => t.serving = p,
         UNCHANGED <<proc, granted, closed>>
  PROVE  FixInv'
<1>1. threads' \in [File -> Thread] /\ \A g \in File : threads'[g] = IF g = f THEN t ELSE threads[g]
  BY DEF FixInv, ServerInv
<1>2. ProcShape'
  BY DEF FixInv, ProcShape
<1>3. ServerInv'
  BY <1>1 DEF FixInv, ServerInv
<1>4. \A p \in granted \ closed : Entry[p] \in File /\ threads[Entry[p]].serving = p
  BY FixAssumption DEF FixInv, HolderInv
<1>5. \A p \in granted' \ closed' : threads'[Entry[p]].serving = p
  BY <1>1, <1>4
<1>6. HolderInv'
  BY <1>5 DEF FixInv, HolderInv, InCriticalSection, At
<1> QED
  BY <1>2, <1>3, <1>6 DEF FixInv

\* The server's thread takes a connection.
LEMMA AcceptStep ==
  ASSUME FixInv, Accept
  PROVE  FixInv'
<1> SUFFICES ASSUME NEW p, p = Head(backlog), NEW f, f = Entry[p]
             PROVE  FixInv'
  OBVIOUS
<1>1. p \in Process /\ backlog' \in Seq(Process \cup {"stop"})
  BY DEF Accept, FixInv, ServerInv
<1>2. f \in File /\ threads[f] \in Thread
  BY <1>1, FixAssumption DEF FixInv, ServerInv
<1>3. UNCHANGED <<proc, granted, closed>>
  BY DEF Accept
<1>4. CASE threads' = threads
  <2>1. ServerInv'
    BY <1>1, <1>4 DEF FixInv, ServerInv
  <2> QED
    BY <1>3, <1>4, <2>1 DEF FixInv, ProcShape, HolderInv, InCriticalSection, At
<1>5. CASE run(p) /\ threads[f].live
  <2> DEFINE q == Append(threads[f].queue, p)
             t == [threads[f] EXCEPT !.queue = q]
  <2>1. threads' = [threads EXCEPT ![f] = t]
    BY <1>5 DEF run
  <2>2. /\ threads[f].queue \in Seq(Process)
        /\ \A i \in DOMAIN threads[f].queue : Entry[threads[f].queue[i]] = f
    BY <1>2 DEF FixInv, ServerInv, Thread
  <2>3. q \in Seq(Process) /\ \A i \in DOMAIN q : Entry[q[i]] = f
    BY <1>1, <2>2
  <2> HIDE DEF q
  <2>4. t \in Thread /\ t.live /\ t.serving = threads[f].serving /\ t.queue = q
    BY <1>2, <1>5, <2>3 DEF Thread
  <2> HIDE DEF t
  <2>5. \A c \in granted \ closed : Entry[c] = f => t.serving = c
    BY <2>4 DEF FixInv, HolderInv
  <2>6. t.serving # None => Entry[t.serving] = f
    BY <1>2, <2>4 DEF FixInv, ServerInv
  <2> QED
    BY ZenonT(30), <1>1, <1>2, <1>3, <2>1, <2>3, <2>4, <2>5, <2>6, Replaces
<1>6. CASE run(p) /\ ~threads[f].live
  <2> DEFINE t == [live |-> TRUE, queue |-> <<p>>, serving |-> None]
  <2>1. threads' = [threads EXCEPT ![f] = t]
    BY <1>6 DEF run
  <2>2. t \in Thread /\ t.live /\ t.serving = None /\ t.queue = <<p>>
    BY <1>1 DEF Thread
  <2>3. threads[f].serving = None
    BY <1>2, <1>6 DEF FixInv, ServerInv
  <2> HIDE DEF t
  <2>4. \A i \in DOMAIN t.queue : Entry[t.queue[i]] = f
    BY <2>2
  <2>5. \A q \in granted \ closed : Entry[q] # f
    BY <2>3, FixAssumption DEF FixInv, HolderInv
  <2> QED
    BY Zenon, <1>1, <1>2, <1>3, <2>1, <2>2, <2>4, <2>5, Replaces
<1> QED
  BY <1>4, <1>5, <1>6 DEF Accept

\* A thread takes a client, sends it the byte, or sees it disconnect.
LEMMA ThreadStep ==
  ASSUME FixInv, NEW f \in File, TakeNext(f) \/ Grant(f) \/ Eof(f)
  PROVE  FixInv'
<1> SUFFICES ASSUME NEW t, t = threads[f]
             PROVE  FixInv'
  OBVIOUS
<1>1. proc' = proc /\ closed' = closed /\ backlog' = backlog /\ backlog' \in Seq(Process \cup {"stop"})
  BY DEF TakeNext, Grant, Eof, FixInv, ServerInv
<1>2. /\ t \in Thread /\ t.queue \in Seq(Process) /\ t.serving \in Process \cup {None}
      /\ \A i \in DOMAIN t.queue : Entry[t.queue[i]] = f
      /\ t.serving # None => t.live /\ Entry[t.serving] = f
  BY DEF FixInv, ServerInv, Thread
<1>3. \A p \in granted \ closed : p \in Process /\ (Entry[p] = f => t.serving = p)
  BY DEF FixInv, HolderInv
<1>4. CASE TakeNext(f) /\ t.queue = <<>>
  <2> DEFINE u == [t EXCEPT !.live = FALSE]
  <2>1. threads' = [threads EXCEPT ![f] = u] /\ granted' = granted /\ t.serving = None
    BY <1>4 DEF TakeNext
  <2>2. u \in Thread /\ u.serving = None /\ \A i \in DOMAIN u.queue : Entry[u.queue[i]] = f
    BY Zenon, <1>2, <2>1 DEF Thread
  <2>3. \A p \in granted \ closed : Entry[p] # f
    BY <1>3, <2>1, FixAssumption
  <2> HIDE DEF u
  <2> QED
    BY Zenon, <1>1, <1>2, <2>1, <2>2, <2>3, Replaces
<1>5. CASE TakeNext(f) /\ t.queue # <<>>
  <2> DEFINE u == [t EXCEPT !.queue = Tail(@), !.serving = Head(t.queue)]
  <2>1. threads' = [threads EXCEPT ![f] = u] /\ granted' = granted /\ t.serving = None /\ t.live
    BY <1>5 DEF TakeNext
  <2>2. Head(t.queue) \in Process
    BY <1>2, <1>5
  <2>3. u \in Thread /\ u.live /\ u.serving = Head(t.queue) /\ u.queue = Tail(t.queue)
    <3>1. Tail(t.queue) \in Seq(Process)
      BY <1>2, <1>5
    <3> QED
      BY Zenon, <1>2, <2>1, <2>2, <3>1 DEF Thread
  <2> HIDE DEF u
  <2>4. Entry[u.serving] = f /\ \A i \in DOMAIN u.queue : Entry[u.queue[i]] = f
    BY <1>2, <1>5, <2>3
  <2>5. \A p \in granted \ closed : Entry[p] # f
    BY <1>3, <2>1, FixAssumption
  <2> QED
    BY Zenon, <1>1, <1>2, <2>1, <2>3, <2>4, <2>5, Replaces
<1>6. CASE Grant(f) /\ threads' = threads
  <2>1. \/ t.serving \in Process /\ Entry[t.serving] = f /\ granted' = granted \cup {t.serving}
        \/ granted' = granted
    BY <1>2, <1>6 DEF Grant
  <2>2. ProcShape' /\ ServerInv'
    BY <1>1, <1>6 DEF FixInv, ProcShape, ServerInv
  <2>3. \A p \in granted' \ closed' : threads'[Entry[p]].serving = p
    BY <1>1, <1>6, <2>1 DEF FixInv, HolderInv
  <2>4. granted \subseteq granted' /\ granted' \subseteq Process
    BY <2>1 DEF FixInv, HolderInv
  <2>5. HolderInv'
    BY <1>1, <2>3, <2>4 DEF FixInv, HolderInv, InCriticalSection, At
  <2> QED
    BY <2>2, <2>5 DEF FixInv
<1>7. CASE threads' = [threads EXCEPT ![f].serving = None] /\ granted' = granted /\ t.serving \in closed
  <2> DEFINE u == [t EXCEPT !.serving = None]
  <2>1. threads' = [threads EXCEPT ![f] = u]
    BY <1>7
  <2>2. u \in Thread /\ u.serving = None /\ \A i \in DOMAIN u.queue : Entry[u.queue[i]] = f
    BY <1>2 DEF Thread
  <2>3. \A p \in granted \ closed : Entry[p] # f
    BY <1>3, <1>7
  <2> HIDE DEF u
  <2> QED
    BY Zenon, <1>1, <1>2, <1>7, <2>1, <2>2, <2>3, Replaces
<1>8. CASE Grant(f)
  BY <1>6, <1>7, <1>8 DEF Grant
<1>9. CASE Eof(f)
  BY <1>7, <1>9 DEF Eof
<1> QED
  BY <1>4, <1>5, <1>8, <1>9

\* The diagnostics server reads a message: its process goes on, if it waits.
LEMMA HangupEffect ==
  ASSUME ProcShape, Hangup
  PROVE  \/ /\ ~(Head(posts)[1] \in Process /\ At(Head(posts)[1], "posting"))
            /\ proc' = proc
         \/ \E p \in Process :
              /\ p = Head(posts)[1] /\ At(p, "posting") /\ hand' = <<Head(posts)[2]>>
              /\ UNCHANGED main
              /\ Moved(p, proc[p].ret, proc[p].ret, proc[p].told, proc[p].orig, proc[p].sugg)
<1> SUFFICES ASSUME NEW p, p = Head(posts)[1]
             PROVE  \/ ~(p \in Process /\ At(p, "posting")) /\ proc' = proc
                    \/ /\ p \in Process /\ At(p, "posting") /\ hand' = <<Head(posts)[2]>>
                       /\ UNCHANGED main
                       /\ Moved(p, proc[p].ret, proc[p].ret, proc[p].told, proc[p].orig, proc[p].sugg)
  OBVIOUS
<1>1. \/ /\ hand' = <<Head(posts)[2]>> /\ UNCHANGED main
         /\ proc' = IF At(p, "posting") THEN [proc EXCEPT ![p].pc = proc[p].ret] ELSE proc
      \/ (p \in Process => At(p, "killed")) /\ proc' = proc
  <2>1. p = "stop" => p \notin Process
    BY FixAssumption
  <2> QED
    BY <2>1 DEF Hangup
<1>2. CASE (p \in Process => At(p, "killed")) /\ proc' = proc
  BY <1>2 DEF At
<1>3. CASE proc' = IF At(p, "posting") THEN [proc EXCEPT ![p].pc = proc[p].ret] ELSE proc
  <2>1. CASE p \notin Process
    BY <1>3, <2>1 DEF ProcShape
  <2>2. CASE p \in Process /\ ~At(p, "posting")
    BY <1>3, <2>2
  <2>3. CASE p \in Process /\ At(p, "posting")
    <3>1. Moved(p, proc[p].ret, proc[p].ret, proc[p].told, proc[p].orig, proc[p].sugg)
      BY Zenon, <1>3, <2>3, GotoEffect DEF Goto
    <3>3. ~At(p, "killed")
      BY <2>3 DEF At
    <3> QED
      BY <1>1, <2>3, <3>1, <3>3
  <2> QED
    BY <2>1, <2>2, <2>3
<1> QED
  BY <1>1, <1>2, <1>3

\* A process that the diagnostics server lets go on keeps its lock, if it had it.
LEMMA HangupStep ==
  ASSUME FixInv, Hangup
  PROVE  FixInv'
<1>1. UNCHANGED <<threads, granted, closed>> /\ backlog' \in Seq(Process \cup {"stop"}) /\ ProcShape
  BY DEF Hangup, lockServer, FixInv, ServerInv
<1>2. CASE proc' = proc
  BY <1>1, <1>2, Elsewhere
<1>3. ASSUME NEW p \in Process, At(p, "posting"),
             Moved(p, proc[p].ret, proc[p].ret, proc[p].told, proc[p].orig, proc[p].sugg)
      PROVE  FixInv'
  <2>1. proc[p].ret \in {"failed", "unlock", "ok", "final"}
    BY <1>3 DEF FixInv, HolderInv
  <2>2. InCriticalSection(p)' => p \in granted \ closed
    BY <1>3, <2>1 DEF Moved, InCriticalSection, At, FixInv, HolderInv
  <2> QED
    BY <1>1, <1>3, <2>1, <2>2, Moves DEF Moved
<1> QED
  BY <1>1, <1>2, <1>3, HangupEffect

\* A step of a wrapper process.
LEMMA WrapperStep ==
  ASSUME FixInv, NEW p \in Process, Wrapper(p) \/ Die(p) \/ Spawn(p) \/ Reap(p)
  PROVE  FixInv'
<1> DEFINE Own == /\ ProcShape' /\ \A q \in Process \ {p} : proc'[q] = proc[q]
                  /\ proc'[p].pc \in {"start", "verify_edition", "connect", "wait"} => p \notin closed'
                  /\ InCriticalSection(p)' => p \in granted \ closed'
                  /\ proc'[p].pc = "posting" => proc'[p].ret \in {"failed", "unlock", "ok", "final"}
<1>0. /\ backlog \in Seq(Process \cup {"stop"}) /\ ProcShape
      /\ InCriticalSection(p) => p \in granted \ closed
      /\ proc[p].pc \in {"start", "verify_edition", "connect", "wait"} => p \notin closed
  BY DEF FixInv, ServerInv, HolderInv
<1>g. /\ \A l : Goto(p, l) => Moved(p, l, proc[p].ret, proc[p].told, proc[p].orig, proc[p].sugg)
      /\ \A m, l : post(p, m, l) =>
           Moved(p, "posting", l, proc[p].told \cup {m}, proc[p].orig, proc[p].sugg)
  BY Zenon, <1>0, GotoEffect, PostEffect
<1> USE DEF lockServer
<1>1. UNCHANGED <<threads, granted>> /\ closed' \in {closed, closed \cup {p}}
  BY Zenon DEF Wrapper, Spawn, Reap, VerifyEdition, lock, Locked, RunRustc, rustfix_and_fix, Report, Unlock,
         Verify, BackOut, Final, Die
<1>2. backlog' \in Seq(Process \cup {"stop"})
  <2>1. CASE lock(p)
    BY <1>0, <2>1 DEF lock
  <2>2. CASE ~lock(p)
    <3>1. backlog' = backlog
      BY Zenon, <2>2 DEF Wrapper, Spawn, Reap, VerifyEdition, Locked, RunRustc, rustfix_and_fix, Report,
                  Unlock, Verify, BackOut, Final, Die
    <3> QED
      BY <1>0, <3>1
  <2> QED
    BY <2>1, <2>2
<1> SUFFICES Own
  BY <1>1, <1>2, Moves
<1> USE DEF Moved, InCriticalSection, At
<1>3. CASE Spawn(p) \/ lock(p) \/ Locked(p) \/ Unlock(p) \/ Final(p) \/ Die(p)
  BY <1>0, <1>g, <1>3 DEF Spawn, lock, Locked, Unlock, Final, Die
<1>4. CASE VerifyEdition(p) \/ Report(p) \/ Verify(p) \/ BackOut(p)
  BY <1>0, <1>g, <1>4 DEF VerifyEdition, Report, Verify, BackOut
<1>5. CASE Reap(p)
  BY Zenon, <1>0, <1>5, ReapEffect DEF Reap, Ended
<1>6. CASE RunRustc(p)
  <2>1. proc'[p].pc \in {"report", "apply"} /\ ProcShape' /\ \A q \in Process \ {p} : proc'[q] = proc[q]
    BY <1>0, <1>6, RustcEffect
  <2> QED
    BY Zenon, <1>0, <1>6, <2>1 DEF RunRustc
<1>7. CASE rustfix_and_fix(p)
  BY Zenon, <1>0, <1>7, FixEffect DEF rustfix_and_fix
<1> QED
  BY <1>3, <1>4, <1>5, <1>6, <1>7 DEF Wrapper

\* No step breaks FixInv.
LEMMA FixInvStep == FixInv /\ [Next]_vars => FixInv'
<1> SUFFICES ASSUME FixInv, [Next]_vars
             PROVE  FixInv'
  OBVIOUS
<1>1. CASE fix \/ Receive \/ Stop \/ StopLockServer \/ Shutdown \/ Deliver \/ UNCHANGED vars
  <2>1. UNCHANGED <<proc, threads, granted, closed>>
    BY <1>1 DEF fix, Receive, Stop, StopLockServer, Shutdown, Deliver, vars, lockServer
  <2>2. backlog' \in {backlog, <<>>, Append(backlog, "stop")}
    BY <1>1 DEF fix, Receive, Stop, StopLockServer, Shutdown, Deliver, vars, lockServer
  <2>3. backlog' \in Seq(Process \cup {"stop"})
    <3>1. backlog \in Seq(Process \cup {"stop"})
      BY DEF FixInv, ServerInv
    <3>2. <<>> \in Seq(Process \cup {"stop"}) /\ Append(backlog, "stop") \in Seq(Process \cup {"stop"})
      BY <3>1
    <3> QED
      BY Zenon, <2>2, <3>1, <3>2
  <2> QED
    BY <2>1, <2>3, Elsewhere
<1> QED
  BY <1>1, WrapperStep, AcceptStep, HangupStep, ThreadStep DEF Next, Main, Server

\* FixInv holds always: for any processes, entry points and fixes, whoever is
\* killed and in whatever order the server's threads run.
THEOREM LockServerInvariant == Spec => []FixInv
BY FixInvInit, FixInvStep, PTL DEF Spec

\* "each crate (aka file entry point) is only fixed by one process at a time",
\* for any number of processes and of files.
THEOREM OneFixerAtATime == Spec => []OneFixer
<1>1. FixInv => OneFixer
  BY DEF FixInv, HolderInv, OneFixer
<1> QED
  BY <1>1, LockServerInvariant, PTL

--------------------------------------------------------------------------------
(* The diagnostics                                                         *)

Message == [type : {"EditionAlreadyEnabled", "ReplaceFailed", "Fixing", "FixFailed"}, from : Process]
Finishes == {FinishOf(p) : p \in Process}

\* Where a message that p has posted can be: with the server, while p waits for
\* it or not, in the channel, or printed.
OnItsWay(p, m) ==
  \/ m \in printed
  \/ \E i \in DOMAIN rx : rx[i] = m
  \/ \E i \in DOMAIN hand : hand[i] = m
  \/ At(p, "posting") /\ \E i \in DOMAIN posts : posts[i] = <<p, m>>

\* What is posted is on its way, and the server has one message at a time.
PostInv ==
  /\ posts \in Seq((Process \X Message) \cup {<<"stop", None>>})
  /\ hand \in Seq(Message) /\ \A i \in DOMAIN hand : i = 1
  /\ rx \in Seq(Message \cup Finishes)
  /\ \A p \in Process : proc[p].told \subseteq Message
  /\ \A i \in DOMAIN posts : posts[i][1] # "stop" => proc[posts[i][1]].pc \in {"posting", "killed"}
  /\ \A i, j \in DOMAIN posts : posts[i][1] # "stop" /\ posts[i][1] = posts[j][1] => i = j
  /\ \A p \in Process : ~At(p, "killed") => \A m \in proc[p].told : OnItsWay(p, m)

\* A message that is printed before the job queue can find nothing active.
InTime(m) ==
  \/ m \in printed
  \/ \E i, j \in DOMAIN rx : i < j /\ rx[i] = m /\ rx[j] \in Finishes

Idle == \A p \in Process : ~Running(p)

\* When nothing runs, all but one of the messages are printed or stand before a
\* Finish; and nothing runs once the job queue has left its loop.
LateInv ==
  /\ \A p \in Process : proc[p].ret = "reaped" => Ended(p)
  /\ \A i \in DOMAIN backlog : backlog[i] = "stop" => main \in {"drop", "done"}
  /\ Idle => \E x : \A p \in Process : ~At(p, "killed") =>
               \A m \in proc[p].told : m = x \/ InTime(m)
  /\ main \in {"join", "joined", "drop", "done"} =>
       Idle /\ \E x : \A p \in Process : ~At(p, "killed") => proc[p].told \subseteq printed \cup {x}

\* Nothing is posted at the start.
LEMMA PostInvInit == Init => PostInv /\ LateInv
<1> SUFFICES ASSUME Init PROVE PostInv /\ LateInv
  OBVIOUS
<1>1. PICK a \in [Process -> Args] : proc = [p \in Process |-> NewProc(a[p])]
  BY DEF Init
<1>2. \A p \in Process : proc[p].pc = "start" /\ proc[p].told = {} /\ proc[p].ret = "start"
  BY <1>1 DEF NewProc
<1>3. PostInv
  BY <1>2 DEF Init, PostInv, At
<1>4. LateInv
  BY <1>2 DEF Init, LateInv, At
<1> QED
  BY <1>3, <1>4

\* The head of the queue of posts goes to the server's hand, or nowhere if its
\* process was killed; the process goes on.
LEMMA PostHangup ==
  ASSUME ProcShape, PostInv, HolderInv, Hangup
  PROVE  PostInv'
<1> DEFINE p == Head(posts)[1]
           m == Head(posts)[2]
<1>1. /\ posts # <<>> /\ posts' = Tail(posts) /\ printed' = printed /\ rx' = rx /\ hand = <<>>
      /\ \/ hand' = <<m>> /\ p # "stop"
         \/ hand' = hand /\ (p # "stop" => At(p, "killed"))
  BY DEF Hangup
<1>2. /\ Head(posts) \in (Process \X Message) \cup {<<"stop", None>>} /\ posts[1] = Head(posts)
      /\ 1 \in DOMAIN posts
  BY <1>1 DEF PostInv
<1>2a. p # "stop" => p \in Process /\ m \in Message /\ Head(posts) = <<p, m>>
  BY <1>2
<1>3. /\ posts' \in Seq((Process \X Message) \cup {<<"stop", None>>})
      /\ \A i \in DOMAIN posts' : i + 1 \in DOMAIN posts /\ posts'[i] = posts[i + 1] /\ i + 1 # 1
      /\ \A i \in DOMAIN posts : i # 1 => i - 1 \in DOMAIN posts' /\ posts'[i - 1] = posts[i]
  BY <1>1 DEF PostInv
<1>4. /\ hand' \in Seq(Message) /\ \A i \in DOMAIN hand' : i = 1
      /\ hand' = <<m>> => 1 \in DOMAIN hand' /\ hand'[1] = m
  <2>1. ASSUME NEW y \in Message, hand' = <<y>>
        PROVE  hand' \in Seq(Message) /\ DOMAIN hand' = {1} /\ hand'[1] = y
    BY <2>1
  <2>2. hand' = <<>> => hand' \in Seq(Message) /\ DOMAIN hand' = {}
    OBVIOUS
  <2> HIDE DEF m, p
  <2> QED
    BY <1>1, <1>2a, <2>1, <2>2
<1>4a. p = "stop" => p \notin Process
  BY FixAssumption
<1>6. /\ \A q \in Process \ {p} : proc'[q] = proc[q]
      /\ p \in Process =>
           /\ proc'[p].told = proc[p].told
           /\ proc'[p].pc = IF proc[p].pc = "posting" THEN proc[p].ret ELSE proc[p].pc
           /\ proc[p].pc = "posting" => proc[p].ret \in {"failed", "unlock", "ok", "final"}
  BY HangupEffect DEF Moved, At, HolderInv
<1> HIDE DEF p, m
<1>5. \A i \in DOMAIN posts' : posts'[i][1] # "stop" => posts'[i][1] # p /\ posts'[i][1] \in Process
  BY <1>2, <1>3 DEF PostInv, p
<1>7. p \in Process => proc[p].pc \in {"posting", "killed"}
  BY <1>2, <1>4a DEF PostInv, p
<1>8. \A q \in Process : proc'[q].told \subseteq Message
  BY <1>6 DEF PostInv
<1>9. \A i \in DOMAIN posts' : posts'[i][1] # "stop" => proc'[posts'[i][1]].pc \in {"posting", "killed"}
  <2> SUFFICES ASSUME NEW i \in DOMAIN posts', posts'[i][1] # "stop"
               PROVE proc'[posts'[i][1]].pc \in {"posting", "killed"}
    OBVIOUS
  <2>1. proc[posts[i + 1][1]].pc \in {"posting", "killed"} /\ posts'[i] = posts[i + 1]
    BY <1>3 DEF PostInv
  <2> QED
    BY <1>5, <1>6, <2>1
<1>10. \A i, j \in DOMAIN posts' : posts'[i][1] # "stop" /\ posts'[i][1] = posts'[j][1] => i = j
  <2> SUFFICES ASSUME NEW i \in DOMAIN posts', NEW j \in DOMAIN posts',
                      posts'[i][1] # "stop", posts'[i][1] = posts'[j][1]
               PROVE  i = j
    OBVIOUS
  <2>1. i + 1 = j + 1 /\ i \in Int /\ j \in Int
    BY <1>3 DEF PostInv
  <2> QED
    BY <2>1
<1>11. ASSUME NEW q \in Process, ~At(q, "killed")', NEW x \in proc'[q].told
       PROVE  OnItsWay(q, x)'
  <2>1. /\ ~At(q, "killed") /\ x \in proc[q].told
        /\ q # p => (At(q, "posting") => At(q, "posting")')
    BY <1>6, <1>7, <1>11 DEF At
  <2>2. \/ x \in printed
        \/ \E i \in DOMAIN rx : rx[i] = x
        \/ At(q, "posting") /\ \E i \in DOMAIN posts : posts[i] = <<q, x>>
    BY <1>1, <2>1 DEF PostInv, OnItsWay
  <2>3. ASSUME NEW i \in DOMAIN posts, posts[i] = <<q, x>>, At(q, "posting")
        PROVE  \/ \E j \in DOMAIN hand' : hand'[j] = x
               \/ At(q, "posting")' /\ \E j \in DOMAIN posts' : posts'[j] = <<q, x>>
    <3>1. CASE i = 1
      <4>1. q = p /\ x = m
        BY <1>2, <2>3, <3>1 DEF p, m
      <4>2. hand' = <<m>>
        BY <1>1, <1>4a, <2>1, <4>1
      <4> QED
        BY <1>4, <4>1, <4>2
    <3>2. CASE i # 1
      <4>1. posts[i][1] = q /\ q # "stop"
        BY <2>3, FixAssumption
      <4>2. q # p
        BY <1>2, <3>2, <4>1 DEF PostInv, p
      <4> QED
        BY <1>3, <2>1, <2>3, <3>2, <4>2
    <3> QED
      BY <3>1, <3>2
  <2> QED
    BY <1>1, <2>2, <2>3 DEF OnItsWay
<1>12. rx' \in Seq(Message \cup Finishes)
  BY <1>1 DEF PostInv
<1> QED
  BY <1>3, <1>4, <1>8, <1>9, <1>10, <1>11, <1>12 DEF PostInv

\* The message goes on to the channel.
LEMMA PostDeliver ==
  ASSUME PostInv, Deliver
  PROVE  PostInv'
<1>1. /\ hand # <<>> /\ rx' = Append(rx, Head(hand)) /\ hand' = <<>> /\ UNCHANGED <<posts, printed, proc>>
  BY DEF Deliver
<1>2. /\ Head(hand) \in Message /\ \A i \in DOMAIN hand : hand[i] = Head(hand)
  BY <1>1 DEF PostInv
<1>3. /\ rx' \in Seq(Message \cup Finishes)
      /\ \A i \in DOMAIN rx : i \in DOMAIN rx' /\ rx'[i] = rx[i]
      /\ \E i \in DOMAIN rx' : rx'[i] = Head(hand)
  <2>1. rx \in Seq(Message \cup Finishes) /\ Head(hand) \in Message \cup Finishes
    BY <1>2 DEF PostInv
  <2> HIDE DEF Message, Finishes
  <2> QED
    BY <1>1, <2>1
<1>4. ASSUME NEW q \in Process, ~At(q, "killed")', NEW x \in proc'[q].told
      PROVE  OnItsWay(q, x)'
  <2>1. OnItsWay(q, x)
    BY <1>1, <1>4 DEF PostInv, At
  <2> QED
    BY <1>1, <1>2, <1>3, <2>1 DEF OnItsWay, At
<1>5. hand' \in Seq(Message) /\ DOMAIN hand' = {}
  BY <1>1
<1> QED
  BY <1>1, <1>3, <1>4, <1>5 DEF PostInv

\* A step that posts nothing keeps PostInv if no process leaves the server
\* alone with its message, except when it is killed.
LEMMA PostMove ==
  ASSUME PostInv, NEW p \in Process, \A q \in Process \ {p} : proc'[q] = proc[q],
         proc'[p].told = proc[p].told, UNCHANGED <<posts, hand, printed>>,
         rx' \in {rx, Append(rx, FinishOf(p))},
         proc[p].pc \in {"posting", "killed"} => proc'[p].pc = "killed"
  PROVE  PostInv'
<1>1. /\ rx' \in Seq(Message \cup Finishes)
      /\ \A i \in DOMAIN rx : i \in DOMAIN rx' /\ rx'[i] = rx[i]
  <2>1. rx \in Seq(Message \cup Finishes) /\ FinishOf(p) \in Message \cup Finishes
    BY DEF PostInv, Finishes
  <2> HIDE DEF Message, Finishes
  <2> QED
    BY <2>1
<1>2. \A q \in Process : proc'[q].told \subseteq Message
  BY DEF PostInv
<1>3. \A i \in DOMAIN posts' : posts'[i][1] # "stop" => proc'[posts'[i][1]].pc \in {"posting", "killed"}
  <2> SUFFICES ASSUME NEW i \in DOMAIN posts, posts[i][1] # "stop"
               PROVE proc'[posts[i][1]].pc \in {"posting", "killed"}
    OBVIOUS
  <2>1. posts[i][1] \in Process /\ proc[posts[i][1]].pc \in {"posting", "killed"}
    BY DEF PostInv
  <2> QED
    BY <2>1
<1>4. ASSUME NEW q \in Process, ~At(q, "killed")', NEW x \in proc'[q].told
      PROVE  OnItsWay(q, x)'
  <2>1. x \in proc[q].told /\ ~At(q, "killed") /\ (At(q, "posting") => At(q, "posting")')
    BY <1>4 DEF At
  <2> QED
    BY <1>1, <2>1 DEF PostInv, OnItsWay
<1> QED
  BY <1>1, <1>2, <1>3, <1>4 DEF PostInv

\* Message::post keeps it: the message is queued and the process waits.
LEMMA PostPost ==
  ASSUME ProcShape, PostInv, NEW p \in Process, NEW m \in Message, NEW l, post(p, m, l),
         proc[p].pc \notin {"posting", "killed"}, UNCHANGED <<hand, rx, printed>>
  PROVE  PostInv'
<1>1. /\ \A q \in Process \ {p} : proc'[q] = proc[q]
      /\ proc'[p].told = proc[p].told \cup {m} /\ proc'[p].pc = "posting"
  BY PostEffect DEF Moved
<1>2. \A i \in DOMAIN posts : posts[i][1] # "stop" => posts[i][1] \in Process \ {p}
  BY DEF PostInv
<1>2a. p # "stop"
  BY FixAssumption
<1>3. /\ posts' \in Seq((Process \X Message) \cup {<<"stop", None>>})
      /\ \A i \in DOMAIN posts : i \in DOMAIN posts' /\ posts'[i] = posts[i]
      /\ Len(posts) + 1 \in DOMAIN posts' /\ posts'[Len(posts) + 1] = <<p, m>>
      /\ \A i \in DOMAIN posts' : i \in DOMAIN posts \/ i = Len(posts) + 1
  <2>1. /\ posts \in Seq((Process \X Message) \cup {<<"stop", None>>})
        /\ <<p, m>> \in (Process \X Message) \cup {<<"stop", None>>} /\ posts' = Append(posts, <<p, m>>)
    BY DEF PostInv, post
  <2> DEFINE S == (Process \X Message) \cup {<<"stop", None>>}
             e == <<p, m>>
  <2>2. posts \in Seq(S) /\ e \in S /\ posts' = Append(posts, e)
    BY <2>1
  <2> HIDE DEF S, e
  <2>3. /\ posts' \in Seq(S)
        /\ \A i \in DOMAIN posts : i \in DOMAIN posts' /\ posts'[i] = posts[i]
        /\ Len(posts) + 1 \in DOMAIN posts' /\ posts'[Len(posts) + 1] = e
        /\ \A i \in DOMAIN posts' : i \in DOMAIN posts \/ i = Len(posts) + 1
    BY <2>2
  <2> QED
    BY Zenon, <2>3 DEF S, e
<1>4. \A q \in Process : proc'[q].told \subseteq Message
  BY <1>1 DEF PostInv
<1>5. \A i \in DOMAIN posts' : posts'[i][1] # "stop" => proc'[posts'[i][1]].pc \in {"posting", "killed"}
  <2> SUFFICES ASSUME NEW i \in DOMAIN posts', posts'[i][1] # "stop"
               PROVE proc'[posts'[i][1]].pc \in {"posting", "killed"}
    OBVIOUS
  <2>1. CASE i \in DOMAIN posts
    BY <1>1, <1>2, <1>3, <2>1 DEF PostInv
  <2>2. CASE i = Len(posts) + 1
    BY <1>1, <1>3, <2>2
  <2> QED
    BY <1>3, <2>1, <2>2
<1>6. \A i, j \in DOMAIN posts' : posts'[i][1] # "stop" /\ posts'[i][1] = posts'[j][1] => i = j
  BY <1>2, <1>2a, <1>3 DEF PostInv
<1>7. ASSUME NEW q \in Process, ~At(q, "killed")', NEW x \in proc'[q].told
      PROVE  OnItsWay(q, x)'
  <2>1. CASE q = p /\ x = m
    BY <1>1, <1>3, <2>1 DEF At, OnItsWay
  <2>2. CASE ~(q = p /\ x = m)
    <3>1. x \in proc[q].told /\ ~At(q, "killed") /\ (At(q, "posting") => At(q, "posting")')
      BY <1>1, <1>7, <2>2 DEF At
    <3> QED
      BY <1>3, <3>1 DEF PostInv, OnItsWay
  <2> QED
    BY <2>1, <2>2
<1>8. rx' \in Seq(Message \cup Finishes) /\ hand' = hand
  BY DEF PostInv
<1> QED
  BY <1>3, <1>4, <1>5, <1>6, <1>7, <1>8 DEF PostInv

\* A step of a wrapper process.
LEMMA PostWrapper ==
  ASSUME ProcShape, PostInv, NEW p \in Process, Wrapper(p) \/ Die(p) \/ Spawn(p) \/ Reap(p)
  PROVE  PostInv'
<1>g. \A l : Goto(p, l) => /\ \A q \in Process \ {p} : proc'[q] = proc[q]
                           /\ proc'[p].told = proc[p].told /\ proc'[p].pc = l
  BY GotoEffect DEF Moved
<1>m. \A t \in {"EditionAlreadyEnabled", "ReplaceFailed", "Fixing", "FixFailed"} : Msg(p, t) \in Message
  BY FixAssumption DEF Msg, Message
<1> USE DEF lockServer, At
<1>1. CASE Spawn(p) \/ lock(p) \/ Locked(p) \/ Unlock(p) \/ Final(p) \/ Die(p)
  <2>1. /\ \E l : Goto(p, l) /\ (proc[p].pc \in {"posting", "killed"} => l = "killed")
        /\ UNCHANGED <<posts, hand, printed, rx>>
    BY <1>1 DEF Spawn, lock, Locked, Unlock, Final, Die, Ended
  <2> QED
    BY <1>g, <2>1, PostMove
<1>2. CASE VerifyEdition(p) \/ Report(p) \/ Verify(p) \/ BackOut(p)
  <2>1. /\ proc[p].pc \notin {"posting", "killed"} /\ UNCHANGED <<hand, rx, printed>>
        /\ \/ UNCHANGED posts /\ \E l : Goto(p, l)
           \/ \E t \in {"EditionAlreadyEnabled", "ReplaceFailed", "Fixing", "FixFailed"} :
                \E l : post(p, Msg(p, t), l)
    BY Zenon, <1>2 DEF VerifyEdition, Report, Verify, BackOut
  <2>2. CASE UNCHANGED posts /\ \E l : Goto(p, l)
    BY <1>g, <2>1, <2>2, PostMove
  <2>3. CASE \E t \in {"EditionAlreadyEnabled", "ReplaceFailed", "Fixing", "FixFailed"} :
                \E l : post(p, Msg(p, t), l)
    BY <1>m, <2>1, <2>3, PostPost
  <2> QED
    BY <2>1, <2>2, <2>3
<1>3. CASE Reap(p)
  <2>1. /\ Moved(p, proc[p].pc, "reaped", proc[p].told, proc[p].orig, proc[p].sugg)
        /\ rx' = Append(rx, FinishOf(p)) /\ UNCHANGED <<posts, hand, printed>> /\ proc[p].pc # "posting"
    BY Zenon, <1>3, ReapEffect DEF Reap, Ended
  <2> QED
    BY <2>1, PostMove DEF Moved
<1>4. CASE RunRustc(p) \/ rustfix_and_fix(p)
  <2>1. /\ \A q \in Process \ {p} : proc'[q] = proc[q]
        /\ proc'[p].told = proc[p].told
    BY <1>4, RustcEffect, FixEffect DEF Moved
  <2>2. proc[p].pc \notin {"posting", "killed"} /\ UNCHANGED <<posts, hand, printed, rx>>
    BY Zenon, <1>4 DEF RunRustc, rustfix_and_fix
  <2> QED
    BY <2>1, <2>2, PostMove
<1> QED
  BY <1>1, <1>2, <1>3, <1>4 DEF Wrapper

\* The job queue prints what it takes from its channel, unless it is a Finish.
LEMMA PostReceive ==
  ASSUME PostInv, Receive
  PROVE  PostInv'
<1>1. /\ rx # <<>> /\ rx' = Tail(rx) /\ UNCHANGED <<posts, hand, proc>>
      /\ printed' = IF Head(rx).type = "Finish" THEN printed ELSE printed \cup {Head(rx)}
  BY DEF Receive
<1>2. /\ rx' \in Seq(Message \cup Finishes)
      /\ \A i \in DOMAIN rx : rx[i] = Head(rx) \/ (i - 1 \in DOMAIN rx' /\ rx'[i - 1] = rx[i])
  <2>1. rx \in Seq(Message \cup Finishes)
    BY DEF PostInv
  <2> HIDE DEF Message, Finishes
  <2> QED
    BY <1>1, <2>1
<1>3. \A x \in Message : x.type # "Finish"
  BY DEF Message
<1>4. ASSUME NEW q \in Process, ~At(q, "killed")', NEW x \in proc'[q].told
      PROVE  OnItsWay(q, x)'
  <2>1. x \in Message /\ x.type # "Finish" /\ OnItsWay(q, x)
    BY <1>1, <1>3, <1>4 DEF PostInv, At
  <2>2. ASSUME NEW i \in DOMAIN rx, rx[i] = x
        PROVE  x \in printed' \/ \E j \in DOMAIN rx' : rx'[j] = x
    BY Zenon, <1>1, <1>2, <2>1, <2>2
  <2> QED
    BY <1>1, <2>1, <2>2 DEF At, OnItsWay
<1> QED
  BY <1>1, <1>2, <1>4 DEF PostInv

\* No step breaks PostInv.
LEMMA PostStep ==
  ASSUME FixInv, PostInv, [Next]_vars
  PROVE  PostInv'
<1>0. ProcShape /\ HolderInv
  BY DEF FixInv
<1>1. ASSUME \/ fix \/ StopLockServer \/ Accept \/ Shutdown \/ UNCHANGED vars
             \/ \E f \in File : TakeNext(f) \/ Grant(f) \/ Eof(f)
      PROVE  PostInv'
  <2>1. UNCHANGED <<proc, posts, hand, rx, printed>>
    BY Zenon, <1>1 DEF fix, StopLockServer, Accept, Shutdown, TakeNext, Grant, Eof, vars
  <2> QED
    BY <2>1 DEF PostInv, OnItsWay, At
<1>2. ASSUME Stop
      PROVE  PostInv'
  <2> DEFINE S == (Process \X Message) \cup {<<"stop", None>>}
             e == <<"stop", None>>
  <2>1. /\ posts \in Seq(S) /\ e \in S /\ posts' = Append(posts, e)
        /\ UNCHANGED <<proc, hand, rx, printed>>
    BY <1>2 DEF PostInv, Stop
  <2>2. e[1] = "stop"
    OBVIOUS
  <2> HIDE DEF S, e
  <2>3. /\ posts' \in Seq(S)
        /\ \A i \in DOMAIN posts : i \in DOMAIN posts' /\ posts'[i] = posts[i]
        /\ \A i \in DOMAIN posts' : (i \in DOMAIN posts /\ posts'[i] = posts[i]) \/ posts'[i] = e
    BY <2>1
  <2>4. \A q \in Process : \A x : OnItsWay(q, x) => OnItsWay(q, x)'
    BY Zenon, <2>1, <2>3 DEF OnItsWay, At
  <2>5. \A i \in DOMAIN posts' : posts'[i][1] # "stop" => i \in DOMAIN posts /\ posts'[i] = posts[i]
    BY Zenon, <2>2, <2>3
  <2>6. \A i, j \in DOMAIN posts' : posts'[i][1] # "stop" /\ posts'[i][1] = posts'[j][1] => i = j
    BY <2>5 DEF PostInv
  <2>7. \A i \in DOMAIN posts' : posts'[i][1] # "stop" => proc'[posts'[i][1]].pc \in {"posting", "killed"}
    BY <2>1, <2>5 DEF PostInv
  <2>8. posts' \in Seq((Process \X Message) \cup {<<"stop", None>>})
    BY <2>3 DEF S
  <2> QED
    BY <2>1, <2>4, <2>6, <2>7, <2>8 DEF PostInv, At
<1> QED
  BY <1>0, <1>1, <1>2, PostWrapper, PostReceive, PostHangup, PostDeliver DEF Next, Main, Server

\* A process that was started runs until its end is seen.
LEMMA KeepsRunning ==
  ASSUME ProcShape, HolderInv, LateInv, NEW p \in Process, Wrapper(p) \/ Die(p) \/ Spawn(p)
  PROVE  /\ Running(p)' /\ main \notin {"join", "joined", "drop", "done"} /\ main' = main
         /\ \A q \in Process : proc'[q].ret = "reaped" => Ended(q)'
         /\ backlog' \in {backlog, Append(backlog, p)}
<1>g. /\ \A l : Goto(p, l) => Moved(p, l, proc[p].ret, proc[p].told, proc[p].orig, proc[p].sugg)
      /\ \A m, l : post(p, m, l) =>
           Moved(p, "posting", l, proc[p].told \cup {m}, proc[p].orig, proc[p].sugg)
  BY Zenon, GotoEffect, PostEffect
<1>1. ~Ended(p) /\ (Running(p) \/ main = "compile") /\ main' = main
      /\ backlog' \in {backlog, Append(backlog, p)}
  BY Zenon DEF Running, Ended, At, Wrapper, VerifyEdition, lock, Locked, RunRustc, rustfix_and_fix,
               Report, Unlock, Verify, BackOut, Final, Die, Spawn, lockServer
<1>2. proc[p].ret # "reaped" /\ main \notin {"join", "joined", "drop", "done"}
  BY <1>1 DEF LateInv, Idle
<1>3. /\ \A q \in Process \ {p} : proc'[q] = proc[q]
      /\ proc'[p].pc # "start" /\ proc'[p].ret # "reaped"
  <2> USE DEF Moved
  <2>1. CASE Spawn(p) \/ lock(p) \/ Locked(p) \/ Unlock(p) \/ Final(p) \/ Die(p)
    <3>1. \E l : Goto(p, l) /\ l # "start"
      BY <2>1 DEF Spawn, lock, Locked, Unlock, Final, Die
    <3> QED
      BY <1>2, <1>g, <3>1
  <2>2. CASE VerifyEdition(p) \/ Report(p) \/ Verify(p) \/ BackOut(p)
    <3>1. \/ \E l \in {"final", "connect", "unlock", "backout"} : Goto(p, l)
          \/ \E m : \E l \in {"failed", "unlock", "ok", "final"} : post(p, m, l)
      BY Zenon, <2>2 DEF VerifyEdition, Report, Verify, BackOut
    <3> QED
      BY <1>2, <1>g, <3>1
  <2>3. CASE RunRustc(p)
    BY <1>2, <2>3, RustcEffect
  <2>4. CASE rustfix_and_fix(p)
    BY <1>2, <2>4, FixEffect
  <2> QED
    BY <2>1, <2>2, <2>3, <2>4 DEF Wrapper
<1>4. Running(p)'
  BY <1>3 DEF Running, At
<1>5. \A q \in Process : proc'[q].ret = "reaped" => Ended(q)'
  BY <1>3 DEF LateInv, Ended
<1> QED
  BY <1>1, <1>2, <1>4, <1>5

\* The last job to end sends its Finish after everything that is in the channel.
LEMMA LateReap ==
  ASSUME ProcShape, PostInv, LateInv, NEW p \in Process, Reap(p)
  PROVE  LateInv'
<1>1. /\ Moved(p, proc[p].pc, "reaped", proc[p].told, proc[p].orig, proc[p].sugg)
      /\ rx' = Append(rx, FinishOf(p)) /\ UNCHANGED <<main, backlog, posts, hand, printed>> /\ Ended(p)
      /\ proc[p].ret # "reaped"
  BY Zenon, ReapEffect DEF Reap, lockServer
<1>2. Running(p) /\ main \notin {"join", "joined", "drop", "done"}
  BY <1>1 DEF Running, Ended, At, LateInv, Idle
<1>3. \A q \in Process : proc'[q].pc = proc[q].pc /\ proc'[q].told = proc[q].told
  BY <1>1 DEF Moved
<1>4. \A q \in Process : proc'[q].ret = "reaped" => Ended(q)'
  BY <1>1, <1>3 DEF Moved, LateInv, Ended
<1>5. \A i \in DOMAIN rx : \E j \in DOMAIN rx' : i \in DOMAIN rx' /\ i < j /\ rx'[i] = rx[i] /\ rx'[j] \in Finishes
  <2>1. rx \in Seq(Message \cup Finishes) /\ FinishOf(p) \in Finishes
    BY DEF PostInv, Finishes
  <2> HIDE DEF Message, Finishes
  <2>2. /\ Len(rx) + 1 \in DOMAIN rx' /\ rx'[Len(rx) + 1] \in Finishes
        /\ \A i \in DOMAIN rx : i \in DOMAIN rx' /\ i < Len(rx) + 1 /\ rx'[i] = rx[i]
    BY <1>1, <2>1
  <2> QED
    BY Zenon, <2>2
<1>6. ASSUME Idle', NEW q \in Process, ~At(q, "killed")', NEW m \in proc'[q].told
      PROVE  m = hand[1] \/ InTime(m)'
  <2>1. ~At(q, "posting") /\ OnItsWay(q, m)
    BY <1>3, <1>6 DEF Idle, Running, Ended, At, PostInv
  <2> QED
    <3>1. \/ m \in printed
          \/ \E i \in DOMAIN rx : rx[i] = m
          \/ \E i \in DOMAIN hand : hand[i] = m
      BY Zenon, <2>1 DEF OnItsWay
    <3>2. CASE m \in printed
      BY <1>1, <3>2 DEF InTime
    <3>3. CASE \E i \in DOMAIN rx : rx[i] = m
      BY Zenon, <1>5, <3>3 DEF InTime, Finishes, FinishOf
    <3>4. CASE \E i \in DOMAIN hand : hand[i] = m
      BY Zenon, <3>4 DEF PostInv
    <3> QED
      BY <3>1, <3>2, <3>3, <3>4
<1>7. Idle' => \E x : \A q \in Process : ~At(q, "killed")' =>
                  \A m \in proc'[q].told : m = x \/ InTime(m)'
  BY Zenon, <1>6
<1> QED
  BY Zenon, <1>1, <1>2, <1>4, <1>7 DEF LateInv

\* What the job queue takes from its channel while nothing runs.
LEMMA LateReceive ==
  ASSUME PostInv, LateInv, Receive
  PROVE  LateInv'
<1>1. /\ rx # <<>> /\ rx' = Tail(rx) /\ UNCHANGED <<main, backlog, proc>> /\ main = "compile"
      /\ printed' = IF Head(rx).type = "Finish" THEN printed ELSE printed \cup {Head(rx)}
  BY DEF Receive, lockServer
<1>2. /\ \A i \in DOMAIN rx : i = 1 \/ (i - 1 \in DOMAIN rx' /\ rx'[i - 1] = rx[i])
      /\ rx[1] = Head(rx) /\ \A i \in DOMAIN rx : i \in Int /\ i > 0
  <2>1. rx \in Seq(Message \cup Finishes)
    BY DEF PostInv
  <2> HIDE DEF Message, Finishes
  <2> QED
    BY <1>1, <2>1
<1>3. \A m \in Message : m.type # "Finish"
  BY DEF Message
<1>4. ASSUME NEW m \in Message, InTime(m) PROVE InTime(m)'
  <2>1. ASSUME NEW i \in DOMAIN rx, NEW j \in DOMAIN rx, i < j, rx[i] = m, rx[j] \in Finishes
        PROVE  InTime(m)'
    <3>1. CASE i = 1
      BY <1>1, <1>2, <1>3, <2>1, <3>1 DEF InTime
    <3>2. CASE i # 1
      <4>1. /\ i - 1 \in DOMAIN rx' /\ rx'[i - 1] = m
            /\ j - 1 \in DOMAIN rx' /\ rx'[j - 1] \in Finishes /\ i - 1 < j - 1
        BY <1>2, <2>1, <3>2
      <4> QED
        BY Zenon, <4>1 DEF InTime, Finishes, FinishOf
    <3> QED
      BY <3>1, <3>2
  <2>2. CASE m \in printed
    BY <1>1, <2>2 DEF InTime
  <2> QED
    BY <1>4, <2>1, <2>2 DEF InTime
<1>5. Idle' => Idle
  BY <1>1 DEF Idle, Running, Ended, At
<1>6. \A q \in Process : proc'[q].told \subseteq Message /\ (At(q, "killed")' <=> At(q, "killed"))
  BY <1>1 DEF PostInv, At
<1>7. Idle' => \E x : \A q \in Process : ~At(q, "killed")' =>
                  \A m \in proc'[q].told : m = x \/ InTime(m)'
  <2> SUFFICES ASSUME Idle' PROVE \E x : \A q \in Process : ~At(q, "killed")' =>
                                     \A m \in proc'[q].told : m = x \/ InTime(m)'
    OBVIOUS
  <2>1. PICK x : \A q \in Process : ~At(q, "killed") => \A m \in proc[q].told : m = x \/ InTime(m)
    BY Zenon, <1>5 DEF LateInv
  <2>2. \A q \in Process : ~At(q, "killed")' => \A m \in proc'[q].told : m = x \/ InTime(m)'
    BY Zenon, <1>1, <1>4, <1>6, <2>1
  <2> QED
    BY Zenon, <2>2
<1>8. \A q \in Process : proc'[q].ret = "reaped" => Ended(q)'
  BY <1>1 DEF LateInv, Ended
<1> QED
  BY <1>1, <1>7, <1>8 DEF LateInv

\* The other steps move no process and at most lengthen the channel.
LEMMA LateElsewhere ==
  ASSUME PostInv, LateInv, UNCHANGED <<proc, printed>>,
         rx' = rx \/ \E m \in Message : rx' = Append(rx, m),
         \A i \in DOMAIN backlog' : backlog'[i] = "stop" => main' \in {"drop", "done"},
         main' \in {"join", "joined", "drop", "done"} => main \in {"join", "joined", "drop", "done"}
  PROVE  LateInv'
<1>1. \A i \in DOMAIN rx : i \in DOMAIN rx' /\ rx'[i] = rx[i]
  <2>1. rx \in Seq(Message \cup Finishes)
    BY DEF PostInv
  <2> HIDE DEF Message, Finishes
  <2> QED
    BY <2>1
<1>2. \A m : InTime(m) => InTime(m)'
  BY Zenon, <1>1 DEF InTime, Finishes, FinishOf
<1>3. Idle' <=> Idle
  BY DEF Idle, Running, Ended, At
<1>4. \A q \in Process : proc'[q] = proc[q] /\ (At(q, "killed")' <=> At(q, "killed"))
  BY DEF At
<1>5. Idle' => \E x : \A q \in Process : ~At(q, "killed")' =>
                  \A m \in proc'[q].told : m = x \/ InTime(m)'
  <2> SUFFICES ASSUME Idle PROVE \E x : \A q \in Process : ~At(q, "killed")' =>
                                     \A m \in proc'[q].told : m = x \/ InTime(m)'
    BY Zenon, <1>3
  <2>1. PICK x : \A q \in Process : ~At(q, "killed") => \A m \in proc[q].told : m = x \/ InTime(m)
    BY Zenon DEF LateInv
  <2>2. \A q \in Process : ~At(q, "killed")' => \A m \in proc'[q].told : m = x \/ InTime(m)'
    BY Zenon, <1>2, <1>4, <2>1
  <2> QED
    BY Zenon, <2>2
<1>6. \A q \in Process : proc'[q].ret = "reaped" => Ended(q)'
  BY <1>4 DEF LateInv, Ended
<1>7. main' \in {"join", "joined", "drop", "done"} =>
       Idle' /\ \E x : \A q \in Process : ~At(q, "killed")' => proc'[q].told \subseteq printed' \cup {x}
  <2> SUFFICES ASSUME main \in {"join", "joined", "drop", "done"}
               PROVE  Idle' /\ \E x : \A q \in Process : ~At(q, "killed")' =>
                                        proc'[q].told \subseteq printed' \cup {x}
    OBVIOUS
  <2>1. PICK x : \A q \in Process : ~At(q, "killed") => proc[q].told \subseteq printed \cup {x}
    BY Zenon DEF LateInv
  <2>2. \A q \in Process : ~At(q, "killed")' => proc'[q].told \subseteq printed' \cup {x}
    BY <1>4, <2>1
  <2>3. Idle'
    BY <1>3 DEF LateInv
  <2> QED
    BY Zenon, <2>2, <2>3
<1> QED
  BY Zenon, <1>5, <1>6, <1>7 DEF LateInv

\* No step breaks LateInv.
LEMMA LateStep ==
  ASSUME FixInv, PostInv, LateInv, [Next]_vars
  PROVE  LateInv'
<1>0. ProcShape /\ ServerInv /\ HolderInv /\ backlog \in Seq(Process \cup {"stop"})
  BY DEF FixInv, ServerInv
<1>1. ASSUME NEW p \in Process, Wrapper(p) \/ Die(p) \/ Spawn(p)
      PROVE  LateInv'
  <2>1. /\ ~Idle' /\ main \notin {"join", "joined", "drop", "done"} /\ main' = main
        /\ \A q \in Process : proc'[q].ret = "reaped" => Ended(q)'
        /\ backlog' \in {backlog, Append(backlog, p)}
    BY <1>0, <1>1, KeepsRunning DEF Idle
  <2>2. p # "stop"
    BY FixAssumption
  <2>3. \A i \in DOMAIN backlog' : backlog'[i] # "stop"
    <3>1. \A i \in DOMAIN backlog : backlog[i] # "stop"
      BY <2>1 DEF LateInv
    <3>2. \A i \in DOMAIN Append(backlog, p) : Append(backlog, p)[i] # "stop"
      BY <1>0, <2>2, <3>1
    <3> QED
      BY <2>1, <3>1, <3>2
  <2> QED
    BY <2>1, <2>3 DEF LateInv
<1>2. CASE Stop
  <2>1. /\ main' = "join" /\ main = "compile" /\ UNCHANGED <<proc, backlog, rx, printed>>
        /\ Idle /\ \A p \in Process : FinishOf(p) \notin Range(rx)
    BY <1>2 DEF Stop, Active, Idle, lockServer
  <2>2. \A i \in DOMAIN rx : rx[i] \notin Finishes
    BY <2>1 DEF Finishes, Range
  <2>3. PICK x : \A q \in Process : ~At(q, "killed") => \A m \in proc[q].told : m = x \/ InTime(m)
    BY Zenon, <2>1 DEF LateInv
  <2>4. \A q \in Process : ~At(q, "killed")' => proc'[q].told \subseteq printed' \cup {x}
    BY <2>1, <2>2, <2>3 DEF InTime, At
  <2>5. Idle' /\ \A q \in Process : proc'[q].ret = "reaped" => Ended(q)'
    BY <2>1 DEF Idle, Running, Ended, At, LateInv
  <2>6. \E y : \A q \in Process : ~At(q, "killed")' => \A m \in proc'[q].told : m = y \/ InTime(m)'
    BY <2>4 DEF InTime
  <2>7. \A i \in DOMAIN backlog' : backlog'[i] # "stop"
    BY <2>1 DEF LateInv
  <2> QED
    BY Zenon, <2>4, <2>5, <2>6, <2>7 DEF LateInv
<1>3. CASE Accept
  <2>1. UNCHANGED <<main, proc, rx, printed>> /\ backlog # <<>> /\ backlog' = Tail(backlog)
    BY <1>3 DEF Accept
  <2>2. \A i \in DOMAIN backlog' : i + 1 \in DOMAIN backlog /\ backlog'[i] = backlog[i + 1]
    BY <1>0, <2>1
  <2>3. \A i \in DOMAIN backlog' : backlog'[i] = "stop" => main' \in {"drop", "done"}
    BY <2>1, <2>2 DEF LateInv
  <2> QED
    BY <2>1, <2>3, LateElsewhere
<1>4. CASE Shutdown
  <2>1. backlog # <<>> /\ Head(backlog) = "stop" /\ main' = "done" /\ backlog' = <<>>
        /\ UNCHANGED <<proc, rx, printed>>
    BY <1>4 DEF Shutdown
  <2>2. main \in {"drop", "done"}
    BY <1>0, <2>1 DEF LateInv
  <2> QED
    BY <2>1, <2>2, LateElsewhere
<1>5. CASE StopLockServer
  <2>1. main = "joined" /\ main' = "drop" /\ UNCHANGED <<proc, rx, printed>>
    BY <1>5 DEF StopLockServer
  <2> QED
    BY <2>1, LateElsewhere
<1>6. CASE Deliver
  <2>1. /\ UNCHANGED <<backlog, proc, printed>> /\ rx' = Append(rx, Head(hand)) /\ hand # <<>>
        /\ main' = main \/ (main = "join" /\ main' = "joined")
    BY <1>6 DEF Deliver, TestDone, lockServer
  <2>2. Head(hand) \in Message
    BY <2>1 DEF PostInv
  <2>3. \A i \in DOMAIN backlog' : backlog'[i] = "stop" => main' \in {"drop", "done"}
    BY <2>1 DEF LateInv
  <2> QED
    BY <2>1, <2>2, <2>3, LateElsewhere
<1>7. CASE Hangup
  <2>1. /\ UNCHANGED <<backlog, rx, printed>>
        /\ main' = main \/ (main = "join" /\ main' = "joined")
    BY <1>7 DEF Hangup, TestDone, lockServer
  <2>2. \A i \in DOMAIN backlog' : backlog'[i] = "stop" => main' \in {"drop", "done"}
    BY <2>1 DEF LateInv
  <2>3. CASE proc' = proc
    BY <2>1, <2>2, <2>3, LateElsewhere
  <2>4. ASSUME NEW p \in Process, At(p, "posting"), UNCHANGED main,
               Moved(p, proc[p].ret, proc[p].ret, proc[p].told, proc[p].orig, proc[p].sugg)
        PROVE  LateInv'
    <3>1. /\ proc[p].ret \in {"failed", "unlock", "ok", "final"}
          /\ Running(p) /\ main \notin {"join", "joined", "drop", "done"}
      BY <1>0, <2>4 DEF HolderInv, Running, Ended, At, LateInv, Idle
    <3>2. Running(p)' /\ \A q \in Process : proc'[q].ret = "reaped" => Ended(q)'
      BY <2>4, <3>1 DEF Moved, Running, Ended, At, LateInv
    <3> QED
      BY <2>2, <2>4, <3>1, <3>2 DEF LateInv, Idle
  <2> QED
    BY <1>0, <1>7, <2>3, <2>4, HangupEffect
<1>8. CASE fix
  <2>1. main' \in {"compile", "refused"} /\ main = "check" /\ UNCHANGED <<backlog, proc, rx, printed>>
    BY <1>8 DEF fix, lockServer
  <2> QED
    BY <2>1, LateElsewhere DEF LateInv
<1>9. CASE (\E f \in File : TakeNext(f) \/ Grant(f) \/ Eof(f)) \/ UNCHANGED vars
  <2>1. UNCHANGED <<main, backlog, proc, rx, printed>>
    BY Zenon, <1>9 DEF TakeNext, Grant, Eof, vars, lockServer
  <2> QED
    BY <2>1, LateElsewhere DEF LateInv
<1> QED
  BY <1>0, <1>1, <1>2, <1>3, <1>4, <1>5, <1>6, <1>7, <1>8, <1>9, LateReap, LateReceive DEF Next, Main, Server

\* For any number of processes and messages, at most one message of a process
\* that was not killed is left unprinted when the build is over: a process ends
\* after its messages were read, the server holds one of them, and the others
\* are in the channel before the last Finish.
THEOREM AllButOnePrinted == Spec => []OneUnprinted
<1>1. Init => PostInv /\ LateInv
  BY PostInvInit
<1>2. FixInv /\ (PostInv /\ LateInv) /\ [Next]_vars => (PostInv /\ LateInv)'
  BY PostStep, LateStep
<1>3. LateInv => OneUnprinted
  <2> SUFFICES ASSUME LateInv, main \in {"join", "joined", "drop", "done"}
               PROVE  \E m \in {None} \cup UNION {proc[p].told : p \in Process} :
                        \A p \in Process : ~At(p, "killed") => proc[p].told \subseteq printed \cup {m}
    BY DEF OneUnprinted
  <2>1. PICK x : \A p \in Process : ~At(p, "killed") => proc[p].told \subseteq printed \cup {x}
    BY Zenon DEF LateInv
  <2>2. CASE x \in UNION {proc[p].told : p \in Process}
    BY Zenon, <2>1, <2>2
  <2>3. CASE x \notin UNION {proc[p].told : p \in Process}
    <3>1. \A p \in Process : ~At(p, "killed") => proc[p].told \subseteq printed \cup {None}
      BY Zenon, <2>1, <2>3
    <3> QED
      BY Zenon, <3>1
  <2> QED
    BY <2>2, <2>3
<1> QED
  BY <1>1, <1>2, <1>3, LockServerInvariant, PTL DEF Spec

--------------------------------------------------------------------------------
(* Backing out                                                             *)

\* The crates of a file agree on which fixes are bad.
Agree == \A p, q \in Process : Entry[p] = Entry[q] => Bad[p] = Bad[q]

\* From the lock to the moment the fixes are kept or backed out.
Fixing(p) == InCriticalSection(p) \/ proc[p].pc \in {"verify", "backout"}

\* The code that a process keeps to back out to has no bad fix, since fixes are
\* applied to code that compiles; and while a file has a bad fix some process
\* that has changed it has yet to verify its work, or was killed.
BackInv ==
  /\ content \in [File -> SUBSET Fixes]
  /\ \A p \in Process : proc[p].sugg \subseteq Fixes
  /\ \A p \in Process : proc[p].orig # None =>
       proc[p].orig \subseteq Fixes /\ proc[p].orig \cap Bad[p] = {}
  /\ \A p \in Process : At(p, "apply") => Compiles(p)
  /\ \A p \in Process : proc[p].pc \in {"verify", "backout"} => proc[p].orig # None
  /\ \A p \in Process : ~Compiles(p) =>
       \E q \in Process : /\ Entry[q] = Entry[p]
                          /\ At(q, "killed") \/ (Fixing(q) /\ proc[q].orig # None)

\* No file has a fix at the start.
LEMMA BackInvInit == Init => BackInv
<1> SUFFICES ASSUME Init PROVE BackInv
  OBVIOUS
<1>1. PICK a \in [Process -> Args] : proc = [p \in Process |-> NewProc(a[p])]
  BY DEF Init
<1>2. \A p \in Process : proc[p].pc = "start" /\ proc[p].sugg = {} /\ proc[p].orig = None
  BY <1>1 DEF NewProc
<1>3. \A p \in Process : Compiles(p)
  BY FixAssumption DEF Init, Compiles
<1> QED
  BY <1>2, <1>3 DEF Init, BackInv, At

\* A step of a process that leaves the files alone.
LEMMA BackMove ==
  ASSUME Agree, BackInv, NEW p \in Process, \A q \in Process \ {p} : proc'[q] = proc[q],
         content' = content, proc'[p].orig = proc[p].orig, proc'[p].sugg \subseteq Fixes,
         proc'[p].pc = "apply" => Compiles(p),
         proc'[p].pc \in {"verify", "backout"} => proc[p].orig # None,
         At(p, "killed") => At(p, "killed")',
         Fixing(p) /\ proc[p].orig # None => At(p, "killed")' \/ Fixing(p)' \/ Compiles(p)
  PROVE  BackInv'
<1>1. \A r \in Process : Compiles(r)' <=> Compiles(r)
  BY DEF Compiles
<1>2. \A q \in Process \ {p} : /\ At(q, "killed")' <=> At(q, "killed")
                               /\ Fixing(q)' <=> Fixing(q)
  BY DEF Fixing, InCriticalSection, At
<1>3. ASSUME NEW r \in Process, ~Compiles(r)
      PROVE  \E q \in Process : /\ Entry[q] = Entry[r]
                                /\ At(q, "killed")' \/ (Fixing(q)' /\ proc'[q].orig # None)
  <2>1. PICK q \in Process : /\ Entry[q] = Entry[r]
                             /\ At(q, "killed") \/ (Fixing(q) /\ proc[q].orig # None)
    BY <1>3 DEF BackInv
  <2>2. ~Compiles(q)
    BY <1>3, <2>1 DEF Compiles, Agree
  <2> QED
    BY <1>2, <2>1, <2>2
<1> QED
  BY <1>1, <1>3 DEF BackInv, At

\* The step of a process that rewrites its file.
Written(p, c) ==
  /\ \A q \in Process \ {p} : proc'[q] = proc[q]
  /\ content' = [content EXCEPT ![Entry[p]] = c]
  /\ proc'[p].sugg \subseteq Fixes
  /\ proc'[p].orig # None => proc'[p].orig \subseteq Fixes /\ proc'[p].orig \cap Bad[p] = {}
  /\ proc'[p].pc \notin {"apply", "verify", "backout"}
  /\ \A q \in Process \ {p} : Entry[q] = Entry[p] /\ At(q, "apply") => c \cap Bad[q] = {}
  /\ \/ Fixing(p)' /\ proc'[p].orig # None
     \/ \A q \in Process : Entry[q] = Entry[p] => c \cap Bad[q] = {}

\* It is safe if others that could apply fixes to the file still compile.
LEMMA BackWrite ==
  ASSUME BackInv, NEW p \in Process, NEW c \in SUBSET Fixes, Written(p, c)
  PROVE  BackInv'
<1>1. /\ content' \in [File -> SUBSET Fixes]
      /\ \A r \in Process : Entry[r] = Entry[p] => (Compiles(r)' <=> c \cap Bad[r] = {})
      /\ \A r \in Process : Entry[r] # Entry[p] => (Compiles(r)' <=> Compiles(r))
  BY FixAssumption DEF Written, BackInv, Compiles
<1>2. \A q \in Process \ {p} : /\ At(q, "killed")' <=> At(q, "killed")
                               /\ Fixing(q)' <=> Fixing(q)
  BY DEF Written, Fixing, InCriticalSection, At
<1>3. ASSUME NEW r \in Process, ~Compiles(r)'
      PROVE  \E q \in Process : /\ Entry[q] = Entry[r]
                                /\ At(q, "killed")' \/ (Fixing(q)' /\ proc'[q].orig # None)
  <2>1. CASE Entry[r] = Entry[p]
    <3>1. Fixing(p)' /\ proc'[p].orig # None
      BY Zenon, <1>1, <1>3, <2>1 DEF Written
    <3> QED
      BY Zenon, <2>1, <3>1
  <2>2. CASE Entry[r] # Entry[p]
    <3>1. PICK q \in Process : /\ Entry[q] = Entry[r]
                               /\ At(q, "killed") \/ (Fixing(q) /\ proc[q].orig # None)
      BY Zenon, <1>1, <1>3, <2>2 DEF BackInv
    <3>2. q # p
      BY <2>2, <3>1
    <3>3. proc'[q] = proc[q]
      BY <3>2 DEF Written
    <3> QED
      BY Zenon, <1>2, <3>1, <3>2, <3>3
  <2> QED
    BY Zenon, <2>1, <2>2
<1>4. \A q \in Process : At(q, "apply")' => Compiles(q)'
  BY <1>1 DEF Written, BackInv, At
<1> QED
  BY <1>1, <1>3, <1>4 DEF Written, BackInv

\* A step of a wrapper process.
LEMMA BackWrapper ==
  ASSUME ~BrokenCode, Agree, FixInv, BackInv, NEW p \in Process,
         Wrapper(p) \/ Die(p) \/ Spawn(p) \/ Reap(p)
  PROVE  BackInv'
<1>0. ProcShape /\ proc[p].sugg \subseteq Fixes
  BY DEF FixInv, BackInv
<1>g. /\ \A l : Goto(p, l) => Moved(p, l, proc[p].ret, proc[p].told, proc[p].orig, proc[p].sugg)
      /\ \A m, l : post(p, m, l) =>
           Moved(p, "posting", l, proc[p].told \cup {m}, proc[p].orig, proc[p].sugg)
  BY Zenon, <1>0, GotoEffect, PostEffect
<1> USE DEF lockServer, At
<1> DEFINE Own == /\ \A q \in Process \ {p} : proc'[q] = proc[q]
                  /\ content' = content /\ proc'[p].orig = proc[p].orig /\ proc'[p].sugg \subseteq Fixes
                  /\ proc'[p].pc = "apply" => Compiles(p)
                  /\ proc'[p].pc \in {"verify", "backout"} => proc[p].orig # None
                  /\ At(p, "killed") => At(p, "killed")'
                  /\ Fixing(p) /\ proc[p].orig # None => At(p, "killed")' \/ Fixing(p)' \/ Compiles(p)
<1>m. Own => BackInv'
  BY BackMove
<1>1. CASE Spawn(p) \/ lock(p) \/ Locked(p) \/ Unlock(p) \/ Final(p) \/ Die(p)
  <2>1. PICK l : /\ Goto(p, l) /\ content' = content
                 /\ l \notin {"apply", "backout"} /\ (l = "verify" => proc[p].orig # None)
                 /\ At(p, "killed") => l = "killed"
                 /\ Fixing(p) /\ proc[p].orig # None => l = "killed" \/ l = "verify"
    BY <1>1 DEF Fixing, InCriticalSection, Spawn, lock, Locked, Unlock, Final, Die, Ended
  <2>2. Own
    BY <1>0, <1>g, <2>1 DEF Moved, Fixing
  <2> QED
    BY <1>m, <2>2
<1>2. CASE VerifyEdition(p) \/ Report(p) \/ Verify(p)
  <2>1. content' = content /\ ~At(p, "killed") /\ (At(p, "verify") => proc[p].orig # None)
    BY Zenon, <1>2 DEF VerifyEdition, Report, Verify, BackInv
  <2>2. CASE VerifyEdition(p)
    <3>1. /\ At(p, "verify_edition")
          /\ (\E l \in {"final", "connect"} : Goto(p, l)) \/ (\E m : post(p, m, "failed"))
      BY Zenon, <2>2 DEF VerifyEdition
    <3>2. \E l \in {"final", "connect", "posting"}, r \in {proc[p].ret, "failed"} : \E t :
            Moved(p, l, r, t, proc[p].orig, proc[p].sugg)
      BY Zenon, <1>g, <3>1
    <3>3. ~Fixing(p)
      BY <3>1 DEF Fixing, InCriticalSection
    <3>4. Own
      BY <1>0, <2>1, <3>2, <3>3 DEF Moved
    <3> QED
      BY <1>m, <3>4
  <2>3. CASE Report(p)
    <3>1. PICK l \in {"unlock", "posting"} : \E x, t :
            /\ Moved(p, l, x, t, proc[p].orig, proc[p].sugg)
            /\ l = "posting" => x = "unlock"
      BY Zenon, <1>g, <2>3 DEF Report
    <3>2. Own
      BY <1>0, <2>1, <3>1 DEF Moved, Fixing, InCriticalSection
    <3> QED
      BY <1>m, <3>2
  <2>4. CASE Verify(p)
    <3>1. PICK l \in {"backout", "posting"} : \E x, t :
            /\ Moved(p, l, x, t, proc[p].orig, proc[p].sugg)
            /\ l = "backout" \/ Compiles(p)
      BY Zenon, <1>g, <2>4 DEF Verify
    <3>2. At(p, "verify")
      BY Zenon, <2>4 DEF Verify
    <3>3. Own
      BY <1>0, <2>1, <3>1, <3>2 DEF Moved, Fixing, InCriticalSection
    <3> QED
      BY <1>m, <3>3
  <2> QED
    BY <1>2, <2>2, <2>3, <2>4
<1>3. CASE Reap(p)
  <2>1. Moved(p, proc[p].pc, "reaped", proc[p].told, proc[p].orig, proc[p].sugg)
    BY <1>0, <1>3, ReapEffect
  <2>2. Own
    BY <1>0, <1>3, <2>1 DEF Moved, Fixing, InCriticalSection, Reap, Ended
  <2> QED
    BY <1>m, <2>2
<1>4. CASE RunRustc(p)
  <2>1. PICK s : /\ s = IF Compiles(p) \/ BrokenCode THEN Fixes \ content[Entry[p]] ELSE {}
                 /\ Moved(p, IF s = {} THEN "report" ELSE "apply", proc[p].ret, proc[p].told,
                          proc[p].orig, s)
    BY <1>0, <1>4, RustcEffect
  <2>2. s \subseteq Fixes /\ (s # {} => Compiles(p))
    BY <2>1
  <2>3. content' = content /\ ~At(p, "killed")
    BY <1>4 DEF RunRustc
  <2>4. Own
    BY <2>1, <2>2, <2>3 DEF Moved, Fixing, InCriticalSection
  <2> QED
    BY <1>m, <2>4
<1>5. CASE rustfix_and_fix(p)
  <2>1. PICK ok \in SUBSET proc[p].sugg, l \in {"round", "report"} :
          /\ content' = [content EXCEPT ![Entry[p]] = @ \cup ok]
          /\ Moved(p, l, proc[p].ret, proc[p].told, Original(p), {})
    BY Zenon, <1>0, <1>5, FixEffect
  <2>2. content[Entry[p]] \in SUBSET Fixes /\ content[Entry[p]] \cup ok \in SUBSET Fixes
    BY <1>0, FixAssumption DEF BackInv
  <2>3. content' = [content EXCEPT ![Entry[p]] = content[Entry[p]] \cup ok]
    BY <2>1
  <2>4. At(p, "apply") /\ Compiles(p)
    BY <1>5 DEF rustfix_and_fix, BackInv
  <2>5. Original(p) \subseteq Fixes /\ Original(p) \cap Bad[p] = {} /\ Original(p) # None
    BY <2>2, <2>4, FixAssumption DEF Original, BackInv, Compiles
  <2>6. \A q \in Process \ {p} : Entry[q] = Entry[p] => ~At(q, "apply")
    BY Zenon, <2>4 DEF FixInv, HolderInv, InCriticalSection
  <2>7. /\ \A q \in Process \ {p} : proc'[q] = proc[q]
        /\ proc'[p].pc \in {"round", "report"} /\ proc'[p].orig = Original(p) /\ proc'[p].sugg = {}
    BY <2>1 DEF Moved
  <2>8. Fixing(p)'
    BY <2>7 DEF Fixing, InCriticalSection
  <2>9. Written(p, content[Entry[p]] \cup ok)
    BY <2>3, <2>5, <2>6, <2>7, <2>8 DEF Written
  <2> QED
    BY <2>2, <2>9, BackWrite
<1>6. CASE BackOut(p)
  <2>1. Moved(p, "posting", "final", proc[p].told \cup {Msg(p, "FixFailed")}, proc[p].orig, proc[p].sugg)
    BY <1>g, <1>6 DEF BackOut
  <2>2. /\ proc[p].orig # None /\ proc[p].orig \in SUBSET Fixes
        /\ \A q \in Process : Entry[q] = Entry[p] => proc[p].orig \cap Bad[q] = {}
    BY <1>6 DEF BackOut, BackInv, Agree
  <2>3. content' = [content EXCEPT ![Entry[p]] = proc[p].orig]
    BY <1>6 DEF BackOut, Restored
  <2>4. /\ \A q \in Process \ {p} : proc'[q] = proc[q]
        /\ proc'[p].pc = "posting" /\ proc'[p].orig = proc[p].orig /\ proc'[p].sugg = proc[p].sugg
    BY <2>1 DEF Moved
  <2>5. proc[p].orig \subseteq Fixes /\ proc[p].orig \cap Bad[p] = {}
    BY <2>2
  <2>6. Written(p, proc[p].orig)
    BY <1>0, <2>2, <2>3, <2>4, <2>5 DEF Written
  <2> QED
    BY <2>2, <2>6, BackWrite
<1> QED
  BY <1>1, <1>2, <1>3, <1>4, <1>5, <1>6 DEF Wrapper

\* If the crates of a file agree on which fixes are bad, no bad fix is left in it
\* once they all have ended and none was killed: for any number of crates,
\* whichever of them fix, verify and back out at the same time.
THEOREM BadFixesBackedOut == Agree => (Spec => []BackedOut)
<1> SUFFICES ASSUME Agree PROVE Spec => []BackedOut
  OBVIOUS
<1>0. CASE BrokenCode
  <2>1. BackedOut
    BY <1>0 DEF BackedOut
  <2> QED
    BY <2>1, PTL
<1>1. CASE ~BrokenCode
  <2>1. Init => BackInv
    BY BackInvInit
  <2>2. FixInv /\ BackInv /\ [Next]_vars => BackInv'
    <3> SUFFICES ASSUME FixInv, BackInv, [Next]_vars PROVE BackInv'
      OBVIOUS
    <3>1. ASSUME \/ fix \/ Receive \/ Stop \/ StopLockServer \/ Accept \/ Shutdown \/ Deliver
                 \/ UNCHANGED vars
                 \/ \E f \in File : TakeNext(f) \/ Grant(f) \/ Eof(f)
          PROVE  BackInv'
      <4>1. UNCHANGED <<proc, content>>
        BY Zenon, <3>1 DEF fix, Receive, Stop, StopLockServer, Accept, Shutdown, Deliver,
                           TakeNext, Grant, Eof, vars
      <4> QED
        BY <4>1 DEF BackInv, Compiles, Fixing, InCriticalSection, At
    <3>2. ASSUME Hangup PROVE BackInv'
      <4>0. content' = content /\ ProcShape
        BY <3>2 DEF Hangup, FixInv
      <4>1. CASE proc' = proc
        BY <4>0, <4>1 DEF BackInv, Compiles, Fixing, InCriticalSection, At
      <4>2. ASSUME NEW p \in Process, At(p, "posting"),
                   Moved(p, proc[p].ret, proc[p].ret, proc[p].told, proc[p].orig, proc[p].sugg)
            PROVE  BackInv'
        <5>1. proc[p].ret \in {"failed", "unlock", "ok", "final"} /\ proc[p].sugg \subseteq Fixes
          BY <4>2 DEF FixInv, HolderInv, BackInv
        <5>2. Fixing(p) => Fixing(p)'
          BY <4>2, <5>1 DEF Moved, Fixing, InCriticalSection, At
        <5> QED
          BY <1>1, <4>0, <4>2, <5>1, <5>2, BackMove DEF Moved, At
      <4> QED
        BY <3>2, <4>0, <4>1, <4>2, HangupEffect
    <3> QED
      BY <1>1, <3>1, <3>2, BackWrapper DEF Next, Main, Server
  <2>3. BackInv => BackedOut
    <3> SUFFICES ASSUME BackInv, NEW f \in File,
                        ~(\E p \in {p \in Process : Entry[p] = f} : At(p, "killed")),
                        \A p \in {p \in Process : Entry[p] = f} : Ended(p)
                 PROVE  content[f] \cap UNION {Bad[p] : p \in {p \in Process : Entry[p] = f}} = {}
      BY DEF BackedOut
    <3>1. \A p \in Process : Entry[p] = f => Compiles(p)
      BY DEF BackInv, Ended, Fixing, InCriticalSection, At
    <3> QED
      BY <3>1 DEF Compiles
  <2> QED
    BY <2>1, <2>2, <2>3, LockServerInvariant, PTL DEF Spec
<1> QED
  BY <1>0, <1>1
================================================================================
