---------------------------------- MODULE Fix ----------------------------------
(***************************************************************************)
(* cargo fix: ops/fix.rs, util/lockserver.rs, util/diagnostic_server.rs.   *)
(*                                                                         *)
(* The main process starts a lock server and a diagnostics server and then *)
(* compiles with itself as the rustc wrapper.  Each wrapper process locks  *)
(* the entry point of its crate, runs rustc several times to collect fixes *)
(* and applies them, unlocks, compiles once more and backs its fixes out   *)
(* if that fails.  Several crates (a library and its tests) may have one   *)
(* entry point.                                                            *)
(*                                                                         *)
(* A source file is the set of fixes applied to it; rustc suggests those   *)
(* that are missing.  A connection is named by the process that opened it. *)
(***************************************************************************)
EXTENDS Naturals, Sequences, FiniteSets, Functions

CONSTANTS
  None,
  Process,     \* the crates compiled, one wrapper process each
  File,        \* the entry points
  Entry,       \* process -> file
  Fixes,
  Bad,         \* process -> the fixes that stop its crate from compiling
  Args,        \* possible arguments: [prepare, enabled, primary]
  Iterations,  \* CARGO_FIX_MAX_RETRIES
  BrokenCode,  \* --broken-code
  MayDie       \* whether processes may be killed, and writes fail

ASSUME FixAssumption ==
  /\ None \notin Process /\ "stop" \notin Process
  /\ Entry \in [Process -> File]
  /\ Bad \in [Process -> SUBSET Fixes]
  /\ Iterations \in Nat \ {0}
  /\ \A S \in SUBSET Fixes : S # None
  /\ BrokenCode \in BOOLEAN /\ MayDie \in BOOLEAN

VARIABLES
  main,     \* where the main process is
  content,  \* file -> the fixes it contains
  backlog,  \* connections to the lock server, not accepted yet
  threads,  \* file -> the ServerClient of that name
  granted,  \* the processes that were sent the byte
  closed,   \* the processes whose connection is closed
  posts,    \* connections to the diagnostics server
  hand,     \* the message the diagnostics server has read and not handed on, if any
  rx,       \* the channel of the job queue
  printed,  \* what DiagnosticPrinter was given
  proc      \* process -> its state

lockServer == <<backlog, threads>>
vars == <<main, content, lockServer, granted, closed, posts, hand, rx, printed, proc>>

NoThread == [live |-> FALSE, queue |-> <<>>, serving |-> None]
NewProc(a) == [args |-> a, pc |-> "start", ret |-> "start", round |-> 0, sugg |-> {}, orig |-> None,
               applied |-> 0, last |-> 0, errs |-> FALSE, told |-> {}]

Init ==
  /\ main = "check"
  /\ content = [f \in File |-> {}]
  /\ backlog = <<>>
  /\ threads = [f \in File |-> NoThread]
  /\ granted = {} /\ closed = {}
  /\ posts = <<>> /\ hand = <<>> /\ rx = <<>> /\ printed = {}
  /\ \E a \in [Process -> Args] : proc = [p \in Process |-> NewProc(a[p])]

At(p, l) == proc[p].pc = l
Ended(p) == proc[p].pc \in {"ok", "failed", "killed"}
Goto(p, l) == proc' = [proc EXCEPT ![p].pc = l]

Compiles(p) == content[Entry[p]] \cap Bad[p] = {}

--------------------------------------------------------------------------------
(* The main process                                                        *)

\* What check_version_control makes of a file with changes of these kinds.
Verdict(st) ==
  CASE st = {} -> "current" [] st = {"index"} -> "staged" [] OTHER -> "dirty"

check_version_control(opts, repo, files) ==
  \/ "allow_no_vcs" \in opts
  \/ /\ repo
     /\ {"allow_dirty", "allow_staged"} \subseteq opts
          \/ \A st \in files :
               /\ Verdict(st) = "dirty" => "allow_dirty" \in opts
               /\ Verdict(st) = "staged" => "allow_staged" \in opts

\* fix: both servers are listening before anything is compiled.
fix ==
  /\ main = "check"
  /\ \E opts \in SUBSET {"allow_no_vcs", "allow_dirty", "allow_staged"},
        repo \in BOOLEAN, files \in SUBSET SUBSET {"index", "worktree"} :
       main' = IF check_version_control(opts, repo, files) THEN "compile" ELSE "refused"
  /\ UNCHANGED <<content, lockServer, granted, closed, posts, hand, rx, printed, proc>>

FinishOf(p) == [type |-> "Finish", proc |-> p]

\* The Finish of a process that failed has been received.
ErrorSeen ==
  \E p \in Process :
    proc[p].pc \in {"failed", "killed"} /\ proc[p].ret = "reaped" /\ FinishOf(p) \notin Range(rx)

\* The job queue spawns a process.
Spawn(p) ==
  /\ main = "compile" /\ At(p, "start")
  /\ ~ErrorSeen
  /\ Goto(p, "verify_edition")
  /\ UNCHANGED <<main, content, lockServer, granted, closed, posts, hand, rx, printed>>

\* The thread of the job sees its process end.
Reap(p) ==
  /\ Ended(p) /\ proc[p].ret # "reaped"
  /\ proc' = [proc EXCEPT ![p].ret = "reaped"]
  /\ rx' = Append(rx, FinishOf(p))
  /\ UNCHANGED <<main, content, lockServer, granted, closed, posts, hand, printed>>

Running(p) == ~At(p, "start") /\ ~(Ended(p) /\ proc[p].ret = "reaped")

\* JobQueue::active: the Finish of the job has not been received.
Active(p) == Running(p) \/ FinishOf(p) \in Range(rx)

\* While something is active the job queue waits for the next message of its
\* channel.
Receive ==
  /\ main = "compile" /\ rx # <<>>
  /\ \E p \in Process : Active(p)
  /\ printed' = IF Head(rx).type = "Finish" THEN printed ELSE printed \cup {Head(rx)}
  /\ rx' = Tail(rx)
  /\ UNCHANGED <<main, content, lockServer, granted, closed, posts, hand, proc>>

\* The loop ends as soon as nothing is active, whatever is left in the channel;
\* `_diagnostic_server` is dropped: it sets `done` and wakes the server with a
\* connection.
Stop ==
  /\ main = "compile"
  /\ \A p \in Process : ~Active(p)
  /\ ErrorSeen \/ \A p \in Process : ~At(p, "start")
  /\ main' = "join"
  /\ posts' = Append(posts, <<"stop", None>>)
  /\ UNCHANGED <<content, lockServer, granted, closed, hand, rx, printed, proc>>

\* The diagnostics server has ended and compile returns; `_started` is dropped
\* and does the same to the lock server.
StopLockServer ==
  /\ main = "joined"
  /\ main' = "drop"
  /\ backlog' = Append(backlog, "stop")
  /\ UNCHANGED <<content, threads, granted, closed, posts, hand, rx, printed, proc>>

--------------------------------------------------------------------------------
(* The lock server                                                         *)

run_replacing(p) ==
  threads' = [threads EXCEPT ![Entry[p]] = [live |-> TRUE, queue |-> <<p>>, serving |-> None]]

run_queueing(p) ==
  threads' = [threads EXCEPT ![Entry[p]] = [@ EXCEPT !.queue = Append(@, p)]]

\* LockServer::run, for a client that has sent its name: it is queued with the
\* thread of that name if the thread is still going, else it gets a new one.
run(p) ==
  LET t == threads[Entry[p]] IN
  threads' = [threads EXCEPT ![Entry[p]] =
                IF t.live THEN [t EXCEPT !.queue = Append(t.queue, p)]
                          ELSE [live |-> TRUE, queue |-> <<p>>, serving |-> None]]

\* The name of a client that was killed may have arrived; if not, it gets a
\* thread under a name that nobody else uses.
Accept ==
  /\ backlog # <<>> /\ Head(backlog) # "stop"
  /\ run(Head(backlog)) \/ (At(Head(backlog), "killed") /\ UNCHANGED threads)
  /\ backlog' = Tail(backlog)
  /\ UNCHANGED <<main, content, granted, closed, posts, hand, rx, printed, proc>>

\* With `done` set the server leaves its loop; Drop for LockServer joins the
\* threads.
Shutdown ==
  /\ backlog # <<>> /\ Head(backlog) = "stop"
  /\ \A f \in File : ~threads[f].live
  /\ main' = "done"
  /\ backlog' = <<>>
  /\ UNCHANGED <<content, threads, granted, closed, posts, hand, rx, printed, proc>>

\* The loop of a thread: take the next client, or clear the flag and end.
TakeNext(f) ==
  LET t == threads[f] IN
  /\ t.live /\ t.serving = None
  /\ threads' = [threads EXCEPT ![f] =
                   IF t.queue = <<>> THEN [t EXCEPT !.live = FALSE]
                   ELSE [t EXCEPT !.queue = Tail(@), !.serving = Head(t.queue)]]
  /\ UNCHANGED <<main, content, backlog, granted, closed, posts, hand, rx, printed, proc>>

\* write_all(&[1]); it may or may not fail if the client is gone.
Grant(f) ==
  LET p == threads[f].serving IN
  /\ p # None /\ p \notin granted
  /\ \/ granted' = granted \cup {p} /\ UNCHANGED threads
     \/ /\ p \in closed
        /\ threads' = [threads EXCEPT ![f].serving = None]
        /\ UNCHANGED granted
  /\ UNCHANGED <<main, content, backlog, closed, posts, hand, rx, printed, proc>>

\* read_to_end: the client has disconnected.
Eof(f) ==
  /\ threads[f].serving \in granted \cap closed
  /\ threads' = [threads EXCEPT ![f].serving = None]
  /\ UNCHANGED <<main, content, backlog, granted, closed, posts, hand, rx, printed, proc>>

--------------------------------------------------------------------------------
(* The diagnostics server                                                  *)

post_and_go(p, m, next) ==
  /\ posts' = Append(posts, <<p, m>>)
  /\ proc' = [proc EXCEPT ![p].pc = next, ![p].told = @ \cup {m}]

\* Message::post: the process then waits until the server hangs up.
post(p, m, next) ==
  /\ posts' = Append(posts, <<p, m>>)
  /\ proc' = [proc EXCEPT ![p].pc = "posting", ![p].ret = next,
                          ![p].told = @ \cup {m}]

\* The server leaves its loop if it finds `done` set after a connection.
TestDone == main' = IF main = "join" THEN "joined" ELSE main

\* RustfixDiagnosticServer::run reads a message and hangs up, since from_reader
\* takes the connection: the process that posted it goes on.  A connection
\* without a whole message is passed over.
Hangup ==
  LET p == Head(posts)[1] IN
  /\ main \in {"compile", "join"} /\ hand = <<>> /\ posts # <<>>
  /\ posts' = Tail(posts)
  /\ \/ /\ p # "stop"
        /\ proc' = IF At(p, "posting") THEN [proc EXCEPT ![p].pc = proc[p].ret] ELSE proc
        /\ hand' = <<Head(posts)[2]>>
        /\ UNCHANGED main
     \/ /\ p # "stop" => At(p, "killed")
        /\ TestDone
        /\ UNCHANGED <<hand, proc>>
  /\ UNCHANGED <<content, lockServer, granted, closed, rx, printed>>

\* on_message: only then is the message sent to the job queue.
Deliver ==
  /\ hand # <<>>
  /\ rx' = Append(rx, Head(hand))
  /\ hand' = <<>>
  /\ TestDone
  /\ UNCHANGED <<content, lockServer, granted, closed, posts, printed, proc>>

Msg(p, type) == [type |-> type, from |-> p]

--------------------------------------------------------------------------------
(* A wrapper process                                                       *)

\* next_edition is always 2018.
prepare_for_edition_resolve(p) ==
  IF proc[p].args.prepare = "next" THEN "2018" ELSE proc[p].args.prepare

\* Only a primary package is fixed, and not if it is being prepared for the
\* edition it already has.
VerifyEdition(p) ==
  /\ At(p, "verify_edition")
  /\ IF ~proc[p].args.primary THEN Goto(p, "final") /\ UNCHANGED posts
     ELSE IF prepare_for_edition_resolve(p) # None
               /\ prepare_for_edition_resolve(p) = proc[p].args.enabled
     THEN post(p, Msg(p, "EditionAlreadyEnabled"), "failed")
     ELSE Goto(p, "connect") /\ UNCHANGED posts
  /\ UNCHANGED <<main, content, lockServer, granted, closed, hand, rx, printed>>

\* LockServerClient::lock
lock(p) ==
  /\ At(p, "connect")
  /\ backlog' = Append(backlog, p)
  /\ Goto(p, "wait")
  /\ UNCHANGED <<main, content, threads, granted, closed, posts, hand, rx, printed>>

Locked(p) ==
  /\ At(p, "wait") /\ p \in granted
  /\ Goto(p, "round")
  /\ UNCHANGED <<main, content, lockServer, granted, closed, posts, hand, rx, printed>>

\* The first half of a round of rustfix_crate: what rustc suggests.  Nothing
\* is touched if the code is broken as it is.
RunRustc(p) ==
  LET sugg == IF Compiles(p) \/ BrokenCode THEN Fixes \ content[Entry[p]] ELSE {} IN
  /\ At(p, "round")
  /\ proc' = [proc EXCEPT ![p].last = proc[p].applied, ![p].errs = FALSE, ![p].sugg = sugg,
                          ![p].pc = IF sugg = {} THEN "report" ELSE "apply"]
  /\ UNCHANGED <<main, content, lockServer, granted, closed, posts, hand, rx, printed>>

\* The code as it was when the process first changed the file.
Original(p) == IF proc[p].orig = None THEN content[Entry[p]] ELSE proc[p].orig

\* Another round is tried if some suggestions were applied and some were not.
progress_yet_to_be_made(p, applied, errs) ==
  errs /\ applied # proc[p].last /\ proc[p].round + 1 < Iterations

\* rustfix_and_fix, and the end of the round: some suggestions apply.
rustfix_and_fix(p) ==
  /\ At(p, "apply")
  /\ \E ok \in SUBSET proc[p].sugg :
       LET applied == proc[p].applied + Cardinality(ok)
           errs == ok # proc[p].sugg
       IN
       /\ content' = [content EXCEPT ![Entry[p]] = @ \cup ok]
       /\ proc' = [proc EXCEPT ![p] =
                     [@ EXCEPT !.orig = Original(p), !.applied = applied, !.errs = errs,
                               !.round = proc[p].round + 1, !.sugg = {},
                               !.pc = IF progress_yet_to_be_made(p, applied, errs)
                                     THEN "round" ELSE "report"]]
  /\ UNCHANGED <<main, lockServer, granted, closed, posts, hand, rx, printed>>

\* Errors that are left are reported; `_lock` is dropped as rustfix_crate returns.
Report(p) ==
  /\ At(p, "report")
  /\ IF proc[p].errs
     THEN post(p, Msg(p, "ReplaceFailed"), "unlock")
     ELSE Goto(p, "unlock") /\ UNCHANGED posts
  /\ UNCHANGED <<main, content, lockServer, granted, closed, hand, rx, printed>>

Unlock(p) ==
  /\ At(p, "unlock")
  /\ closed' = closed \cup {p}
  /\ Goto(p, IF proc[p].orig = None THEN "final" ELSE "verify")
  /\ UNCHANGED <<main, content, lockServer, granted, posts, hand, rx, printed>>

\* The rest of fix_maybe_exec_rustc.  Without warnings a success needs no
\* second rustc.
Verify(p) ==
  /\ At(p, "verify")
  /\ IF Compiles(p)
     THEN \E next \in {"ok", "final"} : post(p, Msg(p, "Fixing"), next)
     ELSE Goto(p, "backout") /\ UNCHANGED posts
  /\ UNCHANGED <<main, content, lockServer, granted, closed, hand, rx, printed>>

RestoredNothing(p) == content

\* fs::write(path, &file.original_code), unless broken code is wanted.
Restored(p) ==
  IF BrokenCode THEN content ELSE [content EXCEPT ![Entry[p]] = proc[p].orig]

BackOut(p) ==
  /\ At(p, "backout")
  /\ content' = Restored(p)
  /\ post(p, Msg(p, "FixFailed"), "final")
  /\ UNCHANGED <<main, lockServer, granted, closed, hand, rx, printed>>

Final(p) ==
  /\ At(p, "final")
  /\ Goto(p, IF Compiles(p) THEN "ok" ELSE "failed")
  /\ UNCHANGED <<main, content, lockServer, granted, closed, posts, hand, rx, printed>>

\* A process is killed, or an error ends it: its connection is closed.
Die(p) ==
  /\ MayDie
  /\ ~At(p, "start") /\ ~Ended(p)
  /\ Goto(p, "killed")
  /\ closed' = closed \cup {p}
  /\ UNCHANGED <<main, content, lockServer, granted, posts, hand, rx, printed>>

--------------------------------------------------------------------------------
Main == fix \/ Receive \/ Stop \/ StopLockServer \/ (\E p \in Process : Spawn(p) \/ Reap(p))
Server ==
  \/ Accept \/ Shutdown \/ Hangup \/ Deliver
  \/ \E f \in File : TakeNext(f) \/ Grant(f) \/ Eof(f)
Wrapper(p) ==
  \/ VerifyEdition(p) \/ lock(p) \/ Locked(p) \/ RunRustc(p) \/ rustfix_and_fix(p)
  \/ Report(p) \/ Unlock(p) \/ Verify(p) \/ BackOut(p) \/ Final(p)

Next ==
  \/ Main \/ Server
  \/ \E p \in Process : Wrapper(p) \/ Die(p)
  \/ main \in {"refused", "done"} /\ UNCHANGED vars

Spec == Init /\ [][Next]_vars

\* The main process, each thread of the servers and each process that is not
\* killed go on.
FairSpec ==
  /\ Spec
  /\ WF_vars(Main) /\ WF_vars(Accept) /\ WF_vars(Shutdown)
  /\ WF_vars(Hangup \/ Deliver)
  /\ \A f \in File : WF_vars(TakeNext(f) \/ Grant(f) \/ Eof(f))
  /\ \A p \in Process : WF_vars(Wrapper(p))

--------------------------------------------------------------------------------
(* Properties                                                              *)

InCriticalSection(p) ==
  \/ proc[p].pc \in {"round", "apply", "report", "unlock"}
  \/ At(p, "posting") /\ proc[p].ret = "unlock"

\* "each crate (aka file entry point) is only fixed by one process at a time":
\* no two processes are between lock and unlock of one file, whichever threads
\* of the server have come and gone and whoever has died.
OneFixer ==
  \A p, q \in Process :
    p # q /\ InCriticalSection(p) /\ InCriticalSection(q) => Entry[p] # Entry[q]

\* If the crates of a file agree on which fixes are bad, and nobody is killed,
\* no bad fix is left in it once they all have ended: it was backed out.
BackedOut ==
  \A f \in File :
    LET crates == {p \in Process : Entry[p] = f}
        wrong == UNION {Bad[p] : p \in crates}
    IN  ~BrokenCode /\ ~(\E p \in crates : At(p, "killed")) /\ (\A p \in crates : Ended(p))
          => content[f] \cap wrong = {}

\* "If these changes went awry and actually started to cause the crate to
\* *stop* compiling then we want to back them out and continue to print
\* warnings to the user": a crate that compiled before it was fixed is not the
\* reason why the build fails.
FallsBack == \A p \in Process : At(p, "failed") => proc[p].orig = None

\* When the build is over at most one message that a process has posted was not
\* printed: the one that the server had read and not handed on when the last
\* job ended.  A process goes on only when its message was read, the server
\* reads one at a time, and the channel keeps their order.
OneUnprinted ==
  main \in {"join", "joined", "drop", "done"} =>
    \E m \in {None} \cup UNION {proc[p].told : p \in Process} :
      \A p \in Process : ~At(p, "killed") => proc[p].told \subseteq printed \cup {m}

\* A killed process never keeps the others from their lock, and the servers
\* go away: cargo fix ends.
FixEnds == <>(main \in {"refused", "done"})
================================================================================
