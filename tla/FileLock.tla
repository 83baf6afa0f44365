------------------------------- MODULE FileLock -------------------------------
(***************************************************************************)
(* util/flock.rs: advisory locks on files, between several invocations of  *)
(* Cargo.  A lock belongs to one open handle of the file, so a process     *)
(* that asks for a lock which conflicts with one of its own waits for      *)
(* itself.  The message printed before blocking is left out.               *)
(***************************************************************************)
EXTENDS FiniteSets

CONSTANTS
  Process,
  File,
  NoLocking  \* the files on NFS, or on a file system without locks

VARIABLE locks  \* file -> process -> the lock its handle holds

State == {"Unlocked", "Shared", "Exclusive"}

FileLockInit == locks = [f \in File |-> [p \in Process |-> "Unlocked"]]

Conflict(s, t) == "Unlocked" \notin {s, t} /\ "Exclusive" \in {s, t}

\* try_lock_shared or try_lock_exclusive on f succeeds.
Grantable(f, s) == f \in NoLocking \/ \A q \in Process : ~Conflict(s, locks[f][q])

\* acquire: it blocks until the lock is granted; without locks it is Ok(()).
Acquire(p, f, s) ==
  /\ Grantable(f, s)
  /\ locks' = [locks EXCEPT ![f][p] = IF f \in NoLocking THEN @ ELSE s]

\* FileLock::drop
Release(p, f) == locks' = [locks EXCEPT ![f][p] = "Unlocked"]

\* All handles of a process that ends, or that is killed, are closed.
ReleaseAll(p) == locks' = [f \in File |-> [locks[f] EXCEPT ![p] = "Unlocked"]]

\* The processes that keep lock s on f from being granted.
Blockers(f, s) == {q \in Process : f \notin NoLocking /\ Conflict(s, locks[f][q])}
===============================================================================
