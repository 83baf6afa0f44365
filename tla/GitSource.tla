------------------------------ MODULE GitSource ------------------------------
(***************************************************************************)
(* sources/git/{source,utils}.rs: the bare database of one git repository  *)
(* and the checkouts made from it, both under CARGO_HOME/git and shared by *)
(* every invocation of Cargo.  The lock on .cargo-lock-git is held by      *)
(* GitSource::update; the checkout is read after it has been released.     *)
(*                                                                         *)
(* The commits of the branch followed are 1, 2, ...: commit n is the n-th  *)
(* that is pushed.  A commit pins a commit of one submodule, or none (0).  *)
(* A directory that a killed process left half made or half deleted is     *)
(* "broken": opening it may fail, and a fetch into a broken database ends  *)
(* in an error of class Reference.  What a broken database still has may   *)
(* be found in it; a clone of it, or a fetch from it, brings a revision    *)
(* with all of its files or fails.  The fast path for GitHub is not        *)
(* reached from here, as it looks at a ref that these repositories do not  *)
(* have.                                                                   *)
(***************************************************************************)
EXTENDS FileLock, Naturals

CONSTANTS
  MaxRev,     \* bound on the commits pushed
  SubHead,    \* the tip of the submodule's repository
  PackLimit,  \* number of pack files from which `git gc` is tried
  Retries,    \* net.retry
  Scenes

(***************************************************************************)
(* What a scene says about git: the commits there are at first, what each  *)
(* commit pins, which may be a commit that the submodule's repository does *)
(* not have, how each process may use the network, whether `git` is run to *)
(* fetch (net.git-fetch-with-cli), what may go wrong ("net": a fetch,      *)
(* "gc": there is no git to run, "manifest": the packages of a checkout    *)
(* cannot be read) and how often a process may be killed.                  *)
(***************************************************************************)
ASSUME GitAssumption ==
  /\ "git" \in File
  /\ MaxRev \in Nat /\ SubHead \in Nat /\ PackLimit \in Nat /\ Retries \in Nat
  /\ \A s \in Scenes : /\ s.pushed \in 0..MaxRev /\ s.sub \in [1..MaxRev -> 0..SubHead + 1]
                       /\ s.net \in [Process -> {"allowed", "frozen", "offline"}]
                       /\ s.cli \in BOOLEAN /\ s.kills \in Nat

\* GitReference: a commit, 0 for the branch; precise if it is from Cargo.lock.
Reference == [rev : Nat, precise : BOOLEAN]

VARIABLES
  scene,
  upstream,  \* the commits pushed are 1..upstream
  db,        \* the database: state, tip of the branch, objects, pack files
  co,        \* commit -> its checkout
  gpc,       \* process -> where it is in GitSource::update
  want,      \* process -> the reference
  fetchTo,   \* process -> who called fetch: "fetch_into" or "clone_into"
  rev,       \* process -> actual_rev
  reinited,  \* process -> repo_reinitialized
  retries,   \* process -> tries that remain
  netfailed, \* the processes that gave up on the network
  kills      \* number of processes killed

gitvars == <<upstream, db, co, gpc, want, fetchTo, rev, reinited, retries, netfailed>>

Torn == MaxRev + SubHead + 2  \* a working tree in the middle of a reset
NoSub == [state |-> "none", head |-> 0, tree |-> 0]
EmptyDb == [state |-> "repo", head |-> 0, objs |-> {}, packs |-> 0]
NoCheckout == [state |-> "none", head |-> 0, objs |-> {}, ok |-> FALSE, tree |-> 0, sub |-> NoSub]

GitInit ==
  /\ upstream = scene.pushed
  /\ db = [EmptyDb EXCEPT !.state = "none"]
  /\ co = [r \in 1..MaxRev |-> NoCheckout]
  /\ gpc = [p \in Process |-> "none"]
  /\ want = [p \in Process |-> [rev |-> 0, precise |-> FALSE]]
  /\ fetchTo = [p \in Process |-> "fetch_into"]
  /\ rev = [p \in Process |-> 0]
  /\ reinited = [p \in Process |-> FALSE]
  /\ retries = [p \in Process |-> 0]
  /\ netfailed = {}
  /\ kills = 0

At(p, l) == gpc[p] = l
Goto(p, l) == gpc' = [gpc EXCEPT ![p] = l] /\ UNCHANGED locks
Offline(p) == scene.net[p] = "offline"
NetAllowed(p) == scene.net[p] = "allowed"
MayOpen(state) == IF state = "broken" THEN BOOLEAN ELSE {state = "repo"}

\* An error: the lock is dropped with the locals of update.
Fail(p) ==
  /\ Release(p, "git")
  /\ gpc' = [gpc EXCEPT ![p] = "failed"]

\* GitReference::resolve, in a database that is opened first; 0 when the
\* reference is not found.  A broken database may or may not open and have it.
resolve(p) ==
  LET w == want[p].rev
      found == IF w = 0 THEN db.head ELSE IF w \in db.objs THEN w ELSE 0
  IN  IF db.state = "repo" THEN {found} ELSE IF db.state = "broken" THEN {0, found} ELSE {0}

\* GitSource::new and the call of update, for the reference w.
StartUpdate(p, w) ==
  /\ want' = [want EXCEPT ![p] = w]
  /\ gpc' = [gpc EXCEPT ![p] = "lock"]
  /\ UNCHANGED <<upstream, db, co, fetchTo, rev, reinited, retries, netfailed>>

Lock(p) ==
  /\ At(p, "lock") /\ Acquire(p, "git", "Exclusive")
  /\ gpc' = [gpc EXCEPT ![p] = "resolve"]
  /\ UNCHANGED <<upstream, db, co, want, fetchTo, rev, reinited, retries, netfailed>>

\* The reference is resolved in the database; should_update
ShouldUpdate(p, r) == r = 0 \/ ~want[p].precise

Resolve(p) ==
  /\ At(p, "resolve")
  /\ \E r \in resolve(p) :
       /\ rev' = [rev EXCEPT ![p] = r]
       /\ IF Offline(p)
          THEN \* also the unwrap() of a revision that was not found
               /\ IF r = 0 THEN Fail(p) ELSE Goto(p, "open")
               /\ UNCHANGED fetchTo
          ELSE IF ~ShouldUpdate(p, r) THEN Goto(p, "open") /\ UNCHANGED fetchTo
          ELSE \E opens \in MayOpen(db.state) :
                 /\ r # 0 => opens
                 /\ Goto(p, IF opens THEN "fetch" ELSE "clear")
                 /\ fetchTo' = [fetchTo EXCEPT ![p] = "fetch_into"]
  /\ UNCHANGED <<upstream, db, co, want, reinited, retries, netfailed>>

\* GitRemote::clone_into: what is there is deleted, ...
ClearDb(p) ==
  /\ At(p, "clear")
  /\ db' = [db EXCEPT !.state = "broken"]
  /\ Goto(p, "mkdb")
  /\ UNCHANGED <<upstream, co, want, fetchTo, rev, reinited, retries, netfailed>>

\* ... and a bare repository is made, into which everything is fetched.
MakeDb(p) ==
  /\ At(p, "mkdb")
  /\ db' = EmptyDb
  /\ fetchTo' = [fetchTo EXCEPT ![p] = "clone_into"]
  /\ Goto(p, "fetch")
  /\ UNCHANGED <<upstream, co, want, rev, reinited, retries, netfailed>>

\* fetch, up to the first attempt, with maybe_gc_repo
FetchStart(p) ==
  /\ At(p, "fetch")
  /\ reinited' = [reinited EXCEPT ![p] = FALSE]
  /\ retries' = [retries EXCEPT ![p] = Retries]
  /\ \/ ~NetAllowed(p) /\ Fail(p) /\ UNCHANGED db
     \/ NetAllowed(p) /\ db.packs < PackLimit /\ Goto(p, "net") /\ UNCHANGED db
     \/ /\ NetAllowed(p) /\ db.packs >= PackLimit
        /\ \/ db' = [db EXCEPT !.packs = 1] /\ Goto(p, "net")
           \/ /\ "gc" \in scene.may \/ db.state = "broken"
              /\ Goto(p, "wipe") /\ UNCHANGED db
  /\ UNCHANGED <<upstream, co, want, fetchTo, rev, netfailed>>

\* reinitialize: everything is deleted, ...
Wipe(p) ==
  /\ At(p, "wipe")
  /\ db' = [db EXCEPT !.state = "broken"]
  /\ Goto(p, "reinit")
  /\ UNCHANGED <<upstream, co, want, fetchTo, rev, reinited, retries, netfailed>>

\* ... and the repository made again; both callers go on to fetch.
Reinit(p) ==
  /\ At(p, "reinit")
  /\ db' = EmptyDb
  /\ Goto(p, "net")
  /\ UNCHANGED <<upstream, co, want, fetchTo, rev, reinited, retries, netfailed>>

CanReinitialize_never(p) == FALSE

\* A repository that turns out to be corrupt is made anew, once; not when it
\* is `git` that fails to fetch into it.
CanReinitialize(p) == ~reinited[p] /\ ~scene.cli

\* refs/heads/*:refs/heads/* and all the tags
Fetched ==
  db' = [state |-> "repo", head |-> upstream, objs |-> db.objs \cup (1..upstream),
         packs |-> db.packs + 1]

\* One turn of the loop in fetch, or fetch_with_cli.
Net(p) ==
  /\ At(p, "net")
  /\ \/ /\ db.state = "repo" /\ Fetched /\ Goto(p, "fetched")
        /\ UNCHANGED <<reinited, retries, netfailed>>
     \/ /\ db.state # "repo" /\ CanReinitialize(p)
        /\ reinited' = [reinited EXCEPT ![p] = TRUE] /\ Goto(p, "wipe")
        /\ UNCHANGED <<db, retries, netfailed>>
     \/ /\ db.state # "repo" /\ ~CanReinitialize(p) /\ Fail(p)
        /\ UNCHANGED <<db, reinited, retries, netfailed>>
     \/ /\ "net" \in scene.may /\ netfailed' = netfailed \cup {p} /\ Fail(p)
        /\ UNCHANGED <<db, reinited, retries>>
  /\ UNCHANGED <<upstream, co, want, fetchTo, rev>>

\* with_retry: a spurious error of the network, and the fetch starts again;
\* `git` is run once.
Retry(p) ==
  /\ At(p, "net") /\ "net" \in scene.may /\ retries[p] > 0 /\ ~scene.cli
  /\ retries' = [retries EXCEPT ![p] = @ - 1]
  /\ reinited' = [reinited EXCEPT ![p] = FALSE]
  /\ UNCHANGED <<locks, gpc, upstream, db, co, want, fetchTo, rev, netfailed>>

AlreadyCloned_never(p) == FALSE

\* GitRemote::checkout, after a fetch: a database that still lacks the
\* reference is cloned anew, once.
AlreadyCloned(p) == fetchTo[p] = "clone_into"

Rescan(p) ==
  /\ At(p, "fetched")
  /\ \E r \in resolve(p) :
       /\ rev' = [rev EXCEPT ![p] = r]
       /\ \/ r # 0 /\ Goto(p, "open")
          \/ r = 0 /\ ~AlreadyCloned(p) /\ Goto(p, "clear")
          \/ r = 0 /\ AlreadyCloned(p) /\ Fail(p)
  /\ UNCHANGED <<upstream, db, co, want, fetchTo, reinited, retries, netfailed>>

(***************************************************************************)
(* GitDatabase::copy_to, into the checkout of rev[p].                      *)
(***************************************************************************)
coUnchanged == UNCHANGED <<upstream, db, want, fetchTo, rev, reinited, retries>>
Mine(p) == co[rev[p]]

is_fresh_by_head(p) == Mine(p).head = rev[p]

is_fresh(p) == Mine(p).head = rev[p] /\ Mine(p).ok

Open(p) ==
  /\ At(p, "open")
  /\ \E opens \in MayOpen(Mine(p).state) :
       Goto(p, IF ~opens THEN "coclear" ELSE IF is_fresh(p) THEN "sub" ELSE "cofetch")
  /\ coUnchanged /\ UNCHANGED <<co, netfailed>>

\* A stale checkout is brought up to date from the database, which moves the
\* branch it has checked out; fetch refuses even this when it may not fetch,
\* and `git` refuses to move that branch.
FetchCheckout(p) ==
  /\ At(p, "cofetch")
  /\ \/ /\ ~NetAllowed(p) \/ scene.cli \/ db.state = "broken"
        /\ Fail(p) /\ UNCHANGED co
     \/ /\ NetAllowed(p)
        /\ co' = [co EXCEPT ![rev[p]].objs = @ \cup db.objs, ![rev[p]].head = db.head,
                            ![rev[p]].state = "repo"]
        /\ Goto(p, IF rev[p] \in co'[rev[p]].objs THEN "unmark" ELSE "coclear")
  /\ coUnchanged /\ UNCHANGED netfailed

\* GitCheckout::clone_into: a directory that exists is deleted, in any order, ...
ClearCheckout(p) ==
  /\ At(p, "coclear")
  /\ \E ok \in {Mine(p).ok, FALSE}, state \in {Mine(p).state, "broken"} :
       co' = [co EXCEPT ![rev[p]].state = state, ![rev[p]].ok = ok, ![rev[p]].tree = Torn,
                        ![rev[p]].sub = NoSub]
  /\ Goto(p, "clone")
  /\ coUnchanged /\ UNCHANGED netfailed

\* ... and the database is cloned; nothing is checked out yet.
CloneCheckout(p) ==
  /\ At(p, "clone")
  /\ \/ /\ co' = [co EXCEPT ![rev[p]] =
                   [NoCheckout EXCEPT !.state = "repo", !.head = db.head, !.objs = db.objs]]
        /\ Goto(p, "unmark")
     \/ db.state = "broken" /\ Fail(p) /\ UNCHANGED co
  /\ coUnchanged /\ UNCHANGED netfailed

\* GitCheckout::reset: .cargo-ok goes first and comes last.
Unmark(p) ==
  /\ At(p, "unmark")
  /\ co' = [co EXCEPT ![rev[p]].ok = FALSE]
  /\ IF rev[p] \in Mine(p).objs THEN Goto(p, "reset") ELSE Fail(p)
  /\ coUnchanged /\ UNCHANGED netfailed

ResetStart(p) ==
  /\ At(p, "reset")
  /\ co' = [co EXCEPT ![rev[p]].tree = Torn]
  /\ Goto(p, "reset2")
  /\ coUnchanged /\ UNCHANGED netfailed

ResetEnd(p) ==
  /\ At(p, "reset2")
  /\ co' = [co EXCEPT ![rev[p]].tree = rev[p], ![rev[p]].head = rev[p]]
  /\ Goto(p, "mark")
  /\ coUnchanged /\ UNCHANGED netfailed

Mark(p) ==
  /\ At(p, "mark")
  /\ co' = [co EXCEPT ![rev[p]].ok = TRUE]
  /\ Goto(p, "sub")
  /\ coUnchanged /\ UNCHANGED netfailed

\* update_submodule: nothing to do, or opened, or made from nothing.
SubUpToDate(p) == Mine(p).sub.state = "repo" /\ Mine(p).sub.head = scene.sub[rev[p]]

SubStart(p) ==
  /\ At(p, "sub")
  /\ IF scene.sub[rev[p]] = 0 \/ SubUpToDate(p)
     THEN Goto(p, "scan") /\ UNCHANGED co
     ELSE /\ Goto(p, "subfetch")
          /\ IF Mine(p).sub.state = "repo" THEN UNCHANGED co
             ELSE co' = [co EXCEPT ![rev[p]].sub = [NoSub EXCEPT !.state = "repo"]]
  /\ coUnchanged /\ UNCHANGED netfailed

\* HEAD of a repository just made is the branch that this fetch creates.
SubFetch(p) ==
  /\ At(p, "subfetch")
  /\ \/ /\ NetAllowed(p) /\ Goto(p, "subreset") /\ UNCHANGED netfailed
        /\ co' = [co EXCEPT ![rev[p]].sub.head = SubHead]
     \/ (~NetAllowed(p) \/ scene.cli) /\ Fail(p) /\ UNCHANGED <<co, netfailed>>
     \/ /\ NetAllowed(p) /\ "net" \in scene.may /\ Fail(p) /\ UNCHANGED co
        /\ netfailed' = netfailed \cup {p}
  /\ coUnchanged

\* The commit pinned has to be among those fetched.
SubResetStart(p) ==
  /\ At(p, "subreset")
  /\ \/ /\ scene.sub[rev[p]] <= SubHead /\ Goto(p, "subreset2")
        /\ co' = [co EXCEPT ![rev[p]].sub.tree = Torn]
     \/ scene.sub[rev[p]] > SubHead /\ Fail(p) /\ UNCHANGED co
  /\ coUnchanged /\ UNCHANGED netfailed

SubResetEnd(p) ==
  /\ At(p, "subreset2")
  /\ co' = [co EXCEPT ![rev[p]].sub = [state |-> "repo", head |-> scene.sub[rev[p]],
                                       tree |-> scene.sub[rev[p]]]]
  /\ Goto(p, "scan")
  /\ coUnchanged /\ UNCHANGED netfailed

\* PathSource::update reads the checkout, and the lock is dropped.
Scan(p) ==
  /\ At(p, "scan")
  /\ \/ Release(p, "git") /\ gpc' = [gpc EXCEPT ![p] = "using"]
     \/ "manifest" \in scene.may /\ Fail(p)
  /\ coUnchanged /\ UNCHANGED <<co, netfailed>>

GitStep(p) ==
  \/ Lock(p) \/ Resolve(p) \/ ClearDb(p) \/ MakeDb(p) \/ FetchStart(p) \/ Wipe(p) \/ Reinit(p)
  \/ Net(p) \/ Retry(p) \/ Rescan(p) \/ Open(p)
  \/ FetchCheckout(p) \/ ClearCheckout(p) \/ CloneCheckout(p)
  \/ Unmark(p) \/ ResetStart(p) \/ ResetEnd(p) \/ Mark(p) \/ SubStart(p) \/ SubFetch(p)
  \/ SubResetStart(p) \/ SubResetEnd(p) \/ Scan(p)

\* Someone pushes a commit.
Push ==
  /\ "push" \in scene.may /\ upstream < MaxRev
  /\ upstream' = upstream + 1
  /\ UNCHANGED <<db, co, gpc, want, fetchTo, rev, reinited, retries, netfailed>>

(***************************************************************************)
(* What the checkouts promise.                                             *)
(***************************************************************************)
\* A process that has left update reads a whole checkout of its revision for
\* as long as it uses it, although it holds no lock and other processes update,
\* reset or were killed meanwhile ("Checkout is immutable, so we don't need to
\* protect it with a lock once it is created").  The submodule is whole too,
\* unless somebody was killed.
CheckoutWhole ==
  \A p \in Process : At(p, "using") =>
    /\ Mine(p).state = "repo" /\ Mine(p).tree = rev[p]
    /\ kills = 0 => Mine(p).sub.tree = scene.sub[rev[p]]

\* What an update cannot repair: the revision was not among the commits it
\* has just cloned; the revision that Cargo.lock names is still found in a
\* database that a killed process half deleted, so nothing is fetched, but it
\* does not come out whole; the submodule's commit is not where .gitmodules
\* says; the packages of the checkout cannot be read.
BeyondRepair(p) ==
  \/ /\ At(p, "fetched") /\ fetchTo[p] = "clone_into"
     /\ IF want[p].rev = 0 THEN db.head = 0 ELSE want[p].rev > db.head
  \/ gpc[p] \in {"cofetch", "clone"} /\ want[p].precise /\ db.state = "broken" /\ kills > 0
  \/ At(p, "subreset") /\ scene.sub[rev[p]] > SubHead
  \/ At(p, "scan") /\ "manifest" \in scene.may

\* Whatever state killed processes left the database and the checkouts in, an
\* update that may use the network, without `git`, and is not let down by it
\* fails only for what it cannot repair.
UpdateRecovers ==
  [][\A p \in Process :
       gpc[p] # "failed" /\ gpc'[p] = "failed" /\ NetAllowed(p) /\ ~scene.cli /\ p \notin netfailed'
       => BeyondRepair(p)]_gitvars
===============================================================================
