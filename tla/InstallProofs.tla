------------------------------ MODULE InstallProofs ------------------------------
(***************************************************************************)
(* What an update of a git source keeps, for any number of processes and   *)
(* commits, whatever else the processes do between their updates and       *)
(* whoever is killed: the inductive invariant of the database and the      *)
(* checkouts, and then that the commands of Install keep it, with a        *)
(* process in an update only while its command selects a package.  The     *)
(* lock of the git database is assumed to work.                            *)
(***************************************************************************)
EXTENDS Install, TLAPS

--------------------------------------------------------------------------------
(* The inductive invariant                                                 *)

\* f is a function on S; what its values are is said where it matters.
Function(f, S) == f = [x \in S |-> f[x]]

\* The places of an update where it holds the lock.
Busy(p) == gpc[p] \notin {"none", "lock", "failed", "using"}

LocksTyped == locks \in [File -> [Process -> State]]

DbShape == DOMAIN db = {"state", "head", "objs", "packs"}

CoShape ==
  /\ Function(co, 1..MaxRev)
  /\ \A r \in 1..MaxRev : /\ DOMAIN co[r] = {"state", "head", "objs", "ok", "tree", "sub"}
                          /\ DOMAIN co[r].sub = {"state", "head", "tree"}
                          /\ co[r].ok \in BOOLEAN

Typed ==
  /\ LocksTyped /\ scene \in Scenes /\ kills \in Nat /\ upstream \in 0..MaxRev
  /\ DbShape /\ CoShape
  /\ Function(gpc, Process) /\ rev \in [Process -> 0..MaxRev] /\ want \in [Process -> Reference]
  /\ fetchTo \in [Process -> {"fetch_into", "clone_into"}] /\ reinited \in [Process -> BOOLEAN]

\* One process at a time is in an update, and holds the lock.
LockInv ==
  /\ \A p \in Process : Busy(p) => locks["git"][p] = "Exclusive"
  /\ \A p, q \in Process : p # q /\ locks["git"][p] # "Unlocked" => locks["git"][q] = "Unlocked"

\* The database has the history of its branch.  It is a repository when it was
\* just made or fetched into, and has the revision that is being checked out;
\* what is checked out of a broken one was named by Cargo.lock or is all there
\* is without the network, and somebody was killed.
FromDb == {"open", "cofetch", "coclear", "clone"}
Sourced(p) == db.state = "repo" \/ want[p].precise \/ Offline(p)
Remaking == {"mkdb", "reinit"}

DbInv ==
  /\ db.objs \subseteq 1..MaxRev /\ db.head \in Nat /\ 1..db.head \subseteq db.objs
  /\ \A p \in Process :
       /\ At(p, "net") /\ reinited[p] => db.state = "repo"
       /\ At(p, "fetched") => db.state = "repo"
       /\ gpc[p] \in FromDb => rev[p] \in db.objs /\ Sourced(p)
  /\ db.state = "broken" => kills > 0 \/ \E p \in Process : gpc[p] \in Remaking

Copying == {"cofetch", "coclear", "clone", "unmark", "reset", "reset2", "mark"}
Subs == {"sub", "subfetch", "subreset", "subreset2"}
Served == {"scan", "using"}

\* A checkout with .cargo-ok is whole and will not be touched; one that is
\* being worked on has none.
CoInv ==
  /\ \A r \in 1..MaxRev : co[r].ok => co[r].state = "repo" /\ co[r].head = r /\ co[r].tree = r
  /\ \A p \in Process :
       /\ gpc[p] \in Copying \cup Subs \cup Served => rev[p] \in 1..MaxRev
       /\ gpc[p] \in Copying => ~co[rev[p]].ok
       /\ At(p, "unmark") => rev[p] \in co[rev[p]].objs
       /\ gpc[p] \in {"unmark", "reset", "reset2", "mark"} => co[rev[p]].state = "repo"
       /\ At(p, "mark") => co[rev[p]].head = rev[p] /\ co[rev[p]].tree = rev[p]
       /\ gpc[p] \in Subs \cup Served => co[rev[p]].ok

\* While nobody was killed, a submodule whose HEAD is the commit pinned is
\* whole, unless it is being reset; and none is touched that is in use.
SubInv ==
  kills = 0 =>
    /\ \A r \in 1..MaxRev : scene.sub[r] = 0 => co[r].sub.tree = 0
    /\ \A r \in 1..MaxRev : scene.sub[r] # 0 /\ co[r].sub.head = scene.sub[r] =>
         \/ co[r].sub.tree = scene.sub[r]
         \/ \E p \in Process : gpc[p] \in {"subreset", "subreset2"} /\ rev[p] = r
    /\ \A p \in Process : gpc[p] \in Served /\ scene.sub[rev[p]] # 0 =>
         /\ co[rev[p]].sub.state = "repo" /\ co[rev[p]].sub.head = scene.sub[rev[p]]
         /\ co[rev[p]].sub.tree = scene.sub[rev[p]]
    /\ \A p \in Process : gpc[p] = "subreset" => co[rev[p]].sub.head = SubHead
    /\ \A p \in Process : gpc[p] \in {"subfetch", "subreset", "subreset2"} =>
         /\ scene.sub[rev[p]] # 0
         /\ \A q \in Process : gpc[q] \in Served => rev[q] # rev[p]

GitInv == Typed /\ LockInv /\ DbInv /\ CoInv /\ SubInv

\* At the start there is nothing, and nobody is at work.
LEMMA GitInvInit ==
  ASSUME scene \in Scenes, FileLockInit, GitInit
  PROVE  GitInv
<1> USE DEF GitInit, FileLockInit
<1>0. MaxRev \in Nat /\ scene.pushed \in 0..MaxRev /\ "git" \in File
  BY Zenon, GitAssumption
<1>1. LocksTyped /\ DbShape /\ CoShape
  BY Zenon DEF LocksTyped, State, DbShape, CoShape, Function, EmptyDb, NoCheckout, NoSub
<1>2. Typed
  BY <1>0, <1>1 DEF Typed, Function, Reference
<1>3. \A p \in Process : gpc[p] = "none" /\ locks["git"][p] = "Unlocked"
  BY Zenon, <1>0
<1>4. \A r \in 1..MaxRev : co[r] = NoCheckout
  BY Zenon
<1>5. db.objs = {} /\ db.head = 0 /\ db.state = "none"
  BY Zenon DEF EmptyDb
<1>6. SubInv
  BY Zenon, <1>3, <1>4 DEF SubInv, Served, NoCheckout, NoSub
<1> QED
  BY <1>2, <1>3, <1>4, <1>5, <1>6 DEF GitInv, LockInv, DbInv, CoInv, Busy, At, Copying, Subs, Served,
                                      FromDb, NoCheckout

--------------------------------------------------------------------------------
(* The lock and the place of a process                                     *)

\* Acquire, Release and ReleaseAll on the lock of git.
LEMMA LockEffects ==
  ASSUME LocksTyped, NEW p \in Process
  PROVE  /\ \A f \in File : Acquire(p, f, "Exclusive") =>
              /\ LocksTyped' /\ \A g \in File, q \in Process :
                                  g # f \/ q # p => locks'[g][q] = locks[g][q]
              /\ f \notin NoLocking => locks'[f][p] = "Exclusive"
         /\ \A f \in File : Release(p, f) =>
              /\ LocksTyped' /\ locks'[f][p] = "Unlocked"
              /\ \A g \in File, q \in Process : g # f \/ q # p => locks'[g][q] = locks[g][q]
         /\ ReleaseAll(p) =>
              /\ LocksTyped' /\ \A g \in File : locks'[g][p] = "Unlocked"
              /\ \A g \in File, q \in Process : q # p => locks'[g][q] = locks[g][q]
<1>1. \A f \in File : Acquire(p, f, "Exclusive") =>
        /\ LocksTyped' /\ \A g \in File, q \in Process :
                            g # f \/ q # p => locks'[g][q] = locks[g][q]
        /\ f \notin NoLocking => locks'[f][p] = "Exclusive"
  BY DEF LocksTyped, Acquire, State
<1>2. \A f \in File : Release(p, f) =>
        /\ LocksTyped' /\ locks'[f][p] = "Unlocked"
        /\ \A g \in File, q \in Process : g # f \/ q # p => locks'[g][q] = locks[g][q]
  BY DEF LocksTyped, Release, State
<1>3. ReleaseAll(p) =>
        /\ LocksTyped' /\ \A g \in File : locks'[g][p] = "Unlocked"
        /\ \A g \in File, q \in Process : q # p => locks'[g][q] = locks[g][q]
  BY DEF LocksTyped, ReleaseAll, State
<1> QED
  BY Zenon, <1>1, <1>2, <1>3

\* The step of an update from one place to another: it goes on, ends or begins.
GitMove(p, l) ==
  /\ Function(gpc, Process)' /\ gpc'[p] = l /\ \A q \in Process \ {p} : gpc'[q] = gpc[q]
  /\ \/ Busy(p) /\ UNCHANGED locks
     \/ Busy(p) /\ Release(p, "git") /\ l \in {"failed", "using"}
     \/ At(p, "lock") /\ Acquire(p, "git", "Exclusive") /\ l = "resolve"

\* Going on, and failing, are such moves.
LEMMA GotoMoves ==
  ASSUME Function(gpc, Process), NEW p \in Process, Busy(p)
  PROVE  /\ \A l : Goto(p, l) => GitMove(p, l)
         /\ Fail(p) => GitMove(p, "failed")
<1>1. \A l : Goto(p, l) => GitMove(p, l)
  BY Zenon DEF Goto, GitMove, Function
<1>2. Fail(p) => GitMove(p, "failed")
  BY Zenon DEF Fail, GitMove, Function
<1> QED
  BY Zenon, <1>1, <1>2

\* One process at a time stays in the update.
LEMMA MoveKeepsLock ==
  ASSUME "git" \notin NoLocking, LocksTyped, LockInv, NEW p \in Process, NEW l, GitMove(p, l)
  PROVE  LocksTyped' /\ LockInv'
<1>0. "git" \in File
  BY Zenon, GitAssumption
<1>2. CASE Busy(p) /\ UNCHANGED locks
  BY Zenon, <1>0, <1>2 DEF GitMove, LockInv, LocksTyped, Busy
<1>3. CASE Busy(p) /\ Release(p, "git") /\ l \in {"failed", "using"}
  <2>1. /\ LocksTyped' /\ locks'["git"][p] = "Unlocked"
        /\ \A q \in Process : q # p => locks'["git"][q] = locks["git"][q]
    BY <1>0, <1>3, LockEffects
  <2> QED
    BY ZenonT(30), <1>3, <2>1 DEF GitMove, LockInv, Busy
<1>4. CASE At(p, "lock") /\ Acquire(p, "git", "Exclusive") /\ l = "resolve"
  <2>1. /\ LocksTyped' /\ locks'["git"][p] = "Exclusive"
        /\ \A q \in Process : q # p => locks'["git"][q] = locks["git"][q]
    BY <1>0, <1>4, LockEffects
  <2>2. \A q \in Process : locks["git"][q] = "Unlocked"
    BY Zenon, <1>0, <1>4 DEF Acquire, Grantable, Conflict
  <2> QED
    BY Zenon, <1>4, <2>1, <2>2 DEF GitMove, LockInv, Busy, At
<1> QED
  BY Zenon, <1>2, <1>3, <1>4 DEF GitMove

\* Nobody else is in the update when a process takes a step of it.
LEMMA OthersIdle ==
  ASSUME "git" \notin NoLocking, LockInv, NEW p \in Process, NEW l, GitMove(p, l),
         NEW q \in Process, q # p
  PROVE  ~Busy(q) /\ ~Busy(q)'
<1>1. CASE Busy(p)
  BY Zenon, <1>1 DEF LockInv, GitMove, Busy
<1>2. CASE Acquire(p, "git", "Exclusive")
  <2>1. locks["git"][q] = "Unlocked"
    BY Zenon, <1>2 DEF Acquire, Grantable, Conflict
  <2> QED
    BY Zenon, <2>1 DEF LockInv, GitMove, Busy
<1> QED
  BY Zenon, <1>1, <1>2 DEF GitMove

--------------------------------------------------------------------------------
(* The database                                                            *)

\* What is left alone by every step of an update.
Frame == UNCHANGED <<scene, kills>>

\* A reference resolves to a commit in the database.
LEMMA Resolves ==
  ASSUME DbInv, NEW p \in Process
  PROVE  \A r \in resolve(p) : r # 0 => r \in db.objs
BY DEF resolve, DbInv

\* What a step has to leave in the database.
LEMMA DbKept ==
  ASSUME "git" \notin NoLocking, LockInv, DbInv, NEW p \in Process, NEW l, GitMove(p, l), Frame,
         UNCHANGED want, db'.objs \subseteq 1..MaxRev, db'.head \in Nat, 1..db'.head \subseteq db'.objs,
         l = "net" /\ reinited'[p] => db'.state = "repo",
         l = "fetched" => db'.state = "repo",
         l \in FromDb => rev'[p] \in db'.objs /\ Sourced(p)',
         db'.state = "broken" => l \in Remaking \/ (db.state = "broken" /\ gpc[p] \notin Remaking)
  PROVE  DbInv'
<1>1. \A q \in Process \ {p} : ~Busy(q) /\ ~Busy(q)'
  BY Zenon, OthersIdle
<1>2. db'.state = "broken" => kills' > 0 \/ gpc'[p] \in Remaking
  BY Zenon, <1>1 DEF DbInv, GitMove, Busy, Remaking, Frame
<1>3. \A q \in Process : /\ gpc'[q] = "net" /\ reinited'[q] => db'.state = "repo"
                         /\ gpc'[q] = "fetched" => db'.state = "repo"
                         /\ gpc'[q] \in FromDb => rev'[q] \in db'.objs /\ Sourced(q)'
  <2>1. \A q \in Process \ {p} : gpc'[q] \notin {"net", "fetched"} \cup FromDb
    BY Zenon, <1>1 DEF Busy, FromDb
  <2>2. gpc'[p] = l
    BY Zenon DEF GitMove
  <2> QED
    BY <2>1, <2>2 DEF Sourced, Offline
<1> QED
  BY Zenon, <1>2, <1>3 DEF DbInv, At

\* Steps before the checkout leave the checkouts as they are.
LEMMA CheckoutsKept ==
  ASSUME Typed, CoInv, SubInv, Frame, NEW p \in Process, NEW l, GitMove(p, l), UNCHANGED co,
         l \notin Copying \cup Subs \cup Served, gpc[p] \notin Copying \cup Subs \cup Served,
         \A q \in Process \ {p} : rev'[q] = rev[q]
  PROVE  CoInv' /\ SubInv'
<1> USE DEF GitMove, Copying, Subs, Served
<1>1. CoInv'
  BY DEF CoInv, At
<1>2. SubInv'
  BY DEF SubInv, Frame
<1> QED
  BY Zenon, <1>1, <1>2

\* From the lock to the end of the fetch.
Fetching(p) ==
  \/ Lock(p) \/ Resolve(p) \/ ClearDb(p) \/ MakeDb(p) \/ FetchStart(p) \/ Wipe(p) \/ Reinit(p)
  \/ Net(p) \/ Retry(p) \/ Rescan(p)

\* Where they lead, and what is then true of the database.
LEMMA FetchingMoves ==
  ASSUME Typed, DbInv, Frame, NEW p \in Process, Fetching(p)
  PROVE  \E l \in {"resolve", "open", "failed", "fetch", "clear", "mkdb", "wipe", "reinit", "net",
                   "fetched"} :
           /\ GitMove(p, l)
           /\ l = "net" /\ reinited'[p] => db'.state = "repo"
           /\ l = "fetched" => db'.state = "repo"
           /\ l = "open" => rev'[p] \in db'.objs /\ Sourced(p)'
           /\ db'.state = "broken" => l \in Remaking \/ (db.state = "broken" /\ gpc[p] \notin Remaking)
<1>0. Function(gpc, Process) /\ (\A r \in resolve(p) : r # 0 => r \in db.objs) /\ DbShape
      /\ rev \in [Process -> 0..MaxRev] /\ reinited \in [Process -> BOOLEAN]
  BY Zenon, Resolves DEF Typed
<1>g. Busy(p) => (\A l : Goto(p, l) => GitMove(p, l)) /\ (Fail(p) => GitMove(p, "failed"))
  BY Zenon, <1>0, GotoMoves
<1> USE DEF At, Busy, Remaking
<1>1. CASE Lock(p)
  BY Zenon, <1>0, <1>1 DEF Lock, GitMove, Function
<1>2. CASE Resolve(p)
  <2>1. PICK r \in resolve(p) :
          /\ gpc[p] = "resolve" /\ db' = db /\ want' = want /\ rev'[p] = r
          /\ \/ Fail(p) \/ Goto(p, "fetch") \/ Goto(p, "clear")
             \/ Goto(p, "open") /\ r # 0 /\ (want[p].precise \/ Offline(p))
    BY Zenon, <1>0, <1>2 DEF Resolve, ShouldUpdate
  <2>2. want[p].precise \/ Offline(p) => Sourced(p)'
    BY Zenon, <2>1 DEF Sourced, Offline, Frame
  <2> QED
    BY Zenon, <1>0, <1>g, <2>1, <2>2
<1>3. CASE ClearDb(p) \/ Wipe(p)
  <2>1. Busy(p) /\ \E l \in {"mkdb", "reinit"} : Goto(p, l)
    BY Zenon, <1>3 DEF ClearDb, Wipe
  <2> QED
    BY Zenon, <1>g, <2>1
<1>4. CASE FetchStart(p)
  <2>1. /\ gpc[p] = "fetch" /\ reinited'[p] = FALSE /\ db'.state = db.state
        /\ Fail(p) \/ Goto(p, "net") \/ Goto(p, "wipe")
    BY Zenon, <1>0, <1>4 DEF FetchStart, DbShape
  <2> QED
    BY Zenon, <1>g, <2>1
<1>9. CASE MakeDb(p)
  <2>1. Busy(p) /\ Goto(p, "fetch") /\ db'.state = "repo"
    BY Zenon, <1>9 DEF MakeDb, EmptyDb
  <2> QED
    BY Zenon, <1>g, <2>1
<1>5. CASE Reinit(p)
  <2>1. Busy(p) /\ db'.state = "repo" /\ Goto(p, "net")
    BY Zenon, <1>5 DEF Reinit, EmptyDb
  <2> QED
    BY Zenon, <1>g, <2>1
<1>6. CASE Net(p)
  <2>1. /\ gpc[p] = "net"
        /\ \/ Fail(p) /\ db' = db
           \/ Goto(p, "wipe") /\ db' = db
           \/ Goto(p, "fetched") /\ db'.state = "repo"
    BY <1>6 DEF Net, Fetched
  <2> QED
    BY Zenon, <1>g, <2>1
<1>7. CASE Retry(p)
  <2>1. gpc[p] = "net" /\ UNCHANGED <<locks, gpc, db>> /\ reinited'[p] = FALSE
    BY Zenon, <1>0, <1>7 DEF Retry
  <2>2. GitMove(p, "net")
    BY Zenon, <1>0, <2>1 DEF GitMove, Function
  <2> QED
    BY Zenon, <2>1, <2>2
<1>8. CASE Rescan(p)
  <2>1. PICK r \in resolve(p) :
          /\ gpc[p] = "fetched" /\ db' = db /\ rev'[p] = r
          /\ Fail(p) \/ Goto(p, "clear") \/ (Goto(p, "open") /\ r # 0)
    BY Zenon, <1>0, <1>8 DEF Rescan
  <2>2. Sourced(p)'
    BY Zenon, <2>1 DEF Sourced, DbInv
  <2> QED
    BY Zenon, <1>0, <1>g, <2>1, <2>2
<1> QED
  BY Zenon, <1>1, <1>2, <1>3, <1>4, <1>5, <1>6, <1>7, <1>8, <1>9 DEF Fetching

\* The history stays whole, and everything keeps its type.
LEMMA FetchingTyped ==
  ASSUME Typed, DbInv, NEW p \in Process, Fetching(p)
  PROVE  /\ DbShape' /\ db'.objs \subseteq 1..MaxRev /\ db'.head \in Nat /\ 1..db'.head \subseteq db'.objs
         /\ rev' \in [Process -> 0..MaxRev] /\ reinited' \in [Process -> BOOLEAN]
         /\ fetchTo' \in [Process -> {"fetch_into", "clone_into"}]
         /\ UNCHANGED <<upstream, co, want>>
         /\ \A q \in Process \ {p} : rev'[q] = rev[q]
         /\ gpc[p] \notin Copying \cup Subs \cup Served
<1>0. /\ resolve(p) \subseteq 0..MaxRev /\ DbShape /\ MaxRev \in Nat /\ upstream \in 0..MaxRev
      /\ db.objs \subseteq 1..MaxRev /\ db.head \in Nat /\ 1..db.head \subseteq db.objs
  BY Resolves, GitAssumption DEF DbInv, Typed
<1>1. /\ gpc[p] \in {"lock", "resolve", "clear", "mkdb", "fetch", "wipe", "reinit", "net", "fetched"}
      /\ UNCHANGED <<upstream, co, want>>
  BY Zenon DEF Fetching, Lock, Resolve, ClearDb, MakeDb, FetchStart, Wipe, Reinit, Net, Retry, Rescan, At
<1>2. \/ UNCHANGED db \/ db' = EmptyDb \/ db' = [db EXCEPT !.state = "broken"]
      \/ db' = [db EXCEPT !.packs = 1] \/ Fetched
  BY Zenon DEF Fetching, Lock, Resolve, ClearDb, MakeDb, FetchStart, Wipe, Reinit, Net, Retry, Rescan
<1>3. DbShape' /\ db'.objs \subseteq 1..MaxRev /\ db'.head \in Nat /\ 1..db'.head \subseteq db'.objs
  <2>1. CASE UNCHANGED db \/ db' = [db EXCEPT !.packs = 1] \/ db' = [db EXCEPT !.state = "broken"]
    BY Zenon, <1>0, <2>1 DEF DbShape
  <2>2. CASE db' = EmptyDb
    BY <1>0, <2>2 DEF DbShape, EmptyDb
  <2>3. CASE Fetched
    BY <1>0, <2>3 DEF DbShape, Fetched
  <2> QED
    BY Zenon, <1>2, <2>1, <2>2, <2>3
<1>4. \/ UNCHANGED rev \/ \E r \in resolve(p) : rev' = [rev EXCEPT ![p] = r]
  BY Zenon DEF Fetching, Lock, Resolve, ClearDb, MakeDb, FetchStart, Wipe, Reinit, Net, Retry, Rescan
<1>5. \/ UNCHANGED reinited \/ \E b \in BOOLEAN : reinited' = [reinited EXCEPT ![p] = b]
  BY Zenon DEF Fetching, Lock, Resolve, ClearDb, MakeDb, FetchStart, Wipe, Reinit, Net, Retry, Rescan
<1>6. \/ UNCHANGED fetchTo
      \/ \E f \in {"fetch_into", "clone_into"} : fetchTo' = [fetchTo EXCEPT ![p] = f]
  BY Zenon DEF Fetching, Lock, Resolve, ClearDb, MakeDb, FetchStart, Wipe, Reinit, Net, Retry, Rescan
<1> QED
  BY Zenon, <1>0, <1>1, <1>3, <1>4, <1>5, <1>6 DEF Typed, Copying, Subs, Served

\* They keep the invariant.
LEMMA FetchingStep ==
  ASSUME "git" \notin NoLocking, GitInv, Frame, NEW p \in Process, Fetching(p)
  PROVE  GitInv'
<1>0. Typed /\ LockInv /\ DbInv /\ CoInv /\ SubInv
  BY Zenon DEF GitInv
<1>1. PICK l \in {"resolve", "open", "failed", "fetch", "clear", "mkdb", "wipe", "reinit", "net",
                  "fetched"} :
           /\ GitMove(p, l)
           /\ l = "net" /\ reinited'[p] => db'.state = "repo"
           /\ l = "fetched" => db'.state = "repo"
           /\ l = "open" => rev'[p] \in db'.objs /\ Sourced(p)'
           /\ db'.state = "broken" => l \in Remaking \/ (db.state = "broken" /\ gpc[p] \notin Remaking)
  BY Zenon, <1>0, FetchingMoves
<1>2. /\ DbShape' /\ db'.objs \subseteq 1..MaxRev /\ db'.head \in Nat /\ 1..db'.head \subseteq db'.objs
      /\ rev' \in [Process -> 0..MaxRev] /\ reinited' \in [Process -> BOOLEAN]
      /\ fetchTo' \in [Process -> {"fetch_into", "clone_into"}]
      /\ UNCHANGED <<upstream, co, want>>
      /\ \A q \in Process \ {p} : rev'[q] = rev[q]
      /\ gpc[p] \notin Copying \cup Subs \cup Served
  BY Zenon, <1>0, FetchingTyped
<1>3. l \notin Copying \cup Subs \cup Served
  BY Zenon DEF Copying, Subs, Served
<1>4. LocksTyped' /\ LockInv'
  BY Zenon, <1>0, <1>1, MoveKeepsLock DEF Typed, Frame
<1>5. DbInv'
  <2>1. l \in FromDb => l = "open"
    BY Zenon DEF FromDb
  <2> QED
    BY Zenon, <1>0, <1>1, <1>2, <2>1, DbKept
<1>6. CoInv' /\ SubInv'
  BY Zenon, <1>0, <1>1, <1>2, <1>3, CheckoutsKept
<1>7. Typed'
  BY Zenon, <1>0, <1>1, <1>2, <1>4 DEF Typed, Frame, GitMove, CoShape, Function
<1> QED
  BY Zenon, <1>4, <1>5, <1>6, <1>7 DEF GitInv

--------------------------------------------------------------------------------
(* The checkouts                                                           *)

\* The checkout of r is rewritten, apart from its objects.
CoSet(r, state, head, ok, tree, sub) ==
  /\ Function(co, 1..MaxRev)' /\ \A s \in 1..MaxRev \ {r} : co'[s] = co[s]
  /\ DOMAIN co'[r] = {"state", "head", "objs", "ok", "tree", "sub"}
  /\ co'[r].state = state /\ co'[r].head = head /\ co'[r].ok = ok /\ co'[r].tree = tree
  /\ co'[r].sub = sub

\* It stays a checkout.
LEMMA CoSetShape ==
  ASSUME CoShape, NEW r \in 1..MaxRev, NEW state, NEW head, NEW ok \in BOOLEAN, NEW tree, NEW sub,
         CoSet(r, state, head, ok, tree, sub), DOMAIN sub = {"state", "head", "tree"}
  PROVE  CoShape'
BY Zenon DEF CoShape, CoSet

\* .cargo-ok stays with what is whole, and the place l fits what is written.
Sound(p, l, state, head, ok, tree) ==
  /\ ok => state = "repo" /\ head = rev[p] /\ tree = rev[p]
  /\ co[rev[p]].ok => ok
  /\ l \in Copying => ~ok
  /\ l = "unmark" => rev[p] \in co'[rev[p]].objs
  /\ l \in {"unmark", "reset", "reset2", "mark"} => state = "repo"
  /\ l = "mark" => head = rev[p] /\ tree = rev[p]
  /\ l \in Subs \cup Served => ok

\* A checkout may be rewritten as long as .cargo-ok stays with what is whole.
LEMMA CoWrite ==
  ASSUME "git" \notin NoLocking, Typed, LockInv, CoInv, NEW p \in Process, NEW l, GitMove(p, l),
         UNCHANGED rev, rev[p] \in 1..MaxRev,
         NEW state, NEW head, NEW ok \in BOOLEAN, NEW tree, NEW sub,
         CoSet(rev[p], state, head, ok, tree, sub),
         Sound(p, l, state, head, ok, tree)
  PROVE  CoInv'
<1>1. \A q \in Process \ {p} : ~Busy(q)' /\ gpc'[q] = gpc[q]
  BY Zenon, OthersIdle DEF GitMove
<1>2. \A r \in 1..MaxRev : co'[r].ok => co'[r].state = "repo" /\ co'[r].head = r /\ co'[r].tree = r
  BY DEF CoInv, CoSet, Sound
<1>3. ASSUME NEW q \in Process \ {p}, gpc[q] = "using"
      PROVE  rev[q] \in 1..MaxRev /\ co'[rev[q]].ok
  BY <1>3 DEF CoInv, CoSet, Sound, Served
<1> QED
  BY <1>1, <1>2, <1>3 DEF CoInv, CoSet, Sound, GitMove, Busy, At, Copying, Subs, Served

\* Submodules that are not rewritten.
LEMMA SubKept ==
  ASSUME SubInv, Frame, NEW p \in Process, NEW l, GitMove(p, l), UNCHANGED rev,
         \A r \in 1..MaxRev : co'[r].sub = co[r].sub, CoInv, CoInv',
         l \notin {"subfetch", "subreset", "subreset2"} \cup Served,
         gpc[p] \notin {"subreset", "subreset2"} \cup Served
  PROVE  SubInv'
<1>1. \A q \in Process \ {p} : gpc'[q] = gpc[q]
  BY Zenon DEF GitMove
<1>2. \A q \in Process : gpc'[q] \in Served => q # p /\ rev[q] \in 1..MaxRev
  BY Zenon, <1>1 DEF GitMove, CoInv, Served
<1>3. \A q \in Process : gpc'[q] = "subreset" => q # p /\ gpc[q] = "subreset" /\ rev[q] \in 1..MaxRev
  BY Zenon, <1>1 DEF GitMove, CoInv, Subs
<1>4. kills = 0 => \A q \in Process : gpc'[q] = "subreset" => co'[rev'[q]].sub.head = SubHead
  <2> SUFFICES ASSUME kills = 0, NEW q \in Process, gpc'[q] = "subreset"
               PROVE  co'[rev[q]].sub.head = SubHead
    BY Zenon
  <2>1. gpc[q] = "subreset" /\ co'[rev[q]].sub = co[rev[q]].sub
    BY Zenon, <1>3
  <2>2. co[rev[q]].sub.head = SubHead
    BY Zenon, <2>1 DEF SubInv
  <2> QED  BY Zenon, <2>1, <2>2
<1>8. \A q \in Process : gpc[q] \in {"subreset", "subreset2"} => gpc'[q] = gpc[q]
  BY Zenon, <1>1
<1>9. kills = 0 => \A r \in 1..MaxRev : scene'.sub[r] = 0 => co'[r].sub.tree = 0
  BY Zenon DEF SubInv, Frame
<1>5. kills = 0 => \A r \in 1..MaxRev : scene'.sub[r] # 0 /\ co'[r].sub.head = scene'.sub[r] =>
         \/ co'[r].sub.tree = scene'.sub[r]
         \/ \E q \in Process : gpc'[q] \in {"subreset", "subreset2"} /\ rev'[q] = r
  <2> SUFFICES ASSUME kills = 0, NEW r \in 1..MaxRev, scene.sub[r] # 0, co[r].sub.head = scene.sub[r]
               PROVE  \/ co[r].sub.tree = scene.sub[r]
                      \/ \E q \in Process : gpc'[q] \in {"subreset", "subreset2"} /\ rev[q] = r
    BY Zenon DEF Frame
  <2> QED
    BY Zenon, <1>8 DEF SubInv
<1>6. kills = 0 => \A q \in Process : gpc'[q] \in Served /\ scene'.sub[rev'[q]] # 0 =>
         /\ co'[rev'[q]].sub.state = "repo" /\ co'[rev'[q]].sub.head = scene'.sub[rev'[q]]
         /\ co'[rev'[q]].sub.tree = scene'.sub[rev'[q]]
  BY <1>1, <1>2 DEF SubInv, Frame
<1>7. kills = 0 => \A q \in Process : gpc'[q] \in {"subfetch", "subreset", "subreset2"} =>
         /\ scene'.sub[rev'[q]] # 0
         /\ \A x \in Process : gpc'[x] \in Served => rev'[x] # rev'[q]
  <2>1. gpc'[p] = l
    BY Zenon DEF GitMove
  <2> QED
    BY Zenon, <1>1, <1>2, <2>1 DEF SubInv, Frame
<1> QED
  BY Zenon, <1>4, <1>5, <1>6, <1>7, <1>9 DEF SubInv, Frame

\* A submodule that is gone, with the checkout that nobody uses.
LEMMA SubCleared ==
  ASSUME "git" \notin NoLocking, LockInv, SubInv, CoInv, CoInv', Frame, NEW p \in Process, NEW l,
         GitMove(p, l), UNCHANGED rev, gpc[p] \in Copying, l \in Copying,
         NEW state, NEW head, NEW ok, NEW tree, CoSet(rev[p], state, head, ok, tree, NoSub)
  PROVE  SubInv'
<1>1. \A q \in Process \ {p} : ~Busy(q)' /\ gpc'[q] = gpc[q]
  BY Zenon, OthersIdle DEF GitMove
<1>2. \A q \in Process : gpc'[q] \in Served =>
        /\ q # p /\ gpc[q] \in Served /\ rev[q] \in 1..MaxRev /\ rev[q] # rev[p]
  BY Zenon, <1>1 DEF GitMove, CoInv, Served, Copying
<1>3. co'[rev[p]].sub.tree = 0 /\ co'[rev[p]].sub.head = 0
  BY DEF CoSet, NoSub
<1>4. \A q \in Process : gpc'[q] \notin {"subfetch", "subreset", "subreset2"}
                         /\ gpc[q] \notin {"subreset", "subreset2"}
  BY Zenon, <1>1, OthersIdle DEF GitMove, Copying, Busy
<1>5. \A r \in 1..MaxRev \ {rev[p]} : co'[r] = co[r]
  BY Zenon DEF CoSet
<1> QED
  BY Zenon, <1>2, <1>3, <1>4, <1>5 DEF SubInv, Frame

\* The steps of copy_to up to the new .cargo-ok.
Copies(p) ==
  \/ Open(p) \/ FetchCheckout(p) \/ ClearCheckout(p) \/ CloneCheckout(p)
  \/ Unmark(p) \/ ResetStart(p) \/ ResetEnd(p) \/ Mark(p)

\* What is common to the steps that follow the fetch.
LEMMA CopyFrame ==
  ASSUME NEW p \in Process,
         \/ Copies(p) \/ SubStart(p) \/ SubFetch(p) \/ SubResetStart(p) \/ SubResetEnd(p) \/ Scan(p)
  PROVE  /\ Busy(p) /\ UNCHANGED <<upstream, db, want, fetchTo, rev, reinited>>
         /\ gpc[p] \in {"open"} \cup Copying \cup Subs \cup Served
BY Zenon DEF Copies, Open, FetchCheckout, ClearCheckout, CloneCheckout, Unmark, ResetStart, ResetEnd,
             Mark, SubStart, SubFetch, SubResetStart, SubResetEnd, Scan, coUnchanged, At, Busy,
             Copying, Subs, Served

\* Such a step keeps the invariant if it keeps what is said of the checkouts.
LEMMA CopyKept ==
  ASSUME "git" \notin NoLocking, GitInv, Frame, NEW p \in Process, NEW l, GitMove(p, l),
         UNCHANGED <<upstream, db, want, fetchTo, rev, reinited>>,
         CoShape', CoInv', SubInv', gpc[p] \in {"open"} \cup Copying \cup Subs \cup Served,
         l \in Copying \cup Subs \cup Served \cup {"failed"},
         l \in {"cofetch", "coclear", "clone"} => gpc[p] \in {"open", "cofetch", "coclear"}
  PROVE  GitInv'
<1>0. Typed /\ LockInv /\ DbInv
  BY Zenon DEF GitInv
<1>1. LocksTyped' /\ LockInv'
  BY Zenon, <1>0, MoveKeepsLock DEF Typed, Frame
<1>2. DbInv'
  <2>1. l \in FromDb => rev'[p] \in db'.objs /\ Sourced(p)'
    BY Zenon, <1>0 DEF DbInv, FromDb, Sourced, Offline, Frame, Copying, Subs, Served
  <2>2. gpc[p] \notin Remaking /\ l \notin {"net", "fetched"}
    BY Zenon DEF Remaking, Copying, Subs, Served
  <2> QED
    BY Zenon, <1>0, <2>1, <2>2, DbKept DEF DbInv
<1>3. Typed'
  BY Zenon, <1>0, <1>1 DEF Typed, Frame, GitMove, DbShape, Function
<1> QED
  BY Zenon, <1>1, <1>2, <1>3 DEF GitInv

\* Where a checkout that was fetched into is taken up.
FetchedTo(p) == Goto(p, IF rev[p] \in co'[rev[p]].objs THEN "unmark" ELSE "coclear")

\* What each step of copy_to does to the checkout.
LEMMA CopyEffects ==
  ASSUME CoShape, NEW p \in Process, NEW r \in 1..MaxRev, r = rev[p], NEW c, c = co[r]
  PROVE  /\ co' = co => CoSet(r, c.state, c.head, c.ok, c.tree, c.sub)
         /\ FetchCheckout(p) => \/ Fail(p) /\ co' = co
                                \/ CoSet(r, "repo", db.head, c.ok, c.tree, c.sub) /\ FetchedTo(p)
         /\ CloneCheckout(p) => \/ Fail(p) /\ co' = co
                                \/ /\ CoSet(r, "repo", db.head, FALSE, 0, NoSub)
                                   /\ co'[r].objs = db.objs /\ Goto(p, "unmark")
         /\ Unmark(p) => CoSet(r, c.state, c.head, FALSE, c.tree, c.sub)
         /\ ResetStart(p) => CoSet(r, c.state, c.head, c.ok, Torn, c.sub)
         /\ ResetEnd(p) => CoSet(r, c.state, r, c.ok, r, c.sub)
         /\ Mark(p) => CoSet(r, c.state, c.head, TRUE, c.tree, c.sub)
<1> USE DEF CoShape, Function, CoSet
<1>1. co' = co => CoSet(r, c.state, c.head, c.ok, c.tree, c.sub)
  BY Zenon
<1>2. ASSUME FetchCheckout(p), ~(Fail(p) /\ co' = co)
      PROVE  CoSet(r, "repo", db.head, c.ok, c.tree, c.sub) /\ FetchedTo(p)
  <2>1. /\ co' = [co EXCEPT ![rev[p]].objs = @ \cup db.objs, ![rev[p]].head = db.head,
                            ![rev[p]].state = "repo"]
        /\ FetchedTo(p)
    BY <1>2, Zenon DEF FetchCheckout, FetchedTo
  <2> QED
    BY <2>1, Zenon
<1>4. ASSUME CloneCheckout(p), ~(Fail(p) /\ co' = co)
      PROVE  /\ CoSet(r, "repo", db.head, FALSE, 0, NoSub)
             /\ co'[r].objs = db.objs /\ Goto(p, "unmark")
  <2>1. /\ co' = [co EXCEPT ![r] =
                    [NoCheckout EXCEPT !.state = "repo", !.head = db.head, !.objs = db.objs]]
        /\ Goto(p, "unmark")
    BY Zenon, <1>4 DEF CloneCheckout
  <2> QED
    BY <2>1, Zenon DEF NoCheckout
<1>5. ASSUME Unmark(p) PROVE CoSet(r, c.state, c.head, FALSE, c.tree, c.sub)
  <2>1. co' = [co EXCEPT ![r].ok = FALSE]
    BY Zenon, <1>5 DEF Unmark
  <2> QED
    BY <2>1, Zenon
<1>6. ASSUME ResetStart(p) PROVE CoSet(r, c.state, c.head, c.ok, Torn, c.sub)
  <2>1. co' = [co EXCEPT ![r].tree = Torn]
    BY Zenon, <1>6 DEF ResetStart
  <2> QED
    BY <2>1, Zenon
<1>7. ASSUME ResetEnd(p) PROVE CoSet(r, c.state, r, c.ok, r, c.sub)
  <2>1. co' = [co EXCEPT ![r].tree = r, ![r].head = r]
    BY Zenon, <1>7 DEF ResetEnd
  <2> QED
    BY <2>1, Zenon
<1>8. ASSUME Mark(p) PROVE CoSet(r, c.state, c.head, TRUE, c.tree, c.sub)
  <2>1. co' = [co EXCEPT ![r].ok = TRUE]
    BY Zenon, <1>8 DEF Mark
  <2> QED
    BY <2>1, Zenon
<1> QED
  BY <1>1, <1>2, <1>4, <1>5, <1>6, <1>7, <1>8, Zenon

\* A directory is deleted in any order.
LEMMA ClearEffect ==
  ASSUME CoShape, NEW p \in Process, NEW r \in 1..MaxRev, r = rev[p], ClearCheckout(p)
  PROVE  \E ok \in {co[r].ok, FALSE} : \E state : CoSet(r, state, co[r].head, ok, Torn, NoSub)
<1>1. PICK ok \in {co[r].ok, FALSE}, state \in {co[r].state, "broken"} :
        co' = [co EXCEPT ![r].state = state, ![r].ok = ok, ![r].tree = Torn, ![r].sub = NoSub]
  BY Zenon DEF ClearCheckout, Mine
<1>2. CoSet(r, state, co[r].head, ok, Torn, NoSub)
  BY <1>1, ZenonT(30) DEF CoShape, Function, CoSet
<1> QED
  BY <1>2, Zenon

\* A checkout is copied while it has no .cargo-ok, and gets it when it is whole.
LEMMA CopyStep ==
  ASSUME "git" \notin NoLocking, GitInv, Frame, NEW p \in Process, Copies(p)
  PROVE  GitInv'
<1>0. /\ Typed /\ LockInv /\ DbInv /\ CoInv /\ SubInv /\ CoShape
      /\ Busy(p) /\ UNCHANGED <<upstream, db, want, fetchTo, rev, reinited>>
      /\ gpc[p] \in {"open"} \cup Copying \cup Subs \cup Served
  BY Zenon, CopyFrame DEF GitInv, Typed
<1>g. (\A l : Goto(p, l) => GitMove(p, l)) /\ (Fail(p) => GitMove(p, "failed"))
  BY Zenon, <1>0, GotoMoves DEF Typed
<1> SUFFICES ASSUME NEW r, r = rev[p], NEW c, c = co[r] PROVE GitInv'
  BY Zenon
<1>r. r \in 1..MaxRev
  <2>1. gpc[p] \in {"open"} \cup Copying
    BY Zenon DEF Copies, Open, FetchCheckout, ClearCheckout, CloneCheckout, Unmark, ResetStart, ResetEnd,
           Mark, At, Copying
  <2> QED
    BY Zenon, <1>0, <2>1 DEF CoInv, DbInv, FromDb
<1>c. /\ DOMAIN c.sub = {"state", "head", "tree"} /\ c.ok \in BOOLEAN
      /\ c.ok => c.state = "repo" /\ c.head = r /\ c.tree = r
      /\ gpc[p] \in Copying => ~c.ok
  BY Zenon, <1>0, <1>r DEF CoShape, CoInv
\* The step goes on at l and leaves the submodule alone.
<1>k. ASSUME NEW l, GitMove(p, l), gpc[p] \in {"open"} \cup Copying,
             l \in Copying \cup {"sub", "failed"},
             l \in {"cofetch", "coclear", "clone"} => gpc[p] \in {"open", "cofetch", "coclear"},
             NEW state, NEW head, NEW ok \in BOOLEAN, NEW tree,
             CoSet(r, state, head, ok, tree, c.sub),
             Sound(p, l, state, head, ok, tree)
      PROVE  GitInv'
  <2>1. CoShape'
    BY Zenon, <1>0, <1>r, <1>c, <1>k DEF CoShape, CoSet
  <2>3. CoInv'
    BY <1>0, <1>r, <1>k, CoWrite, Zenon
  <2>4. \A s \in 1..MaxRev : co'[s].sub = co[s].sub
    BY Zenon, <1>k DEF CoSet
  <2>5. /\ l \notin {"subfetch", "subreset", "subreset2"} \cup Served
        /\ gpc[p] \notin {"subreset", "subreset2"} \cup Served
    BY Zenon, <1>k DEF Copying, Served
  <2>6. SubInv'
    BY Zenon, <1>0, <1>k, <2>3, <2>4, <2>5, SubKept
  <2>7. l \in Copying \cup Subs \cup Served \cup {"failed"}
    BY Zenon, <1>k DEF Subs
  <2> QED
    BY Zenon, <1>0, <1>k, <2>1, <2>3, <2>6, <2>7, CopyKept
\* The step deletes the submodule, too.
<1>d. ASSUME NEW l \in {"clone", "unmark"}, GitMove(p, l), gpc[p] \in {"coclear", "clone"},
             l = "clone" => gpc[p] = "coclear",
             NEW state, NEW head, NEW tree, CoSet(r, state, head, FALSE, tree, NoSub),
             l = "unmark" => state = "repo" /\ r \in co'[r].objs
      PROVE  GitInv'
  <2>0. l \in Copying /\ l \notin Subs \cup Served /\ gpc[p] \in Copying
    BY Zenon, <1>d DEF Copying, Subs, Served
  <2>1. CoShape'
    BY <1>0, <1>r, <1>d, CoSetShape, Zenon DEF NoSub
  <2>2. Sound(p, l, state, head, FALSE, tree)
    BY Zenon, <1>c, <1>d, <2>0 DEF Sound
  <2>3. CoInv'
    BY <1>0, <1>r, <1>d, <2>2, CoWrite, Zenon
  <2>4. SubInv'
    BY <1>0, <1>d, <2>0, <2>3, SubCleared, Zenon
  <2> QED
    BY Zenon, <1>0, <1>d, <2>0, <2>1, <2>3, <2>4, CopyKept
<1> USE DEF At, Mine
\* The step fails and leaves the checkout alone.
<1>f. ASSUME Fail(p), co' = co, gpc[p] \in Copying PROVE GitInv'
  <2>1. CoSet(r, c.state, c.head, c.ok, c.tree, c.sub)
    BY <1>0, <1>r, <1>f, CopyEffects, Zenon
  <2>2. Sound(p, "failed", c.state, c.head, c.ok, c.tree)
    BY Zenon, <1>c DEF Sound, Copying, Subs, Served
  <2>3. GitMove(p, "failed") /\ "failed" \notin {"cofetch", "coclear", "clone"}
    BY Zenon, <1>g, <1>f
  <2> QED
    BY <1>k, <1>c, <1>f, <2>1, <2>2, <2>3, ZenonT(30)
<1>1. CASE Open(p)
  <2>1. co' = co /\ gpc[p] = "open"
    BY Zenon, <1>1 DEF Open
  <2>2. PICK l : /\ Goto(p, l) /\ l \in {"coclear", "sub", "cofetch"}
                 /\ l \in {"coclear", "cofetch"} => ~c.ok
                 /\ l = "sub" => c.ok
    BY <1>1, <1>c DEF Open, MayOpen, is_fresh
  <2>3. CoSet(r, c.state, c.head, c.ok, c.tree, c.sub)
    BY <1>0, <1>r, <2>1, CopyEffects, Zenon
  <2>4. Sound(p, l, c.state, c.head, c.ok, c.tree)
    BY Zenon, <1>c, <2>2 DEF Sound, Copying, Subs, Served
  <2> QED
    BY <1>g, <1>k, <1>c, <2>1, <2>2, <2>3, <2>4 DEF Copying
<1>2. CASE FetchCheckout(p)
  <2>0. gpc[p] = "cofetch" /\ gpc[p] \in Copying
    BY Zenon, <1>2 DEF FetchCheckout, Copying
  <2>2. CASE CoSet(r, "repo", db.head, c.ok, c.tree, c.sub) /\ FetchedTo(p)
    <3>2. ~c.ok
      BY Zenon, <1>c, <2>0
    <3>3. PICK l : Goto(p, l) /\ l \in {"unmark", "coclear"} /\ (l = "unmark" => r \in co'[r].objs)
      <4>1. CASE r \in co'[r].objs
        BY Zenon, <2>2, <4>1 DEF FetchedTo
      <4>2. CASE r \notin co'[r].objs
        <5>1. Goto(p, "coclear")
          BY Zenon, <2>2, <4>2 DEF FetchedTo
        <5> QED
          BY <5>1
      <4> QED
        BY Zenon, <4>1, <4>2
    <3>4. Sound(p, l, "repo", db.head, c.ok, c.tree)
      BY Zenon, <3>2, <3>3 DEF Sound, Subs, Served
    <3> QED
      BY <1>g, <1>k, <1>c, <2>0, <2>2, <3>2, <3>3, <3>4 DEF Copying
  <2> QED
    BY Zenon, <1>0, <1>r, <1>2, <1>f, <2>0, <2>2, CopyEffects
<1>3. CASE ClearCheckout(p)
  <2>1. PICK ok \in {c.ok, FALSE} : \E state : CoSet(r, state, c.head, ok, Torn, NoSub)
    BY <1>0, <1>r, <1>3, ClearEffect, Zenon
  <2>2. gpc[p] = "coclear" /\ Goto(p, "clone")
    BY Zenon, <1>3 DEF ClearCheckout
  <2>3. ok = FALSE
    BY <1>c, <2>1, <2>2, Zenon DEF Copying
  <2> QED
    BY <1>g, <1>d, <2>1, <2>2, <2>3, Zenon
<1>4. CASE CloneCheckout(p)
  <2>1. gpc[p] = "clone" /\ gpc[p] \in Copying /\ r \in db.objs
    BY Zenon, <1>0, <1>4 DEF CloneCheckout, DbInv, FromDb, Copying
  <2>2. CASE CoSet(r, "repo", db.head, FALSE, 0, NoSub) /\ co'[r].objs = db.objs /\ Goto(p, "unmark")
    BY <1>g, <1>d, <2>1, <2>2, Zenon
  <2> QED
    BY Zenon, <1>0, <1>r, <1>4, <1>f, <2>1, <2>2, CopyEffects
<1>5. CASE Unmark(p)
  <2>1. CoSet(r, c.state, c.head, FALSE, c.tree, c.sub)
    BY <1>0, <1>r, <1>5, CopyEffects, Zenon
  <2>2. gpc[p] = "unmark" /\ c.state = "repo" /\ Goto(p, "reset")
    BY Zenon, <1>0, <1>5 DEF Unmark, CoInv
  <2>3. Sound(p, "reset", c.state, c.head, FALSE, c.tree)
    BY Zenon, <1>c, <2>2 DEF Sound, Copying, Subs, Served
  <2> QED
    BY <1>g, <1>k, <1>c, <2>1, <2>2, <2>3, Zenon DEF Copying
<1>6. CASE ResetStart(p)
  <2>1. CoSet(r, c.state, c.head, c.ok, Torn, c.sub)
    BY <1>0, <1>r, <1>6, CopyEffects, Zenon
  <2>2. gpc[p] = "reset" /\ c.state = "repo" /\ Goto(p, "reset2")
    BY Zenon, <1>0, <1>6 DEF ResetStart, CoInv
  <2>3. Sound(p, "reset2", c.state, c.head, c.ok, Torn)
    BY Zenon, <1>c, <2>2 DEF Sound, Copying, Subs, Served
  <2> QED
    BY Zenon, <1>g, <1>k, <1>c, <2>1, <2>2, <2>3 DEF Copying
<1>7. CASE ResetEnd(p)
  <2>1. CoSet(r, c.state, r, c.ok, r, c.sub)
    BY <1>0, <1>r, <1>7, CopyEffects, Zenon
  <2>2. gpc[p] = "reset2" /\ c.state = "repo" /\ Goto(p, "mark")
    BY Zenon, <1>0, <1>7 DEF ResetEnd, CoInv
  <2>3. Sound(p, "mark", c.state, r, c.ok, r)
    BY Zenon, <1>c, <2>2 DEF Sound, Copying, Subs, Served
  <2> QED
    BY Zenon, <1>g, <1>k, <1>c, <2>1, <2>2, <2>3 DEF Copying
<1>8. CASE Mark(p)
  <2>1. CoSet(r, c.state, c.head, TRUE, c.tree, c.sub)
    BY <1>0, <1>r, <1>8, CopyEffects, Zenon
  <2>2. gpc[p] = "mark" /\ c.state = "repo" /\ c.head = r /\ c.tree = r /\ Goto(p, "sub")
    BY Zenon, <1>0, <1>8 DEF Mark, CoInv
  <2>3. Sound(p, "sub", c.state, c.head, TRUE, c.tree)
    BY Zenon, <1>c, <2>2 DEF Sound, Copying, Subs, Served
  <2> QED
    BY <1>g, <1>k, <1>c, <2>1, <2>2, <2>3, Zenon DEF Copying
<1> QED
  BY Zenon, <1>1, <1>2, <1>3, <1>4, <1>5, <1>6, <1>7, <1>8 DEF Copies

--------------------------------------------------------------------------------
(* The submodules                                                          *)

SubSteps(p) == SubStart(p) \/ SubFetch(p) \/ SubResetStart(p) \/ SubResetEnd(p)

\* s is what may be left in the submodule of p's checkout c on the way to l.
Pinned(p, l, c, s) ==
  kills = 0 =>
    /\ scene.sub[rev[p]] = 0 => s.tree = 0
    /\ scene.sub[rev[p]] # 0 /\ s.head = scene.sub[rev[p]] =>
         s.tree = scene.sub[rev[p]] \/ l \in {"subreset", "subreset2"}
    /\ l = "scan" /\ scene.sub[rev[p]] # 0 =>
         s.state = "repo" /\ s.head = scene.sub[rev[p]] /\ s.tree = scene.sub[rev[p]]
    /\ l \in {"subfetch", "subreset", "subreset2"} => scene.sub[rev[p]] # 0
    /\ l = "failed" \/ l = "scan" => s = c.sub \/ gpc[p] = "subreset2"
    /\ gpc[p] = "sub" /\ l = "subfetch" =>
         ~(c.sub.state = "repo" /\ c.sub.head = scene.sub[rev[p]])
    /\ l \in {"subreset", "subreset2"} => gpc[p] \in {"subfetch", "subreset"}
    /\ l = "subreset" => s.head = SubHead

\* A step that leaves such a submodule keeps what is known of submodules.
LEMMA SubWrite ==
  ASSUME "git" \notin NoLocking, LockInv, CoInv, SubInv, Frame, NEW p \in Process,
         NEW l \in {"subfetch", "subreset", "subreset2", "scan", "failed"}, GitMove(p, l),
         UNCHANGED rev, gpc[p] \in Subs, NEW s,
         \A r \in 1..MaxRev \ {rev[p]} : co'[r] = co[r], co'[rev[p]].sub = s,
         Pinned(p, l, co[rev[p]], s)
  PROVE  SubInv'
<1> SUFFICES ASSUME kills = 0 PROVE SubInv'
  BY Zenon DEF SubInv, Frame
<1> USE DEF Pinned
<1>1. \A q \in Process \ {p} : gpc'[q] = gpc[q] /\ ~Busy(q) /\ ~Busy(q)'
  BY OthersIdle, Zenon DEF GitMove
<1>2. \A q \in Process \ {p} : gpc[q] \in Served => gpc[q] = "using" /\ rev[q] \in 1..MaxRev
  BY Zenon, <1>1 DEF CoInv, Served, Busy
<1>3. gpc'[p] = l /\ rev[p] \in 1..MaxRev /\ gpc[p] \notin Served
  BY Zenon DEF GitMove, CoInv, Subs, Served
\* Nobody uses a submodule that is about to be changed.
<1>4. l \in {"subfetch", "subreset", "subreset2"} \/ gpc[p] = "subreset2" =>
        \A q \in Process : gpc[q] \in Served => rev[q] # rev[p]
  BY <1>3 DEF SubInv, Subs
<1>5. \A q \in Process \ {p} : gpc[q] \in Served =>
        co'[rev[q]] = co[rev[q]] \/ (rev[q] = rev[p] /\ s = co[rev[p]].sub)
  BY Zenon, <1>2, <1>4
<1>6. \A q \in Process : gpc[q] \in {"subreset", "subreset2"} => q = p
  BY Zenon, <1>1 DEF Busy
<1>7. \A r \in 1..MaxRev : scene.sub[r] = 0 => co'[r].sub.tree = 0
  <2>1. \A r \in 1..MaxRev : scene.sub[r] = 0 => co[r].sub.tree = 0
    BY Zenon DEF SubInv
  <2>2. scene.sub[rev[p]] = 0 => co'[rev[p]].sub.tree = 0
    BY Zenon
  <2>3. \A r \in 1..MaxRev : r # rev[p] => co'[r] = co[r]
    BY Zenon
  <2> QED  BY Zenon, <2>1, <2>2, <2>3
<1>8. \A r \in 1..MaxRev : scene.sub[r] # 0 /\ co'[r].sub.head = scene.sub[r] =>
        \/ co'[r].sub.tree = scene.sub[r]
        \/ \E q \in Process : gpc'[q] \in {"subreset", "subreset2"} /\ rev[q] = r
  <2> SUFFICES ASSUME NEW r \in 1..MaxRev, scene.sub[r] # 0, co'[r].sub.head = scene.sub[r],
                      co'[r].sub.tree # scene.sub[r]
               PROVE  \E q \in Process : gpc'[q] \in {"subreset", "subreset2"} /\ rev[q] = r
    BY Zenon
  <2>1. CASE r = rev[p]
    <3>1. s.head = scene.sub[rev[p]] /\ s.tree # scene.sub[rev[p]] /\ scene.sub[rev[p]] # 0
      BY Zenon, <2>1
    <3>2. l \in {"subreset", "subreset2"}
      BY Zenon, <3>1
    <3> QED  BY Zenon, <2>1, <3>2, <1>3
  <2>2. CASE r # rev[p]
    <3>1. co'[r] = co[r]
      BY Zenon, <2>2
    <3>2. scene.sub[r] # 0 /\ co[r].sub.head = scene.sub[r] =>
             \/ co[r].sub.tree = scene.sub[r]
             \/ \E q \in Process : gpc[q] \in {"subreset", "subreset2"} /\ rev[q] = r
      BY Zenon DEF SubInv
    <3>3. PICK q \in Process : gpc[q] \in {"subreset", "subreset2"} /\ rev[q] = r
      BY Zenon, <3>1, <3>2
    <3> QED  BY Zenon, <3>3, <1>6, <2>2
  <2> QED  BY Zenon, <2>1, <2>2
<1>9. \A q \in Process : gpc'[q] \in Served /\ scene.sub[rev[q]] # 0 =>
         /\ co'[rev[q]].sub.state = "repo" /\ co'[rev[q]].sub.head = scene.sub[rev[q]]
         /\ co'[rev[q]].sub.tree = scene.sub[rev[q]]
  <2> SUFFICES ASSUME NEW q \in Process, gpc'[q] \in Served, scene.sub[rev[q]] # 0
               PROVE  /\ co'[rev[q]].sub.state = "repo" /\ co'[rev[q]].sub.head = scene.sub[rev[q]]
                      /\ co'[rev[q]].sub.tree = scene.sub[rev[q]]
    BY Zenon
  <2>1. CASE q = p
    BY Zenon, <1>3, <2>1 DEF Served
  <2>2. CASE q # p
    BY <1>1, <1>5, <2>2 DEF SubInv
  <2> QED
    BY Zenon, <2>1, <2>2
<1>10. \A q \in Process : gpc'[q] \in {"subfetch", "subreset", "subreset2"} =>
         /\ scene.sub[rev[q]] # 0
         /\ \A t \in Process : gpc'[t] \in Served => rev[t] # rev[q]
  BY Zenon, <1>1, <1>3, <1>4 DEF Busy, Served
<1>15. \A q \in Process : gpc'[q] = "subreset" => co'[rev[q]].sub.head = SubHead
  BY Zenon, <1>1, <1>3 DEF Busy
<1>11. rev' = rev /\ scene' = scene
  BY Zenon DEF Frame
<1>12. /\ \A r \in 1..MaxRev : scene'.sub[r] = 0 => co'[r].sub.tree = 0
       /\ \A r \in 1..MaxRev : scene'.sub[r] # 0 /\ co'[r].sub.head = scene'.sub[r] =>
            \/ co'[r].sub.tree = scene'.sub[r]
            \/ \E q \in Process : gpc'[q] \in {"subreset", "subreset2"} /\ rev'[q] = r
  BY <1>7, <1>8, <1>11
<1>13. \A q \in Process : gpc'[q] \in Served /\ scene'.sub[rev'[q]] # 0 =>
         /\ co'[rev'[q]].sub.state = "repo" /\ co'[rev'[q]].sub.head = scene'.sub[rev'[q]]
         /\ co'[rev'[q]].sub.tree = scene'.sub[rev'[q]]
  BY Zenon, <1>9, <1>11
<1>14. \A q \in Process : gpc'[q] \in {"subfetch", "subreset", "subreset2"} =>
         /\ scene'.sub[rev'[q]] # 0
         /\ \A t \in Process : gpc'[t] \in Served => rev'[t] # rev'[q]
  BY Zenon, <1>10, <1>11
<1> QED
  <2>1. \A q \in Process : gpc'[q] = "subreset" => co'[rev'[q]].sub.head = SubHead
    BY Zenon, <1>11, <1>15
  <2> QED
    BY Zenon, <1>12, <1>13, <1>14, <2>1 DEF SubInv

\* Of the checkout c of r, only the submodule is rewritten, in one of these ways.
SubSet(p, r, c, s) ==
  /\ CoSet(r, c.state, c.head, c.ok, c.tree, s) /\ DOMAIN s = {"state", "head", "tree"}
  /\ \/ s = c.sub
     \/ SubStart(p) /\ s.head = 0 /\ s.tree = 0
     \/ SubFetch(p) /\ s.head = SubHead /\ s.tree = c.sub.tree
     \/ SubResetStart(p) /\ s.head = c.sub.head /\ s.tree = Torn
     \/ SubResetEnd(p)
  /\ SubResetEnd(p) => s.state = "repo" /\ s.head = scene.sub[r] /\ s.tree = scene.sub[r]

\* The steps of update_submodule change the submodule only.
LEMMA SubEffects ==
  ASSUME CoShape, NEW p \in Process, NEW r \in 1..MaxRev, r = rev[p], NEW c, c = co[r], SubSteps(p)
  PROVE  \E s : SubSet(p, r, c, s)
<1> USE DEF CoShape, Function, CoSet
<1>1. CASE co' = co /\ ~SubResetEnd(p)
  BY <1>1, Zenon DEF SubSet
<1>2. ASSUME SubStart(p), co' = [co EXCEPT ![r].sub = [NoSub EXCEPT !.state = "repo"]]
      PROVE  /\ CoSet(r, c.state, c.head, c.ok, c.tree, [NoSub EXCEPT !.state = "repo"])
             /\ ~SubResetEnd(p)
  BY <1>2, ZenonT(30) DEF SubStart, SubResetEnd, At
<1>3. ASSUME SubFetch(p), co' = [co EXCEPT ![r].sub.head = SubHead]
      PROVE  /\ CoSet(r, c.state, c.head, c.ok, c.tree, [c.sub EXCEPT !.head = SubHead])
             /\ ~SubResetEnd(p)
  <2>1. ~SubResetEnd(p)
    BY Zenon, <1>3 DEF SubFetch, SubResetEnd, At
  <2> QED
    BY <1>3, <2>1, Zenon
<1>4. ASSUME SubResetStart(p), co' = [co EXCEPT ![r].sub.tree = Torn]
      PROVE  /\ CoSet(r, c.state, c.head, c.ok, c.tree, [c.sub EXCEPT !.tree = Torn])
             /\ ~SubResetEnd(p)
  <2>2. ~SubResetEnd(p)
    BY Zenon, <1>4 DEF SubResetStart, SubResetEnd, At
  <2> QED
    BY <1>4, <2>2, Zenon
<1>6. \/ co' = co /\ ~SubResetEnd(p)
      \/ SubStart(p) /\ co' = [co EXCEPT ![r].sub = [NoSub EXCEPT !.state = "repo"]]
      \/ SubFetch(p) /\ co' = [co EXCEPT ![r].sub.head = SubHead]
      \/ SubResetStart(p) /\ co' = [co EXCEPT ![r].sub.tree = Torn]
      \/ SubResetEnd(p)
  BY SMTT(60) DEF SubSteps, SubStart, SubFetch, SubResetStart
<1> HIDE DEF CoSet
<1>7. CASE SubStart(p) /\ co' = [co EXCEPT ![r].sub = [NoSub EXCEPT !.state = "repo"]]
  <2>1. PICK s : s = [NoSub EXCEPT !.state = "repo"]
    BY Zenon
  <2>2. DOMAIN s = {"state", "head", "tree"} /\ s.head = 0 /\ s.tree = 0
    BY Zenon, <2>1 DEF NoSub
  <2> QED
    BY <1>2, <1>7, <2>1, <2>2, SMTT(60) DEF SubSet
<1>8. CASE SubFetch(p) /\ co' = [co EXCEPT ![r].sub.head = SubHead]
  <2>1. PICK s : s = [c.sub EXCEPT !.head = SubHead]
    BY Zenon
  <2>2. DOMAIN s = {"state", "head", "tree"} /\ s.head = SubHead /\ s.tree = c.sub.tree
    BY Zenon, <2>1
  <2> QED
    BY <1>3, <1>8, <2>1, <2>2, Zenon DEF SubSet
<1>9. CASE SubResetStart(p) /\ co' = [co EXCEPT ![r].sub.tree = Torn]
  <2>1. PICK s : s = [c.sub EXCEPT !.tree = Torn]
    BY Zenon
  <2>2. DOMAIN s = {"state", "head", "tree"} /\ s.head = c.sub.head /\ s.tree = Torn
    BY Zenon, <2>1
  <2> QED
    BY <1>4, <1>9, <2>1, <2>2, Zenon DEF SubSet
<1>10. CASE SubResetEnd(p)
  <2>1. PICK s : s = [state |-> "repo", head |-> scene.sub[r], tree |-> scene.sub[r]]
    BY Zenon
  <2>2. /\ DOMAIN s = {"state", "head", "tree"} /\ s.state = "repo"
        /\ s.head = scene.sub[r] /\ s.tree = scene.sub[r]
    BY Zenon, <2>1
  <2>3. co' = [co EXCEPT ![r].sub = s]
    BY Zenon, <1>10, <2>1 DEF SubResetEnd
  <2>4. CoSet(r, c.state, c.head, c.ok, c.tree, s)
    BY <2>3, Zenon DEF CoSet
  <2> QED
    BY Zenon, <1>10, <2>2, <2>4 DEF SubSet
<1> QED
  BY Zenon, <1>1, <1>6, <1>7, <1>8, <1>9, <1>10

\* A submodule is reset when its HEAD is not the commit pinned, and nobody uses
\* it then.
LEMMA SubStep ==
  ASSUME "git" \notin NoLocking, GitInv, Frame, NEW p \in Process, SubSteps(p)
  PROVE  GitInv'
<1>0. /\ Typed /\ LockInv /\ DbInv /\ CoInv /\ SubInv /\ CoShape
      /\ Busy(p) /\ UNCHANGED <<upstream, db, want, fetchTo, rev, reinited>>
      /\ gpc[p] \in {"open"} \cup Copying \cup Subs \cup Served
  BY Zenon, CopyFrame DEF GitInv, Typed, SubSteps
<1>g. (\A l : Goto(p, l) => GitMove(p, l)) /\ (Fail(p) => GitMove(p, "failed"))
  BY Zenon, <1>0, GotoMoves DEF Typed
<1> SUFFICES ASSUME NEW r, r = rev[p], NEW c, c = co[r] PROVE GitInv'
  BY Zenon
<1>1. gpc[p] \in Subs
  BY Zenon DEF SubSteps, SubStart, SubFetch, SubResetStart, SubResetEnd, At, Subs
<1>2. /\ r \in 1..MaxRev /\ c.ok /\ c.state = "repo" /\ c.head = r /\ c.tree = r
      /\ c.ok \in BOOLEAN
  BY Zenon, <1>0, <1>1 DEF CoInv, CoShape
<1>p. PICK s : SubSet(p, r, c, s)
  BY Zenon, <1>0, <1>2, SubEffects
<1>3. /\ CoSet(r, c.state, c.head, c.ok, c.tree, s) /\ DOMAIN s = {"state", "head", "tree"}
      /\ \/ s = c.sub
         \/ SubStart(p) /\ s.head = 0 /\ s.tree = 0
         \/ SubFetch(p) /\ s.head = SubHead /\ s.tree = c.sub.tree
         \/ SubResetStart(p) /\ s.head = c.sub.head /\ s.tree = Torn
         \/ SubResetEnd(p)
      /\ SubResetEnd(p) => s.state = "repo" /\ s.head = scene.sub[r] /\ s.tree = scene.sub[r]
  BY Zenon, <1>p DEF SubSet
<1>4. CoShape'
  BY <1>0, <1>2, <1>3, CoSetShape, Zenon
<1>5. \A x \in Process : gpc[x] \in {"subreset", "subreset2"} => x = p
  BY <1>0, SMTT(20) DEF LockInv, Busy
<1>6. ASSUME NEW l \in {"subfetch", "subreset", "subreset2", "scan", "failed"}, GitMove(p, l), Pinned(p, l, c, s)
      PROVE  GitInv'
  <2>1. Sound(p, l, c.state, c.head, c.ok, c.tree)
    BY Zenon, <1>2, <1>6 DEF Sound, Copying
  <2>2. CoInv'
    BY <1>0, <1>2, <1>3, <1>6, <2>1, CoWrite, Zenon
  <2>c. (\A x \in 1..MaxRev \ {r} : co'[x] = co[x]) /\ co'[r].sub = s
    BY Zenon, <1>3 DEF CoSet
  <2>3. SubInv'
    BY <1>0, <1>1, <1>6, <2>c, SubWrite, Zenon
  <2>4. l \in Copying \cup Subs \cup Served \cup {"failed"} /\ l \notin {"cofetch", "coclear", "clone"}
    BY Zenon, <1>6 DEF Subs, Served
  <2> QED
    BY Zenon, <1>0, <1>4, <1>6, <2>2, <2>3, <2>4, CopyKept
<1>7. kills = 0 => /\ scene.sub[r] = 0 => c.sub.tree = 0
                   /\ scene.sub[r] # 0 /\ c.sub.head = scene.sub[r] =>
                        c.sub.tree = scene.sub[r] \/ gpc[p] \in {"subreset", "subreset2"}
                   /\ gpc[p] \in {"subfetch", "subreset", "subreset2"} => scene.sub[r] # 0
                   /\ gpc[p] = "subreset" => c.sub.head = SubHead
  BY <1>0, <1>2, <1>5, Zenon DEF SubInv
<1> USE DEF At, Mine
<1>8. CASE SubStart(p)
  <2>1. gpc[p] = "sub"
    BY Zenon, <1>8 DEF SubStart
  <2>2. s = c.sub \/ (s.head = 0 /\ s.tree = 0)
    BY Zenon, <1>3, <2>1 DEF SubFetch, SubResetStart, SubResetEnd
  <2>3. CASE /\ scene.sub[r] = 0 \/ (c.sub.state = "repo" /\ c.sub.head = scene.sub[r])
             /\ Goto(p, "scan") /\ co' = co
    <3>1. s = c.sub
      BY Zenon, <1>3, <2>3 DEF CoSet
    <3>2. Pinned(p, "scan", c, s)
      BY Zenon, <1>7, <2>1, <2>3, <3>1 DEF Pinned
    <3> QED
      BY <1>g, <1>6, <2>3, <3>2, Zenon
  <2>4. CASE /\ scene.sub[r] # 0 /\ ~(c.sub.state = "repo" /\ c.sub.head = scene.sub[r])
             /\ Goto(p, "subfetch")
    <3>1. Pinned(p, "subfetch", c, s)
      BY Zenon, <1>7, <2>1, <2>2, <2>4 DEF Pinned
    <3> QED
      BY Zenon, <1>g, <1>6, <2>4, <3>1
  <2> QED
    BY Zenon, <1>8, <2>3, <2>4 DEF SubStart, SubUpToDate
<1>9. CASE SubFetch(p)
  <2>1. gpc[p] = "subfetch"
    BY Zenon, <1>9 DEF SubFetch
  <2>2. CASE Goto(p, "subreset") /\ co' = [co EXCEPT ![r].sub.head = SubHead]
    <3>0. s.head = SubHead
      BY Zenon, <1>0, <1>2, <1>3, <2>2 DEF CoSet, CoShape, Function
    <3>1. Pinned(p, "subreset", c, s)
      BY <1>7, <2>1, <3>0, SMTT(20) DEF Pinned
    <3> QED
      BY Zenon, <1>g, <1>6, <2>2, <3>1
  <2>3. CASE Fail(p) /\ co' = co
    <3>1. s = c.sub
      BY Zenon, <1>3, <2>3 DEF CoSet
    <3>2. Pinned(p, "failed", c, s)
      BY Zenon, <1>7, <2>1, <3>1 DEF Pinned
    <3> QED
      BY Zenon, <1>g, <1>6, <2>3, <3>2
  <2> QED
    BY Zenon, <1>9, <2>2, <2>3 DEF SubFetch
<1>10. CASE SubResetStart(p)
  <2>1. gpc[p] = "subreset"
    BY Zenon, <1>10 DEF SubResetStart
  <2>2. CASE Goto(p, "subreset2")
    <3>1. Pinned(p, "subreset2", c, s)
      BY Zenon, <1>7, <2>1 DEF Pinned
    <3> QED
      BY Zenon, <1>g, <1>6, <2>2, <3>1
  <2>3. CASE scene.sub[r] > SubHead /\ Fail(p) /\ co' = co
    <3>1. s = c.sub
      BY Zenon, <1>3, <2>3 DEF CoSet
    <3>2. scene.sub[r] # SubHead
      BY <2>3, GitAssumption
    <3>3. Pinned(p, "failed", c, s)
      BY Zenon, <1>7, <2>1, <3>1, <3>2 DEF Pinned
    <3> QED
      BY Zenon, <1>g, <1>6, <2>3, <3>3
  <2> QED
    BY Zenon, <1>10, <2>2, <2>3 DEF SubResetStart
<1>11. CASE SubResetEnd(p)
  <2>1. gpc[p] = "subreset2" /\ Goto(p, "scan")
    BY <1>11, SMTT(20) DEF SubResetEnd
  <2>2. Pinned(p, "scan", c, s)
    BY Zenon, <1>3, <1>7, <1>11, <2>1 DEF Pinned
  <2> QED
    BY Zenon, <1>g, <1>6, <2>1, <2>2
<1> QED
  BY Zenon, <1>8, <1>9, <1>10, <1>11 DEF SubSteps

\* The lock is dropped, and the checkout is used as it is, if it can be read.
LEMMA ScanStep ==
  ASSUME "git" \notin NoLocking, GitInv, Frame, NEW p \in Process, Scan(p)
  PROVE  GitInv'
<1>0. /\ Typed /\ LockInv /\ DbInv /\ CoInv /\ SubInv /\ CoShape
      /\ Busy(p) /\ UNCHANGED <<upstream, db, want, fetchTo, rev, reinited>>
      /\ gpc[p] \in {"open"} \cup Copying \cup Subs \cup Served
  BY Zenon, CopyFrame DEF GitInv, Typed
<1>1. PICK l \in {"using", "failed"} :
        gpc[p] = "scan" /\ co' = co /\ Release(p, "git") /\ gpc' = [gpc EXCEPT ![p] = l]
  BY Zenon DEF Scan, Fail, At
<1>2. GitMove(p, l)
  BY <1>0, <1>1, SMTT(20) DEF GitMove, Typed, Function
<1>3. CoShape'
  BY Zenon, <1>0, <1>1 DEF CoShape, Function
<1>4. CoInv'
  BY SMTT(30), <1>0, <1>1, <1>2 DEF CoInv, GitMove, Served, Copying, Subs, At
<1>5. SubInv'
  BY SMTT(30), <1>0, <1>1, <1>2 DEF SubInv, GitMove, Served, Frame
<1>6. l \in Copying \cup Subs \cup Served \cup {"failed"} /\ l \notin {"cofetch", "coclear", "clone"}
  BY Zenon DEF Served
<1> QED
  BY Zenon, <1>0, <1>2, <1>3, <1>4, <1>5, <1>6, CopyKept

\* Only the place of a process changes, to one outside the update; if it was
\* in the update, it was killed.
Idles(p, l) ==
  /\ Function(gpc, Process)' /\ LocksTyped' /\ want' \in [Process -> Reference]
  /\ gpc'[p] = l /\ l \in {"none", "lock", "using"} /\ (l = "using" => gpc[p] = "using")
  /\ kills' = kills \/ kills' = kills + 1
  /\ Busy(p) => kills' = kills + 1
  /\ locks'["git"][p] \in {"Unlocked", locks["git"][p]}
  /\ \A q \in Process \ {p} :
       gpc'[q] = gpc[q] /\ want'[q] = want[q] /\ locks'["git"][q] = locks["git"][q]
  /\ UNCHANGED <<scene, upstream, db, co, fetchTo, rev, reinited>>

\* It keeps the invariant.
LEMMA IdleKept ==
  ASSUME GitInv, NEW p \in Process, NEW l, Idles(p, l)
  PROVE  GitInv'
<1>0. Typed /\ LockInv /\ DbInv /\ CoInv /\ SubInv
  BY Zenon DEF GitInv
<1>1. UNCHANGED <<scene, upstream, db, co, fetchTo, rev, reinited>>
  BY Zenon DEF Idles
<1>a. /\ Function(gpc, Process)' /\ LocksTyped' /\ want' \in [Process -> Reference]
      /\ kills' = kills \/ kills' = kills + 1
  BY Zenon DEF Idles
<1>b. /\ gpc'[p] = l /\ l \in {"none", "lock", "using"} /\ (l = "using" => gpc[p] = "using")
      /\ \A q \in Process \ {p} : gpc'[q] = gpc[q] /\ want'[q] = want[q]
  BY Zenon DEF Idles
<1>c. /\ locks'["git"][p] \in {"Unlocked", locks["git"][p]}
      /\ \A q \in Process \ {p} : locks'["git"][q] = locks["git"][q]
  BY Zenon DEF Idles
<1>d. Busy(p) => kills' = kills + 1
  BY Zenon DEF Idles
<1>2. \A q \in Process : gpc'[q] = gpc[q] \/ (q = p /\ gpc'[q] \in {"none", "lock"})
  BY Zenon, <1>b
<1>3. Typed'
  <2>0. kills' \in Nat
    BY <1>0, <1>a DEF Typed
  <2>1. DbShape' /\ CoShape'
    BY Zenon, <1>0, <1>1 DEF Typed, DbShape, CoShape, Function
  <2>2. Typed
    BY Zenon, <1>0
  <2> QED
    BY Zenon, <1>1, <1>a, <2>0, <2>1, <2>2 DEF Typed
<1>4. LockInv'
  <2>1. \A q \in Process : Busy(q)' => Busy(q) /\ q # p
    BY Zenon, <1>b DEF Busy
  <2>2. LockInv
    BY Zenon, <1>0
  <2> QED
    BY Zenon, <1>c, <2>1, <2>2 DEF LockInv
<1>5. DbInv'
  <2>1. \A q \in Process : gpc'[q] \in FromDb => gpc'[q] = gpc[q] /\ (Sourced(q) => Sourced(q)')
    BY Zenon, <1>1, <1>b DEF FromDb, Sourced, Offline
  <2>2. kills' > 0 \/ (kills' = kills /\ ~Busy(p))
    BY <1>0, <1>a, <1>d DEF Typed
  <2>3. \A q \in Process : ~Busy(p) /\ gpc[q] \in Remaking => gpc'[q] = gpc[q]
    BY Zenon, <1>b DEF Busy, Remaking
  <2>4. db.state = "broken" => kills' > 0 \/ \E q \in Process : gpc'[q] \in Remaking
    BY Zenon, <1>0, <2>2, <2>3 DEF DbInv
  <2> QED
    BY Zenon, <1>0, <1>1, <1>2, <2>1, <2>4 DEF DbInv, At
<1>6. CoInv'
  BY <1>0, <1>1, <1>2 DEF CoInv, At, Copying, Subs, Served
<1>7. SubInv'
  <2> SUFFICES ASSUME kills' = 0 PROVE SubInv'
    BY Zenon DEF SubInv
  <2>1. kills = 0 /\ ~Busy(p)
    BY <1>0, <1>a, <1>d DEF Typed
  <2>2. SubInv
    BY Zenon, <1>0
  <2> QED
    BY ZenonT(30), <1>1, <1>2, <2>1, <2>2 DEF SubInv, Served, Busy
<1> QED
  BY <1>3, <1>4, <1>5, <1>6, <1>7, Zenon DEF GitInv

\* A step of an update.
LEMMA GitStepKept ==
  ASSUME "git" \notin NoLocking, GitInv, Frame, NEW p \in Process, GitStep(p)
  PROVE  GitInv'
BY Zenon, FetchingStep, CopyStep, SubStep, ScanStep DEF GitStep, Fetching, Copies, SubSteps

\* A push, or nothing at all.
LEMMA StillKept ==
  ASSUME GitInv, UNCHANGED <<scene, locks, kills, db, co, gpc, want, fetchTo, rev, reinited>>,
         upstream' \in 0..MaxRev
  PROVE  GitInv'
<1>1. Typed'
  BY SMTT(20) DEF GitInv, Typed, LocksTyped, DbShape, CoShape, Function
<1>2. LockInv' /\ DbInv'
  BY Zenon DEF GitInv, LockInv, DbInv, Busy, At, Sourced, Offline
<1>3. CoInv'
  BY Zenon DEF GitInv, CoInv, At
<1>4. SubInv'
  BY ZenonT(30) DEF GitInv, SubInv
<1> QED
  BY <1>1, <1>2, <1>3, <1>4, Zenon DEF GitInv

--------------------------------------------------------------------------------
(* What follows                                                            *)

\* What has .cargo-ok is whole, and what is used has it.
LEMMA InvCheckoutWhole == GitInv => CheckoutWhole
<1> SUFFICES ASSUME GitInv, NEW p \in Process, At(p, "using")
             PROVE  /\ Mine(p).state = "repo" /\ Mine(p).tree = rev[p]
                    /\ kills = 0 => Mine(p).sub.tree = scene.sub[rev[p]]
  BY Zenon DEF CheckoutWhole
<1>1. rev[p] \in 1..MaxRev /\ co[rev[p]].ok /\ gpc[p] \in Served
  BY Zenon DEF GitInv, CoInv, At, Served
<1>2. Mine(p).state = "repo" /\ Mine(p).tree = rev[p]
  BY Zenon, <1>1 DEF GitInv, CoInv, Mine
<1>3. kills = 0 => Mine(p).sub.tree = scene.sub[rev[p]]
  BY Zenon, <1>1 DEF GitInv, SubInv, Mine
<1> QED
  BY Zenon, <1>2, <1>3

\* A step of an update moves its own process only.
LEMMA OneMoves ==
  ASSUME Function(gpc, Process), NEW q \in Process, GitStep(q), NEW p \in Process, q # p
  PROVE  gpc'[p] = gpc[p]
<1>1. \/ UNCHANGED gpc \/ (\E l : Goto(q, l)) \/ Fail(q)
      \/ \E l : gpc' = [gpc EXCEPT ![q] = l]
  BY Zenon DEF GitStep, Lock, Resolve, ClearDb, MakeDb, FetchStart, Wipe, Reinit, Net, Retry,
       Rescan, Open, FetchCheckout, ClearCheckout, CloneCheckout, Unmark, ResetStart, ResetEnd,
       Mark, SubStart, SubFetch, SubResetStart, SubResetEnd, Scan
<1> QED
  BY Zenon, <1>1 DEF Goto, Fail, Function

\* An update with the network fails only for what it cannot repair: a database
\* that does not open is made anew once, one without the revision is cloned
\* anew once, and a checkout that will not do is replaced.
LEMMA FailsForWant ==
  ASSUME GitInv, NEW p \in Process, GitStep(p), gpc[p] # "failed", gpc'[p] = "failed",
         NetAllowed(p), ~scene.cli, p \notin netfailed'
  PROVE  BeyondRepair(p)
<1>0. Function(gpc, Process) /\ GitInv /\ DbInv
  BY Zenon DEF GitInv, Typed
<1>3. \A l : Goto(p, l) => l = "failed"
  BY Zenon, <1>0 DEF Goto, Function
<1>4. ~Offline(p)
  BY Zenon DEF Offline, NetAllowed
<1> USE DEF At
<1>5. ~(Lock(p) \/ ClearDb(p) \/ MakeDb(p) \/ Wipe(p) \/ Reinit(p) \/ Retry(p))
  BY Zenon, <1>0, <1>3 DEF Lock, ClearDb, MakeDb, Wipe, Reinit, Retry, Function
<1>6. ~(Resolve(p) \/ FetchStart(p))
  BY Zenon, <1>3, <1>4 DEF Resolve, FetchStart
<1>7. ~Net(p)
  BY Zenon, <1>0, <1>3 DEF Net, CanReinitialize, DbInv
<1>8. ~(Open(p) \/ ClearCheckout(p))
  BY Zenon, <1>3 DEF Open, ClearCheckout
<1>9. ~Unmark(p)
  BY Zenon, <1>0, <1>3 DEF Unmark, GitInv, CoInv, Mine
<1>10. ~(ResetStart(p) \/ ResetEnd(p) \/ Mark(p))
  BY Zenon, <1>3 DEF ResetStart, ResetEnd, Mark
<1>11. ~(SubStart(p) \/ SubFetch(p) \/ SubResetEnd(p))
  BY Zenon, <1>3 DEF SubStart, SubFetch, SubResetEnd
<1>12. \/ Rescan(p) \/ FetchCheckout(p) \/ CloneCheckout(p) \/ SubResetStart(p) \/ Scan(p)
  BY <1>5, <1>6, <1>7, <1>8, <1>9, <1>10, <1>11, Zenon DEF GitStep
<1>13. CASE Rescan(p)
  <2>1. gpc[p] = "fetched" /\ 0 \in resolve(p) /\ fetchTo[p] = "clone_into"
    BY <1>3, <1>13, Zenon DEF Rescan, AlreadyCloned
  <2>2. db.state = "repo" /\ want[p].rev \in Nat /\ db.head \in Nat /\ 1..db.head \subseteq db.objs
    BY Zenon, <1>0, <2>1 DEF GitInv, Typed, DbInv, Reference
  <2>3. IF want[p].rev = 0 THEN db.head = 0 ELSE want[p].rev > db.head
    BY <2>1, <2>2 DEF resolve
  <2> QED
    BY Zenon, <2>1, <2>3 DEF BeyondRepair
<1>14. CASE FetchCheckout(p) \/ CloneCheckout(p)
  <2>1. gpc[p] \in {"cofetch", "clone"} /\ db.state = "broken"
    BY Zenon, <1>3, <1>14 DEF FetchCheckout, CloneCheckout
  <2>2. want[p].precise
    BY Zenon, <1>0, <1>4, <2>1 DEF DbInv, FromDb, Sourced
  <2>3. \A q \in Process : gpc[q] \notin Remaking
    BY Zenon, <2>1 DEF GitInv, LockInv, Busy, Remaking
  <2>4. kills > 0
    BY Zenon, <1>0, <2>1, <2>3 DEF DbInv
  <2> QED
    BY Zenon, <2>1, <2>2, <2>4 DEF BeyondRepair
<1>15. CASE SubResetStart(p) \/ Scan(p)
  <2>1. Scan(p) => gpc[p] = "scan" /\ "manifest" \in scene.may
    BY Zenon, <1>0 DEF Scan, Function
  <2> QED
    BY Zenon, <1>3, <1>15, <2>1 DEF SubResetStart, BeyondRepair
<1> QED
  BY Zenon, <1>12, <1>13, <1>14, <1>15

\* Where a process is in its commands: one that is not between two has one left,
\* and an update goes on only while the command selects its package.
CmdInv ==
  /\ Function(pc, Process) /\ todo \in [Process -> Seq(Command)]
  /\ \A p \in Process : pc[p] # "next" => todo[p] # <<>>
  /\ \A p \in Process : pc[p] # "select" => gpc[p] \in {"none", "using"}

InstallInv == GitInv /\ CmdInv

\* It holds at the start.
LEMMA InstallInvInit == Init => InstallInv
<1> SUFFICES ASSUME Init PROVE InstallInv
  BY Zenon
<1>1. GitInv
  BY Zenon, GitInvInit DEF Init
<1>2. Function(pc, Process) /\ \A p \in Process : pc[p] = "next"
  BY Zenon DEF Init, Function
<1>3. \A p \in Process : gpc[p] = "none"
  BY Zenon DEF Init, GitInit
<1>4. todo \in [Process -> Seq(Command)]
  BY Zenon, InstallAssumption DEF Init
<1> QED
  BY Zenon, <1>1, <1>2, <1>3, <1>4 DEF InstallInv, CmdInv

\* A step of an update is one of a process in an update.
LEMMA InUpdate ==
  ASSUME NEW p \in Process, GitStep(p)
  PROVE  gpc[p] \notin {"none", "using"}
BY Zenon DEF GitStep, Lock, Resolve, ClearDb, MakeDb, FetchStart, Wipe, Reinit, Net, Retry,
   Rescan, Open, FetchCheckout, ClearCheckout, CloneCheckout, Unmark, ResetStart, ResetEnd,
   Mark, SubStart, SubFetch, SubResetStart, SubResetEnd, Scan, At

\* A step of a command that is not in an update, and goes on.
Stay(p) ==
  /\ UNCHANGED <<scene, gitvars, kills, todo>> /\ gpc[p] \in {"none", "using"} /\ todo[p] # <<>>
  /\ UNCHANGED pc \/ \E l : pc' = [pc EXCEPT ![p] = l]
  /\ UNCHANGED locks \/ Acquire(p, "crates", "Exclusive")

\* The last step of a command whose update, if it has one, is over.
Leave(p) ==
  /\ End(p) /\ todo[p] # <<>> /\ gpc[p] \in {"none", "using", "failed"}

\* A step of a command that is not one of its update.
Commands(p) ==
  \/ Begin(p) \/ SelectPkg(p) \/ Preflight(p) \/ Compile(p) \/ InstallStart(p)
  \/ \E b \in Bin : MoveNew(p, b) \/ MoveReplace(p, b)
  \/ Truncate(p) \/ Write(p) \/ Undo(p) \/ Success(p)
  \/ Uninstall(p) \/ UninstallWrite(p) \/ RemoveFile(p)

\* The first step of a command that updates a git source.
Starts(p) ==
  /\ UNCHANGED <<scene, locks, kills, todo>> /\ StartUpdate(p, cmd(p).want)
  /\ pc[p] = "next" /\ pc' = [pc EXCEPT ![p] = "select"] /\ todo[p] # <<>>
  /\ cmd(p).op # "uninstall" /\ ~(cmd(p).op = "install" /\ ~cmd(p).git)

\* A command starts its update, goes on or ends.
LEMMA CommandMoves ==
  ASSUME CmdInv, NEW p \in Process, Commands(p)
  PROVE  Stay(p) \/ Leave(p) \/ Starts(p)
<1>0. /\ pc[p] # "next" => todo[p] # <<>>
      /\ pc[p] # "select" => gpc[p] \in {"none", "using"}
  BY Zenon DEF CmdInv
<1>1. CASE Begin(p)
  BY Zenon, <1>0, <1>1 DEF Begin, Stay, Starts, Step
<1>2. CASE SelectPkg(p)
  BY Zenon, <1>0, <1>2 DEF SelectPkg, Stay, Leave, Step, InstallUnchanged
<1>3. CASE Preflight(p) \/ Compile(p)
  BY Zenon, <1>0, <1>3 DEF Preflight, Compile, Stay, Leave, Step, InstallUnchanged
<1>4. CASE InstallStart(p)
  BY Zenon, <1>0, <1>4 DEF InstallStart, Stay, Leave, Step, InstallUnchanged
<1>5. CASE \E b \in Bin : MoveNew(p, b) \/ MoveReplace(p, b)
  BY Zenon, <1>0, <1>5 DEF MoveNew, MoveReplace, Stay, Leave, Step, InstallUnchanged
<1>6. CASE Truncate(p) \/ Write(p) \/ Undo(p) \/ Success(p)
  BY Zenon, <1>0, <1>6 DEF Truncate, Write, Undo, Success, Stay, Leave, Step, InstallUnchanged
<1>7. CASE Uninstall(p)
  BY Zenon, <1>0, <1>7 DEF Uninstall, Stay, Leave, Step, InstallUnchanged
<1>8. CASE UninstallWrite(p) \/ RemoveFile(p)
  BY Zenon, <1>0, <1>8 DEF UninstallWrite, RemoveFile, Stay, Leave, Step, InstallUnchanged
<1> QED
  BY Zenon, <1>1, <1>2, <1>3, <1>4, <1>5, <1>6, <1>7, <1>8 DEF Commands

\* A command, and a process that is killed.
LEMMA CommandStep ==
  ASSUME InstallInv, NEW p \in Process, Commands(p) \/ Kill(p)
  PROVE  InstallInv'
<1>0. /\ Typed /\ LocksTyped /\ Function(gpc, Process) /\ Function(pc, Process)
      /\ todo \in [Process -> Seq(Command)] /\ want \in [Process -> Reference]
      /\ "git" \in File /\ "crates" \in File /\ "git" # "crates" /\ kills \in Nat
      /\ pc[p] # "select" => gpc[p] \in {"none", "using"}
  BY Zenon, InstallAssumption DEF InstallInv, CmdInv, GitInv, Typed
<1>e. LocksTyped /\ ReleaseAll(p) =>
        /\ LocksTyped' /\ locks'["git"][p] = "Unlocked"
        /\ \A q \in Process \ {p} : locks'["git"][q] = locks["git"][q]
  BY <1>0, LockEffects
<1>c. ASSUME Function(pc, Process)', todo' \in [Process -> Seq(Command)],
             pc'[p] = "next" \/ todo'[p] # <<>>,
             pc'[p] = "select" \/ gpc'[p] \in {"none", "using"},
             \A q \in Process \ {p} : pc'[q] = pc[q] /\ todo'[q] = todo[q] /\ gpc'[q] = gpc[q]
      PROVE  CmdInv'
  BY <1>0, <1>c, Zenon DEF InstallInv, CmdInv
<1>1. CASE Stay(p)
  <2>1. UNCHANGED <<scene, upstream, db, co, gpc, want, fetchTo, rev, reinited, kills, todo>>
        /\ gpc[p] \in {"none", "using"} /\ todo[p] # <<>>
    BY Zenon, <1>1 DEF Stay, gitvars
  <2>2. LocksTyped' /\ \A q \in Process : locks'["git"][q] = locks["git"][q]
    <3>1. CASE UNCHANGED locks
      BY Zenon, <1>0, <3>1 DEF LocksTyped
    <3>2. CASE Acquire(p, "crates", "Exclusive")
      BY <1>0, <3>2, LockEffects
    <3> QED
      BY Zenon, <1>1, <3>1, <3>2 DEF Stay
  <2>3. Function(pc, Process)' /\ \A q \in Process \ {p} : pc'[q] = pc[q]
    BY Zenon, <1>0, <1>1 DEF Stay, Function
  <2>4. Function(gpc, Process)' /\ ~Busy(p)
    BY Zenon, <1>0, <2>1 DEF Function, Busy
  <2>5. Idles(p, gpc[p])
    BY Zenon, <1>0, <2>1, <2>2, <2>3, <2>4 DEF Idles
  <2> QED
    BY Zenon, <1>0, <1>c, <2>1, <2>3, <2>4, <2>5, IdleKept DEF InstallInv
<1>2. CASE Leave(p)
  <2>1. /\ pc' = [pc EXCEPT ![p] = "next"] /\ todo' = [todo EXCEPT ![p] = Tail(@)]
        /\ gpc' = [gpc EXCEPT ![p] = "none"] /\ ReleaseAll(p)
        /\ UNCHANGED <<scene, upstream, db, co, want, fetchTo, rev, reinited, kills>>
        /\ ~Busy(p) /\ todo[p] # <<>>
    BY Zenon, <1>2 DEF Leave, End, EndOfCommand, Busy
  <2>2. Tail(todo[p]) \in Seq(Command)
    BY <1>0, <2>1
  <2>3. /\ todo' \in [Process -> Seq(Command)] /\ \A q \in Process \ {p} : todo'[q] = todo[q]
    BY Zenon, <1>0, <2>1, <2>2
  <2>4. /\ Function(pc, Process)' /\ pc'[p] = "next" /\ Function(gpc, Process)' /\ gpc'[p] = "none"
        /\ \A q \in Process \ {p} : pc'[q] = pc[q] /\ gpc'[q] = gpc[q]
    BY <1>0, <2>1, Zenon DEF Function
  <2>5. Idles(p, "none")
    BY Zenon, <1>0, <1>e, <2>1, <2>3, <2>4 DEF Idles
  <2> QED
    BY Zenon, <1>0, <1>c, <2>1, <2>3, <2>4, <2>5, IdleKept DEF InstallInv
<1>3. CASE Kill(p)
  <2>1. /\ pc' = [pc EXCEPT ![p] = "next"] /\ todo' = [todo EXCEPT ![p] = <<>>]
        /\ gpc' = [gpc EXCEPT ![p] = "none"] /\ ReleaseAll(p) /\ kills' = kills + 1
        /\ UNCHANGED <<scene, upstream, db, co, want, fetchTo, rev, reinited>>
    BY Zenon, <1>3 DEF Kill
  <2>2. <<>> \in Seq(Command)
    OBVIOUS
  <2>3. /\ todo' \in [Process -> Seq(Command)] /\ \A q \in Process \ {p} : todo'[q] = todo[q]
    BY Zenon, <1>0, <2>1, <2>2
  <2>4. /\ Function(pc, Process)' /\ pc'[p] = "next" /\ Function(gpc, Process)' /\ gpc'[p] = "none"
        /\ \A q \in Process \ {p} : pc'[q] = pc[q] /\ gpc'[q] = gpc[q]
    BY <1>0, <2>1, Zenon DEF Function
  <2>5. Idles(p, "none")
    BY Zenon, <1>0, <1>e, <2>1, <2>3, <2>4 DEF Idles
  <2> QED
    BY Zenon, <1>0, <1>c, <2>1, <2>3, <2>4, <2>5, IdleKept DEF InstallInv
<1>4. CASE Starts(p)
  <2>1. cmd(p) \in Command
    BY <1>0, <1>4 DEF Starts, cmd
  <2>2. cmd(p).want \in Reference
    BY <1>4, <2>1, Zenon DEF Starts, Command
  <2>3. /\ want' \in [Process -> Reference] /\ gpc' = [gpc EXCEPT ![p] = "lock"]
        /\ \A q \in Process \ {p} : want'[q] = want[q]
        /\ UNCHANGED <<upstream, db, co, fetchTo, rev, reinited>>
    BY Zenon, <1>0, <1>4, <2>2 DEF Starts, StartUpdate
  <2>4. /\ Function(pc, Process)' /\ pc'[p] = "select" /\ Function(gpc, Process)' /\ gpc'[p] = "lock"
        /\ \A q \in Process \ {p} : pc'[q] = pc[q] /\ gpc'[q] = gpc[q]
    BY <1>0, <1>4, <2>3, Zenon DEF Starts, Function
  <2>5. LocksTyped' /\ ~Busy(p) /\ todo' = todo /\ locks' = locks /\ kills' = kills
    BY Zenon, <1>0, <1>4 DEF Starts, LocksTyped, Busy
  <2>6. Idles(p, "lock")
    BY Zenon, <1>0, <1>4, <2>3, <2>4, <2>5 DEF Starts, Idles
  <2>7. todo[p] # <<>>
    BY Zenon, <1>4 DEF Starts
  <2> QED
    BY Zenon, <1>0, <1>c, <2>4, <2>5, <2>6, <2>7, IdleKept DEF InstallInv
<1> QED
  BY Zenon, <1>1, <1>2, <1>3, <1>4, CommandMoves DEF InstallInv

\* Every step keeps the invariant.
LEMMA InstallInvStep ==
  ASSUME "git" \notin NoLocking, InstallInv, [Next]_vars
  PROVE  InstallInv'
<1>0. GitInv /\ CmdInv
  BY Zenon DEF InstallInv
<1>1. ASSUME NEW p \in Process, GitStep(p), UNCHANGED <<scene, kills, ivars>> PROVE InstallInv'
  <2>1. Frame /\ UNCHANGED <<pc, todo>>
    BY Zenon, <1>1 DEF Frame, ivars
  <2>2. GitInv'
    BY Zenon, <1>0, <1>1, <2>1, GitStepKept
  <2>3. pc[p] = "select" /\ \A q \in Process \ {p} : gpc'[q] = gpc[q]
    BY <1>0, <1>1, InUpdate, OneMoves, Zenon DEF CmdInv, GitInv, Typed
  <2>4. CmdInv'
    BY Zenon, <1>0, <2>1, <2>3 DEF CmdInv, Function
  <2> QED
    BY Zenon, <2>2, <2>4 DEF InstallInv
<1>2. ASSUME Push, UNCHANGED <<scene, locks, kills, ivars>> PROVE InstallInv'
  <2>1. /\ UNCHANGED <<scene, locks, kills, pc, todo, db, co, gpc, want, fetchTo, rev, reinited>>
        /\ upstream' = upstream + 1 /\ upstream < MaxRev
    BY Zenon, <1>2 DEF Push, ivars
  <2>2. upstream' \in 0..MaxRev
    BY <1>0, <2>1, GitAssumption DEF GitInv, Typed
  <2>3. CmdInv'
    BY Zenon, <1>0, <2>1 DEF CmdInv, Function
  <2> QED
    BY Zenon, <1>0, <2>1, <2>2, <2>3, StillKept DEF InstallInv
<1>3. ASSUME UNCHANGED vars PROVE InstallInv'
  <2>1. UNCHANGED <<scene, locks, kills, pc, todo, upstream, db, co, gpc, want, fetchTo, rev, reinited>>
    BY Zenon, <1>3 DEF vars, ivars, gitvars
  <2>2. CmdInv'
    BY Zenon, <1>0, <2>1 DEF CmdInv, Function
  <2>3. upstream' \in 0..MaxRev
    BY Zenon, <1>0, <2>1 DEF GitInv, Typed
  <2> QED
    BY Zenon, <1>0, <2>1, <2>2, <2>3, StillKept DEF InstallInv
<1> QED
  BY Zenon, <1>1, <1>2, <1>3, CommandStep DEF Next, Run, Commands, Done

--------------------------------------------------------------------------------
(* The theorems                                                            *)

\* One update at a time works on the database and the checkouts, and what it
\* finds there is what the earlier ones, whole or killed, can have left.
THEOREM UpdateInvariant == "git" \notin NoLocking => (Spec => []InstallInv)
<1> SUFFICES ASSUME "git" \notin NoLocking PROVE Spec => []InstallInv
  BY Zenon
<1>1. InstallInv /\ [Next]_vars => InstallInv'
  BY Zenon, InstallInvStep
<1> QED
  BY <1>1, InstallInvInit, PTL DEF Spec

\* "Checkout is immutable, so we don't need to protect it with a lock once it
\* is created": what a process uses is a whole checkout of its revision, for as
\* long as it uses it, whoever else updates or is killed; with the submodule,
\* if nobody was killed.
THEOREM CheckoutStaysWhole == "git" \notin NoLocking => (Spec => []CheckoutWhole)
<1> SUFFICES ASSUME "git" \notin NoLocking PROVE Spec => []CheckoutWhole
  BY Zenon
<1>1. InstallInv => CheckoutWhole
  BY Zenon, InvCheckoutWhole DEF InstallInv
<1> QED
  BY <1>1, UpdateInvariant, PTL

\* Whatever was left behind, an update that may use the network, without
\* net.git-fetch-with-cli, and is not let down by it fails only for what it
\* cannot repair: a database that does not open is made anew once, one without
\* the revision is cloned anew once, and a checkout that does not do is
\* replaced.  Only a revision of Cargo.lock that is still found in a database
\* that a killed process half deleted may be checked out of it in vain.
THEOREM UpdatesRecover == "git" \notin NoLocking => (Spec => UpdateRecovers)
<1> SUFFICES ASSUME "git" \notin NoLocking PROVE Spec => UpdateRecovers
  BY Zenon
<1>1. ASSUME InstallInv, [Next]_vars, NEW p \in Process
      PROVE
       gpc[p] # "failed" /\ gpc'[p] = "failed" /\ NetAllowed(p) /\ ~scene.cli /\ p \notin netfailed'
       => BeyondRepair(p)
  <2> SUFFICES ASSUME gpc[p] # "failed", gpc'[p] = "failed", NetAllowed(p), ~scene.cli,
                      p \notin netfailed'
               PROVE  BeyondRepair(p)
    BY Zenon
  <2>0. Function(gpc, Process) /\ GitInv /\ CmdInv
    BY Zenon, <1>1 DEF InstallInv, GitInv, Typed
  <2>1. PICK q \in Process : GitStep(q)
    <3>1. ASSUME NEW q \in Process, Commands(q) \/ Kill(q) PROVE FALSE
      <4>1. gpc' = gpc \/ \E l \in {"none", "lock"} : gpc' = [gpc EXCEPT ![q] = l]
        BY Zenon, <2>0, <3>1, CommandMoves DEF Kill, Stay, Leave, Starts, End, EndOfCommand, StartUpdate, gitvars
      <4> QED
        BY Zenon, <2>0, <4>1 DEF Function
    <3> QED
      BY Zenon, <1>1, <3>1 DEF Next, Run, Commands, Push, Done, vars, gitvars
  <2>2. q = p
    <3> SUFFICES ASSUME q # p PROVE FALSE
      BY Zenon
    <3>1. gpc'[p] = gpc[p]
      BY Zenon, <2>0, <2>1, OneMoves
    <3> QED
      BY Zenon, <3>1
  <2> QED
    BY Zenon, <2>0, <2>1, <2>2, FailsForWant
<1>2. InstallInv /\ [Next]_vars =>
     [\A p \in Process :
       gpc[p] # "failed" /\ gpc'[p] = "failed" /\ NetAllowed(p) /\ ~scene.cli /\ p \notin netfailed'
       => BeyondRepair(p)]_gitvars
  BY Zenon, <1>1
<1> QED
  BY <1>2, UpdateInvariant, PTL DEF Spec, UpdateRecovers
================================================================================
