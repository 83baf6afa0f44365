------------------------------ MODULE LedgerProofs ------------------------------
(***************************************************************************)
(* Proofs about the record that Install keeps in .crates.toml: first what  *)
(* each operation on a listing does, then that every step of a process     *)
(* keeps the record true to bin/.  Whoever works on the two has the lock,  *)
(* which is assumed to work; what is said of it depends on how far it is   *)
(* (Working), and when nobody has the lock the two agree (Settled).        *)
(***************************************************************************)
EXTENDS Install, TLAPS

\* f is a function on S; what its values are is said where it matters.
Function(f, S) == f = [x \in S |-> f[x]]

--------------------------------------------------------------------------------
(* The record of the binaries.  S is the scene, B what bin/ holds, K the   *)
(* number of kills and L a listing.                                        *)

\* A listing of binaries that exist, each of one package.
Whole(S, B, L) ==
  /\ Function(L, DOMAIN L) /\ \A k \in DOMAIN L : DOMAIN L[k] = {"rev", "bins"}
  /\ \A k \in DOMAIN L : L[k].bins # {} /\ \A b \in L[k].bins : b \in Bin /\ B[b] # Absent
  /\ \A j, k \in DOMAIN L : j # k => L[j].bins \cap L[k].bins = {}
  /\ \A k \in DOMAIN L : \A b \in L[k].bins : \E c \in Installs(S, k) : b \in c.bins
  /\ \A k \in DOMAIN L : (\A c \in Installs(S, k) : ~c.git) => L[k].rev = 0

\* The binaries listed, but for X, are what the listing says.
Owned(S, B, L, X) ==
  \A k \in DOMAIN L : \A b \in L[k].bins \ X :
    B[b][1] = k /\ ("move" \in S.may \/ InParts(S, k) \/ B[b][2] = L[k].rev)

\* The binaries that exist, but for Y, are listed.
Listed(B, L, Y) == \A b \in Bin : B[b] # Absent => b \in Y \/ \E k \in DOMAIN L : b \in L[k].bins

\* What is promised of a listing, but for X and Y.
Ledger(S, B, K, L, X, Y) ==
  /\ Whole(S, B, L)
  /\ K = 0 => Owned(S, B, L, X)
  /\ K = 0 /\ S.may \cap {"write", "remove"} = {} => Listed(B, L, Y)

Apart(L, Y) == \A k \in DOMAIN L : L[k].bins \cap Y = {}

\* L is in the file, but for Y, which is not recorded any more, or not yet.
Settled(S, B, K, L, Y) == L = Unreadable \/ (Ledger(S, B, K, L, {}, Y) /\ Apart(L, Y))

\* The file is empty, and N is about to be written to it.
Pending(S, B, K, L, N, Y) == L = Listing({}) /\ Ledger(S, B, K, N, {}, Y) /\ Apart(N, Y)

--------------------------------------------------------------------------------
(* Where a process is in its command c, with the locals m.                 *)

\* The places of a command with the lock, and of an installation that has compiled.
Holding == {"new", "record", "write", "undo", "success", "uwrite", "remove"}
Installing == {"install", "new", "record", "write", "undo", "success"}

MemFields == {"new", "rep", "moved", "replaced", "owner", "list", "result", "pkg"}

\* What was compiled is of the package of the command.
Packed(m, c) ==
  c.op = "install" /\ m.pkg = <<c.key, m.pkg[2]>> /\ (~c.git => m.pkg[2] = 0)

\* The binaries are being moved: each is still new or to be replaced, or there.
Moving(S, B, K, L, l, m, c) ==
  /\ m.list = L /\ Ledger(S, B, K, L, m.replaced, m.moved) /\ Apart(L, m.moved)
  /\ m.new \cup m.moved \cup m.rep \cup m.replaced = c.bins
  /\ m.moved \cap (m.rep \cup m.replaced) = {} /\ (m.new # {} => m.replaced = {})
  /\ \A b \in m.new : B[b] = Absent
  /\ \A b \in m.rep : B[b] # Absent
  /\ \A b \in m.replaced : B[b] = m.pkg
  /\ \A b \in m.rep \cup m.replaced : m.owner[b] = {k \in DOMAIN L : b \in L[k].bins}
  /\ m.rep # {} => c.force
  /\ IF l = "new" THEN m.result ELSE ~m.result /\ "move" \in S.may

\* What is to be uninstalled is of the package found.
Theirs(B, K, m) == K = 0 => \A b \in m.moved : B[b][1] = m.pkg[1]

\* What is known of a process at l.
Working(S, B, K, L, l, m, c) ==
  /\ DOMAIN m = MemFields /\ m.result \in BOOLEAN
  /\ l \notin Holding => m.moved = {} /\ m.replaced = {} /\ m.result
  /\ l \in {"select", "compile"} => c.op # "uninstall"
  /\ l = "preflight" => c.op = "install"
  /\ l \in {"uninstall", "uwrite", "remove"} => c.op = "uninstall"
  /\ l \in Installing => Packed(m, c) /\ \A b \in m.moved : B[b] = m.pkg
  /\ l \in {"new", "record"} => Moving(S, B, K, L, l, m, c)
  /\ l = "write" => Pending(S, B, K, L, m.list, IF m.result THEN {} ELSE m.moved)
  /\ l = "undo" => Settled(S, B, K, L, m.moved)
  /\ l = "success" => Settled(S, B, K, L, {})
  /\ l = "uwrite" => Pending(S, B, K, L, m.list, m.moved) /\ Theirs(B, K, m)
  /\ l = "remove" => Settled(S, B, K, L, m.moved) /\ Theirs(B, K, m)

--------------------------------------------------------------------------------
(* Listings                                                                *)

\* A package that was compiled is not the absence of one.
LEMMA PkgIsThere == \A k, r : <<k, r>> # Absent /\ <<k, r>>[1] = k /\ <<k, r>>[2] = r
BY DEF Absent

\* An empty file lists nothing.
LEMMA EmptyWhole ==
  ASSUME NEW S, NEW B
  PROVE  /\ Whole(S, B, Listing({})) /\ \A X : Owned(S, B, Listing({}), X)
         /\ \A Y : Apart(Listing({}), Y)
<1>1. PICK L : L = Listing({})
  OBVIOUS
<1>2. DOMAIN L = {} /\ L = [k \in DOMAIN L |-> L[k]]
  BY <1>1 DEF Listing
<1>3. Whole(S, B, L) /\ (\A X : Owned(S, B, L, X)) /\ \A Y : Apart(L, Y)
  BY <1>2 DEF Whole, Owned, Apart, Function
<1> QED
  BY <1>1, <1>3

\* After a kill only the listing itself matters.
LEMMA KilledLedger ==
  ASSUME NEW S, NEW B, NEW K, NEW L, NEW X, NEW Y, Whole(S, B, L), K # 0
  PROVE  Ledger(S, B, K, L, X, Y)
BY DEF Ledger

\* ... and what held before it still holds.
LEMMA KilledKeeps ==
  ASSUME NEW S, NEW B, NEW K, NEW K2, K2 = 0 => K = 0
  PROVE  /\ \A L, X, Y : Ledger(S, B, K, L, X, Y) => Ledger(S, B, K2, L, X, Y)
         /\ \A L, Y : Settled(S, B, K, L, Y) => Settled(S, B, K2, L, Y)
         /\ \A L, N, Y : Pending(S, B, K, L, N, Y) => Pending(S, B, K2, L, N, Y)
<1>1. \A L, X, Y : Ledger(S, B, K, L, X, Y) => Ledger(S, B, K2, L, X, Y)
  BY DEF Ledger
<1>2. \A L, Y : Settled(S, B, K, L, Y) => Settled(S, B, K2, L, Y)
  BY <1>1 DEF Settled
<1>3. \A L, N, Y : Pending(S, B, K, L, N, Y) => Pending(S, B, K2, L, N, Y)
  BY <1>1 DEF Pending
<1> QED
  BY <1>1, <1>2, <1>3

\* A binary is put where there was none.
LEMMA PutNew ==
  ASSUME NEW S, NEW B, NEW K, NEW L, NEW X, NEW Y, NEW b \in Bin, NEW v,
         Function(B, Bin), Ledger(S, B, K, L, X, Y), Apart(L, Y), B[b] = Absent, v # Absent
  PROVE  /\ Ledger(S, [B EXCEPT ![b] = v], K, L, X, Y \cup {b})
         /\ Apart(L, Y \cup {b})
<1>1. PICK C : C = [B EXCEPT ![b] = v]
  BY Zenon
<1>2. C[b] = v /\ \A a \in Bin \ {b} : C[a] = B[a]
  BY <1>1 DEF Function
<1>3. Whole(S, B, L) /\ \A k \in DOMAIN L : b \notin L[k].bins
  BY DEF Ledger, Whole
<1>4. \A k \in DOMAIN L : \A a \in L[k].bins : a \in Bin /\ C[a] = B[a]
  BY <1>2, <1>3 DEF Whole
<1>5. Whole(S, C, L)
  BY <1>3, <1>4 DEF Whole
<1>6. Owned(S, B, L, X) => Owned(S, C, L, X)
  BY <1>4 DEF Owned
<1>7. Listed(B, L, Y) => Listed(C, L, Y \cup {b})
  BY <1>2 DEF Listed
<1>8. Apart(L, Y \cup {b})
  BY <1>3 DEF Apart
<1>9. Ledger(S, C, K, L, X, Y \cup {b})
  BY <1>5, <1>6, <1>7 DEF Ledger
<1> QED
  BY <1>1, <1>8, <1>9

\* A binary is replaced.
LEMMA PutOver ==
  ASSUME NEW S, NEW B, NEW K, NEW L, NEW X, NEW Y, NEW b \in Bin, NEW v,
         Function(B, Bin), Ledger(S, B, K, L, X, Y), B[b] # Absent, v # Absent
  PROVE  Ledger(S, [B EXCEPT ![b] = v], K, L, X \cup {b}, Y)
<1>1. PICK C : C = [B EXCEPT ![b] = v]
  BY Zenon
<1>2. C[b] = v /\ \A a \in Bin \ {b} : C[a] = B[a]
  BY <1>1 DEF Function
<1>3. \A a \in Bin : (C[a] = Absent) = (B[a] = Absent)
  BY <1>2
<1>4. Whole(S, B, L)
  BY DEF Ledger
<1>5. Whole(S, C, L)
  BY <1>3, <1>4 DEF Whole
<1>6. Owned(S, B, L, X) => Owned(S, C, L, X \cup {b})
  BY <1>2, <1>4 DEF Owned, Whole
<1>7. Listed(B, L, Y) => Listed(C, L, Y)
  BY <1>3 DEF Listed
<1>8. Ledger(S, C, K, L, X \cup {b}, Y)
  BY <1>5, <1>6, <1>7 DEF Ledger
<1> QED
  BY <1>1, <1>8

\* Binaries that are not listed are removed.
LEMMA TakeAway ==
  ASSUME NEW S, NEW B, NEW C, NEW K, NEW L, NEW Y, NEW Z,
         Settled(S, B, K, L, Y), Z \subseteq Y,
         \A b \in Bin : C[b] = IF b \in Z THEN Absent ELSE B[b]
  PROVE  Settled(S, C, K, L, Y \ Z)
<1> SUFFICES ASSUME Ledger(S, B, K, L, {}, Y), Apart(L, Y), L # Unreadable
             PROVE  Ledger(S, C, K, L, {}, Y \ Z) /\ Apart(L, Y \ Z)
  BY DEF Settled
<1>1. Whole(S, B, L) /\ Apart(L, Y \ Z)
  BY DEF Ledger, Apart
<1>2. \A k \in DOMAIN L : \A b \in L[k].bins : b \in Bin /\ C[b] = B[b]
  BY <1>1 DEF Whole, Apart
<1>3. Whole(S, C, L)
  BY <1>1, <1>2 DEF Whole
<1>4. Owned(S, B, L, {}) => Owned(S, C, L, {})
  BY <1>2 DEF Owned
<1>5. Listed(B, L, Y) => Listed(C, L, Y \ Z)
  BY DEF Listed
<1>6. Ledger(S, C, K, L, {}, Y \ Z)
  BY <1>3, <1>4, <1>5 DEF Ledger
<1> QED
  BY <1>1, <1>6

\* What is written when the binaries are in place, package by package.
Add(m) == m.replaced \cup (IF m.result THEN m.moved ELSE {})
Had(m, k) == IF k \in DOMAIN m.list THEN m.list[k].bins ELSE {}
Now(m, k) == (Had(m, k) \ m.replaced) \cup (IF k = m.pkg[1] THEN Add(m) ELSE {})
Label(m, k) ==
  IF k = m.pkg[1] /\ (m.replaced # {} \/ k \notin DOMAIN m.list) THEN m.pkg[2] ELSE m.list[k].rev

Record(m) ==
  [k \in {j \in DOMAIN m.list \cup {m.pkg[1]} : Now(m, j) # {}} |->
     [rev |-> Label(m, k), bins |-> Now(m, k)]]
OwnersKnown(m) == \A b \in m.replaced : m.owner[b] = {k \in DOMAIN m.list : b \in m.list[k].bins}

\* What install_one records, said with the owners known.
LEMMA RecordedIs ==
  ASSUME NEW m, OwnersKnown(m)
  PROVE  Recorded(m) = Record(m)
<1> USE DEF Record, OwnersKnown
<1> DEFINE left(k) == Had(m, k) \ {b \in m.replaced : k \in m.owner[b]}
           now(k) == IF k = m.pkg[1] THEN left(k) \cup Add(m) ELSE left(k)
<1>1. \A k : left(k) = Had(m, k) \ m.replaced
  BY DEF Had
<1>2. \A k : now(k) = Now(m, k)
  BY <1>1 DEF Now
<1>3. Recorded(m) = [k \in {j \in DOMAIN m.list \cup {m.pkg[1]} : now(j) # {}} |->
                       [rev |-> Label(m, k), bins |-> now(k)]]
  BY DEF Recorded, Label, Add, Had
<1> HIDE DEF now
<1> QED
  BY <1>2, <1>3

\* All the binaries are in place, or one could not be moved.
Moved(S, B, K, L, l, m, c) ==
  /\ Moving(S, B, K, L, l, m, c) /\ Packed(m, c) /\ \A b \in m.moved : B[b] = m.pkg
  /\ c \in Installs(S, c.key) /\ c.bins \subseteq Bin
  /\ l = "record" \/ (l = "new" /\ m.new = {} /\ m.rep = {})

\* No binary of package k is kept, or none has a revision.
OneRevision(S, L, m, k) ==
  k \in DOMAIN L =>
    \/ "move" \in S.may \/ InParts(S, k)
    \/ Had(m, k) \subseteq m.replaced /\ m.replaced # {}
    \/ L[k].rev = 0 /\ m.pkg[2] = 0

\* The binaries of a package that is installed are all of the revision recorded,
\* unless it is installed in parts.
LEMMA RecordedRight ==
  ASSUME NEW S, NEW B, NEW K, NEW L, NEW l, NEW m, NEW c, Moved(S, B, K, L, l, m, c)
  PROVE  OneRevision(S, L, m, c.key)
<1> USE DEF Moved
<1> SUFFICES ASSUME "move" \notin S.may, ~InParts(S, c.key), c.key \in DOMAIN L
             PROVE  \/ Had(m, c.key) \subseteq m.replaced /\ m.replaced # {}
                    \/ L[c.key].rev = 0 /\ m.pkg[2] = 0
  BY DEF OneRevision
<1>0. Whole(S, B, L) /\ m.list = L /\ l = "new" /\ c.bins = m.moved \cup m.replaced /\ Apart(L, m.moved)
  BY DEF Moving, Ledger
<1>1. CASE \A d \in Installs(S, c.key) : ~d.git
  BY <1>0, <1>1 DEF Whole, Packed
<1>2. CASE \E d \in Installs(S, c.key) : d.git
  <2>1. \A d \in Installs(S, c.key) : d.bins = c.bins
    BY <1>2 DEF InParts
  <2>2. L[c.key].bins \subseteq c.bins /\ L[c.key].bins # {}
    BY <1>0, <2>1 DEF Whole
  <2>3. L[c.key].bins \subseteq m.replaced
    BY <1>0, <2>2 DEF Apart
  <2> QED
    BY <1>0, <2>2, <2>3 DEF Had
<1> QED
  BY <1>1, <1>2

\* The listing that is written is right, if bin/ was as the old one says.
LEMMA RecordedLedger ==
  ASSUME NEW S, NEW B, NEW K, NEW L, NEW l, NEW m, NEW c,
         Moved(S, B, K, L, l, m, c), m.result \in BOOLEAN,
         NEW R, R = Recorded(m), NEW Y, Y = IF m.result THEN {} ELSE m.moved
  PROVE  Ledger(S, B, K, R, {}, Y) /\ Apart(R, Y)
<1>r. OneRevision(S, L, m, c.key)
  BY RecordedRight, Zenon
<1> USE DEF Moved
<1>0. /\ Whole(S, B, L) /\ m.list = L /\ Apart(L, m.moved) /\ m.pkg[1] = c.key /\ m.pkg # Absent
      /\ m.moved \subseteq c.bins /\ m.replaced \subseteq c.bins
      /\ \A b \in m.replaced : B[b] = m.pkg
  <2>1. m.pkg[1] = c.key /\ m.pkg # Absent
    BY PkgIsThere DEF Packed
  <2> QED
    BY <2>1 DEF Moving, Ledger
<1>o. OwnersKnown(m)
  BY DEF Moving, OwnersKnown
<1>i. R = Record(m)
  BY <1>o, RecordedIs, Zenon
<1>1. R = [k \in {j \in DOMAIN L \cup {c.key} : Now(m, j) # {}} |->
             [rev |-> Label(m, k), bins |-> Now(m, k)]]
  BY <1>0, <1>i DEF Record
<1>2. /\ \A k \in DOMAIN R : /\ k \in DOMAIN L \cup {c.key} /\ R[k].bins = Now(m, k) /\ Now(m, k) # {}
                             /\ R[k].rev = Label(m, k) /\ DOMAIN R[k] = {"rev", "bins"}
      /\ \A k \in DOMAIN L \cup {c.key} : Now(m, k) # {} => k \in DOMAIN R
      /\ R = [k \in DOMAIN R |-> R[k]]
  BY <1>1
<1>3. \A k, b : b \in Now(m, k) => \/ k \in DOMAIN L /\ b \in L[k].bins /\ b \notin m.replaced
                                   \/ k = c.key /\ b \in Add(m)
  BY <1>0 DEF Now, Had
<1>4. \A b \in Add(m) : b \in m.moved \cup m.replaced /\ b \in c.bins /\ b \in Bin /\ B[b] = m.pkg
  BY <1>0 DEF Add
<1>5. Whole(S, B, R)
  <2>1. \A k \in DOMAIN R : \A b \in R[k].bins : b \in Bin /\ B[b] # Absent
    BY <1>0, <1>2, <1>3, <1>4 DEF Whole
  <2>2. \A j, k \in DOMAIN R : j # k => R[j].bins \cap R[k].bins = {}
    <3> SUFFICES ASSUME NEW j \in DOMAIN R, NEW k \in DOMAIN R, j # k, NEW b,
                        b \in Now(m, j), b \in Now(m, k)
                 PROVE  FALSE
      BY <1>2
    <3>1. \A i : b \in Add(m) /\ i \in DOMAIN L => b \notin L[i].bins \/ b \in m.replaced
      BY <1>0, <1>4 DEF Apart
    <3> QED
      BY <1>0, <1>3, <3>1 DEF Whole
  <2>3. \A k \in DOMAIN R : \A b \in R[k].bins : \E d \in Installs(S, k) : b \in d.bins
    BY <1>0, <1>2, <1>3, <1>4 DEF Whole
  <2>4. \A k \in DOMAIN R : (\A d \in Installs(S, k) : ~d.git) => R[k].rev = 0
    BY <1>0, <1>2 DEF Whole, Label, Packed
  <2> QED
    BY <1>2, <2>1, <2>2, <2>3, <2>4 DEF Whole, Function
<1>6. ASSUME Owned(S, B, L, m.replaced) PROVE Owned(S, B, R, {})
  <2> SUFFICES ASSUME NEW k \in DOMAIN R, NEW b, b \in Now(m, k)
               PROVE  /\ B[b][1] = k
                      /\ "move" \in S.may \/ InParts(S, k) \/ B[b][2] = Label(m, k)
    BY <1>2 DEF Owned
  <2>1. CASE k \in DOMAIN L /\ b \in L[k].bins /\ b \notin m.replaced
    <3>1. B[b][1] = k /\ ("move" \in S.may \/ InParts(S, k) \/ B[b][2] = L[k].rev)
      BY <1>6, <2>1 DEF Owned
    <3>2. CASE k # c.key
      BY <1>0, <3>1, <3>2 DEF Label
    <3>3. CASE k = c.key
      BY <1>0, <1>r, <2>1, <3>1, <3>3 DEF Label, Had, OneRevision
    <3> QED
      BY <3>2, <3>3
  <2>2. CASE k = c.key /\ b \in Add(m)
    BY <1>0, <1>4, <1>r, <2>2 DEF Label, OneRevision
  <2> QED
    BY <1>3, <2>1, <2>2
<1>7. ASSUME Listed(B, L, m.moved) PROVE Listed(B, R, Y)
  <2> SUFFICES ASSUME NEW b \in Bin, B[b] # Absent, b \notin Y
               PROVE  \E k \in DOMAIN R : b \in R[k].bins
    BY DEF Listed
  <2>1. b \in Add(m) \/ \E k \in DOMAIN L : b \in L[k].bins \ m.replaced
    BY <1>7 DEF Listed, Add
  <2>2. PICK k \in DOMAIN L \cup {c.key} : b \in Now(m, k)
    BY <1>0, <2>1 DEF Now, Had
  <2> QED
    BY <1>2, <2>2
<1>8. Apart(R, Y)
  BY <1>0, <1>2, <1>3 DEF Apart, Add, Moving
<1> QED
  BY <1>5, <1>6, <1>7, <1>8 DEF Ledger, Moving

\* Binaries of one package are struck out.
LEMMA StruckOut ==
  ASSUME NEW S, NEW B, NEW K, NEW L, Ledger(S, B, K, L, {}, {}), NEW k \in DOMAIN L,
         NEW gone, gone \subseteq L[k].bins
  PROVE  Ledger(S, B, K, Struck(L, k, gone), {}, gone) /\ Apart(Struck(L, k, gone), gone)
<1>r. PICK rest : rest = [L EXCEPT ![k].bins = @ \ gone]
  BY Zenon
<1>n. PICK N : N = [j \in {i \in DOMAIN rest : rest[i].bins # {}} |-> rest[j]]
  BY Zenon
<1>s. Struck(L, k, gone) = N
  BY <1>r, <1>n DEF Struck
<1>0. Whole(S, B, L) /\ L = [j \in DOMAIN L |-> L[j]] /\ DOMAIN L[k] = {"rev", "bins"}
  BY DEF Ledger, Whole, Function
<1>1. /\ DOMAIN rest = DOMAIN L /\ \A j \in DOMAIN L \ {k} : rest[j] = L[j]
      /\ rest[k].bins = L[k].bins \ gone /\ rest[k].rev = L[k].rev /\ DOMAIN rest[k] = {"rev", "bins"}
  BY <1>0, <1>r
<1>2. \A j \in DOMAIN L \ {k} : L[j].bins \cap gone = {}
  BY <1>0 DEF Whole
<1>3. \A j \in DOMAIN L : rest[j].bins = L[j].bins \ gone /\ rest[j].rev = L[j].rev
                          /\ DOMAIN rest[j] = {"rev", "bins"}
  BY <1>0, <1>1, <1>2 DEF Whole
<1>4. /\ DOMAIN N = {i \in DOMAIN L : L[i].bins \ gone # {}} /\ N = [j \in DOMAIN N |-> N[j]]
      /\ \A j \in DOMAIN N : N[j] = rest[j]
  BY <1>1, <1>3, <1>n
<1>5. \A j \in DOMAIN N : /\ j \in DOMAIN L /\ N[j].bins = L[j].bins \ gone /\ N[j].rev = L[j].rev
                          /\ N[j].bins # {} /\ DOMAIN N[j] = {"rev", "bins"}
  BY <1>3, <1>4
<1> HIDE DEF Whole
<1>6. Whole(S, B, N)
  BY <1>0, <1>4, <1>5 DEF Whole, Function
<1>7. Owned(S, B, L, {}) => Owned(S, B, N, {})
  BY Zenon, <1>5 DEF Owned
<1>8. Listed(B, L, {}) => Listed(B, N, gone)
  BY Zenon, <1>4, <1>5 DEF Listed
<1>9. Apart(N, gone)
  BY Zenon, <1>5 DEF Apart
<1> QED
  BY Zenon, <1>6, <1>7, <1>8, <1>9, <1>s DEF Ledger

\* dup is the binaries of bs that exist, with the packages that have them.
Owners(B, L, bs, dup) ==
  /\ DOMAIN dup = {b \in bs : B[b] # Absent}
  /\ \A b \in DOMAIN dup : dup[b] = {k \in DOMAIN L : b \in L[k].bins}

\* find_duplicates finds the binaries that exist, and who has them.
LEMMA Duplicates ==
  ASSUME NEW S, NEW B, NEW L, Whole(S, B, L), NEW bs, NEW dup, dup = find_duplicates(B, L, bs)
  PROVE  Owners(B, L, bs, dup)
<1>1. DOMAIN dup = {b \in bs : B[b] # Absent}
  BY Zenon DEF find_duplicates
<1>2. ASSUME NEW b \in DOMAIN dup
      PROVE  dup[b] = {k \in DOMAIN L : b \in L[k].bins}
  <2>1. dup[b] = IF \E k \in DOMAIN L : b \in L[k].bins
                 THEN {CHOOSE k \in DOMAIN L : b \in L[k].bins} ELSE {}
    BY Zenon, <1>1 DEF find_duplicates
  <2>2. \A j, k \in DOMAIN L : b \in L[j].bins /\ b \in L[k].bins => j = k
    BY Zenon DEF Whole
  <2>3. CASE \E k \in DOMAIN L : b \in L[k].bins
    <3>1. PICK k \in DOMAIN L : b \in L[k].bins /\ k = CHOOSE j \in DOMAIN L : b \in L[j].bins
      BY Zenon, <2>3
    <3> QED
      BY Zenon, <2>1, <2>2, <3>1
  <2>4. CASE ~\E k \in DOMAIN L : b \in L[k].bins
    BY Zenon, <2>1, <2>4
  <2> QED
    BY Zenon, <2>3, <2>4
<1> QED
  BY Zenon, <1>1, <1>2 DEF Owners

\* A process without the lock does not depend on what the others do.
LEMMA IdleWorking ==
  ASSUME NEW S, NEW B, NEW K, NEW L, NEW l, NEW m, NEW c, Working(S, B, K, L, l, m, c),
         l \notin Holding, NEW B2, NEW K2, NEW L2
  PROVE  Working(S, B2, K2, L2, l, m, c)
BY Zenon DEF Working, Holding

\* A kill elsewhere changes nothing that matters.
LEMMA KilledWorking ==
  ASSUME NEW S, NEW B, NEW K, NEW L, NEW l, NEW m, NEW c, Working(S, B, K, L, l, m, c),
         NEW K2, K2 = 0 => K = 0
  PROVE  Working(S, B, K2, L, l, m, c)
<1>1. /\ \A X, Y : Ledger(S, B, K, L, X, Y) => Ledger(S, B, K2, L, X, Y)
      /\ \A Y : Settled(S, B, K, L, Y) => Settled(S, B, K2, L, Y)
      /\ \A N, Y : Pending(S, B, K, L, N, Y) => Pending(S, B, K2, L, N, Y)
  BY KilledKeeps, Zenon
<1>2. Moving(S, B, K, L, l, m, c) => Moving(S, B, K2, L, l, m, c)
  BY Zenon, <1>1 DEF Moving
<1>3. Theirs(B, K, m) => Theirs(B, K2, m)
  BY Zenon DEF Theirs
<1> QED
  BY Zenon, <1>1, <1>2, <1>3 DEF Working

--------------------------------------------------------------------------------
(* What a step makes of the locals and of the files                        *)

\* The second check: what is new, what is to be replaced, and who has it.
LEMMA WorkStarts ==
  ASSUME NEW S, NEW B, NEW K, NEW L, NEW m, NEW c, Working(S, B, K, L, "install", m, c),
         Ledger(S, B, K, L, {}, {}), NEW dup, dup = find_duplicates(B, L, c.bins),
         DOMAIN dup # {} => c.force, NEW m2,
         m2 = [m EXCEPT !.owner = dup, !.list = L, !.new = c.bins \ DOMAIN dup, !.rep = DOMAIN dup]
  PROVE  Working(S, B, K, L, "new", m2, c)
<1>1. /\ DOMAIN m = MemFields /\ m.moved = {} /\ m.replaced = {} /\ m.result /\ m.result \in BOOLEAN
      /\ Packed(m, c)
  BY Zenon DEF Working, Installing, Holding
<1>2. /\ m2.owner = dup /\ m2.list = L /\ m2.new = c.bins \ DOMAIN dup /\ m2.rep = DOMAIN dup
      /\ m2.moved = {} /\ m2.replaced = {} /\ m2.result = m.result /\ m2.pkg = m.pkg
      /\ DOMAIN m2 = MemFields
  BY <1>1, Zenon DEF MemFields
<1>3. Whole(S, B, L)
  BY Zenon DEF Ledger
<1>4. Owners(B, L, c.bins, dup)
  BY Zenon, <1>3, Duplicates
<1>5. Apart(L, {})
  BY Zenon DEF Apart
<1>6. Moving(S, B, K, L, "new", m2, c)
  <2>1. /\ m2.list = L /\ Ledger(S, B, K, L, m2.replaced, m2.moved) /\ Apart(L, m2.moved)
        /\ m2.rep # {} => c.force
        /\ m2.result
    BY Zenon, <1>1, <1>2, <1>5
  <2>2. /\ m2.new \cup m2.moved \cup m2.rep \cup m2.replaced = c.bins
        /\ m2.moved \cap (m2.rep \cup m2.replaced) = {} /\ (m2.new # {} => m2.replaced = {})
        /\ \A b \in m2.rep \cup m2.replaced : m2.owner[b] = {k \in DOMAIN L : b \in L[k].bins}
    BY <1>2, <1>4 DEF Owners
  <2>3. /\ \A b \in m2.new : B[b] = Absent
        /\ \A b \in m2.rep : B[b] # Absent
        /\ \A b \in m2.replaced : B[b] = m2.pkg
    BY Zenon, <1>2, <1>4 DEF Owners
  <2> QED
    BY Zenon, <2>1, <2>2, <2>3 DEF Moving
<1> QED
  BY Zenon, <1>1, <1>2, <1>6 DEF Working, Packed, Holding, Installing

\* What an installation that moves binaries has in memory.
Mover(S, B, K, L, l, m, c) ==
  /\ Moving(S, B, K, L, l, m, c) /\ Packed(m, c) /\ m.pkg # Absent
  /\ DOMAIN m = MemFields /\ m.result \in BOOLEAN /\ \A a \in m.moved : B[a] = m.pkg

\* What the locals say while binaries are moved.
LEMMA AtWork ==
  ASSUME NEW S, NEW B, NEW K, NEW L, NEW l, l = "new" \/ l = "record", NEW m, NEW c,
         Working(S, B, K, L, l, m, c)
  PROVE  Mover(S, B, K, L, l, m, c)
<1>1. /\ Moving(S, B, K, L, l, m, c) /\ Packed(m, c)
      /\ DOMAIN m = MemFields /\ m.result \in BOOLEAN /\ \A a \in m.moved : B[a] = m.pkg
  BY Zenon DEF Working, Installing
<1>2. m.pkg # Absent
  BY <1>1, PkgIsThere DEF Packed
<1> QED
  BY Zenon, <1>1, <1>2 DEF Mover

\* A new binary is moved into place.
LEMMA WorkMoves ==
  ASSUME NEW S, NEW B, NEW K, NEW L, NEW m, NEW c, Working(S, B, K, L, "new", m, c),
         Function(B, Bin), c.bins \subseteq Bin, NEW b \in m.new, NEW C, C = [B EXCEPT ![b] = m.pkg],
         NEW m2, m2 = [m EXCEPT !.new = @ \ {b}, !.moved = @ \cup {b}]
  PROVE  Working(S, C, K, L, "new", m2, c)
<1>0. Mover(S, B, K, L, "new", m, c)
  BY AtWork
<1>1. /\ Moving(S, B, K, L, "new", m, c) /\ Packed(m, c) /\ m.pkg # Absent
      /\ DOMAIN m = MemFields /\ m.result \in BOOLEAN /\ \A a \in m.moved : B[a] = m.pkg
  BY Zenon, <1>0 DEF Mover
<1>2. /\ m2.new = m.new \ {b} /\ m2.moved = m.moved \cup {b} /\ m2.rep = m.rep
      /\ m2.replaced = m.replaced /\ m2.owner = m.owner /\ m2.list = m.list
      /\ m2.result = m.result /\ m2.pkg = m.pkg /\ DOMAIN m2 = MemFields
  BY <1>1, Zenon DEF MemFields
<1>3. /\ b \in Bin /\ B[b] = Absent
      /\ m.new \cup m.moved \cup m.rep \cup m.replaced \subseteq Bin
  BY Zenon, <1>1 DEF Moving
<1>4. C[b] = m.pkg /\ \A a \in Bin \ {b} : C[a] = B[a]
  BY Zenon, <1>3 DEF Function
<1>5. Ledger(S, B, K, L, m.replaced, m.moved) /\ Apart(L, m.moved)
  BY <1>1, Zenon DEF Moving
<1>6. Ledger(S, C, K, L, m.replaced, m.moved \cup {b}) /\ Apart(L, m.moved \cup {b})
  BY Zenon, <1>1, <1>3, <1>5, PutNew
<1>7. \A a \in m.rep \cup m.replaced : a # b
  BY Zenon, <1>1, <1>3 DEF Moving
<1>8. Moving(S, C, K, L, "new", m2, c)
  <2>1. /\ m2.list = L /\ Ledger(S, C, K, L, m2.replaced, m2.moved) /\ Apart(L, m2.moved)
        /\ m2.rep # {} => c.force
        /\ m2.result
    BY Zenon, <1>1, <1>2, <1>6 DEF Moving
  <2>2. /\ m2.new \cup m2.moved \cup m2.rep \cup m2.replaced = c.bins
        /\ m2.moved \cap (m2.rep \cup m2.replaced) = {} /\ (m2.new # {} => m2.replaced = {})
        /\ \A a \in m2.rep \cup m2.replaced : m2.owner[a] = {k \in DOMAIN L : a \in L[k].bins}
    BY <1>1, <1>2, <1>7 DEF Moving
  <2>3. /\ \A a \in m2.new : C[a] = Absent
        /\ \A a \in m2.rep : C[a] # Absent
        /\ \A a \in m2.replaced : C[a] = m2.pkg
    BY <1>1, <1>2, <1>3, <1>4, <1>7 DEF Moving
  <2> QED
    BY Zenon, <2>1, <2>2, <2>3 DEF Moving
<1>9. Packed(m2, c) /\ \A a \in m2.moved : C[a] = m2.pkg
  BY Zenon, <1>1, <1>2, <1>3, <1>4 DEF Packed
<1> QED
  BY Zenon, <1>1, <1>2, <1>8, <1>9 DEF Working, Holding, Installing

\* A new binary cannot be moved.
LEMMA WorkStops ==
  ASSUME NEW S, NEW B, NEW K, NEW L, NEW m, NEW c, Working(S, B, K, L, "new", m, c), m.new # {}
  PROVE  Working(S, B, K, L, "undo", m, c)
<1>0. Mover(S, B, K, L, "new", m, c)
  BY AtWork
<1>1. /\ Moving(S, B, K, L, "new", m, c) /\ Packed(m, c)
      /\ DOMAIN m = MemFields /\ m.result \in BOOLEAN /\ \A a \in m.moved : B[a] = m.pkg
  BY Zenon, <1>0 DEF Mover
<1>2. Settled(S, B, K, L, m.moved)
  BY Zenon, <1>1 DEF Moving, Settled
<1> QED
  BY Zenon, <1>1, <1>2 DEF Working, Holding, Installing

\* A binary is replaced.
LEMMA WorkReplaces ==
  ASSUME NEW S, NEW B, NEW K, NEW L, NEW m, NEW c, Working(S, B, K, L, "new", m, c),
         Function(B, Bin), c.bins \subseteq Bin, m.new = {}, NEW b \in m.rep,
         NEW C, C = [B EXCEPT ![b] = m.pkg],
         NEW m2, m2 = [m EXCEPT !.rep = @ \ {b}, !.replaced = @ \cup {b}]
  PROVE  Working(S, C, K, L, "new", m2, c)
<1>0. Mover(S, B, K, L, "new", m, c)
  BY AtWork
<1>1. /\ Moving(S, B, K, L, "new", m, c) /\ Packed(m, c) /\ m.pkg # Absent
      /\ DOMAIN m = MemFields /\ m.result \in BOOLEAN /\ \A a \in m.moved : B[a] = m.pkg
  BY Zenon, <1>0 DEF Mover
<1>2. /\ m2.rep = m.rep \ {b} /\ m2.replaced = m.replaced \cup {b} /\ m2.new = {}
      /\ m2.moved = m.moved /\ m2.owner = m.owner /\ m2.list = m.list
      /\ m2.result = m.result /\ m2.pkg = m.pkg /\ DOMAIN m2 = MemFields
  BY <1>1, Zenon DEF MemFields
<1>3. /\ b \in Bin /\ B[b] # Absent /\ m.moved \cup m.rep \cup m.replaced \subseteq Bin
  BY Zenon, <1>1 DEF Moving
<1>4. C[b] = m.pkg /\ \A a \in Bin \ {b} : C[a] = B[a]
  BY Zenon, <1>3 DEF Function
<1>5. Ledger(S, B, K, L, m.replaced, m.moved) /\ Apart(L, m.moved)
  BY <1>1, Zenon DEF Moving
<1>6. Ledger(S, C, K, L, m.replaced \cup {b}, m.moved)
  BY Zenon, <1>1, <1>3, <1>5, PutOver
<1>7. Moving(S, C, K, L, "new", m2, c)
  <2>1. /\ m2.list = L /\ Ledger(S, C, K, L, m2.replaced, m2.moved) /\ Apart(L, m2.moved)
        /\ m2.rep # {} => c.force
        /\ m2.result
    BY Zenon, <1>1, <1>2, <1>5, <1>6 DEF Moving
  <2>2. /\ m2.new \cup m2.moved \cup m2.rep \cup m2.replaced = c.bins
        /\ m2.moved \cap (m2.rep \cup m2.replaced) = {} /\ (m2.new # {} => m2.replaced = {})
        /\ \A a \in m2.rep \cup m2.replaced : m2.owner[a] = {k \in DOMAIN L : a \in L[k].bins}
    BY <1>1, <1>2 DEF Moving
  <2>3. /\ \A a \in m2.new : C[a] = Absent
        /\ \A a \in m2.rep : C[a] # Absent
        /\ \A a \in m2.replaced : C[a] = m2.pkg
    BY <1>1, <1>2, <1>3, <1>4 DEF Moving
  <2> QED
    BY Zenon, <2>1, <2>2, <2>3 DEF Moving
<1>8. Packed(m2, c) /\ \A a \in m2.moved : C[a] = m2.pkg
  BY Zenon, <1>1, <1>2, <1>3, <1>4 DEF Packed
<1> QED
  BY Zenon, <1>1, <1>2, <1>7, <1>8 DEF Working, Holding, Installing

\* A binary cannot be replaced.
LEMMA WorkFails ==
  ASSUME NEW S, NEW B, NEW K, NEW L, NEW m, NEW c, Working(S, B, K, L, "new", m, c),
         "move" \in S.may, NEW m2, m2 = [m EXCEPT !.result = FALSE]
  PROVE  Working(S, B, K, L, "record", m2, c)
<1>0. Mover(S, B, K, L, "new", m, c)
  BY AtWork
<1>1. /\ Moving(S, B, K, L, "new", m, c) /\ Packed(m, c)
      /\ DOMAIN m = MemFields /\ m.result \in BOOLEAN /\ \A a \in m.moved : B[a] = m.pkg
  BY Zenon, <1>0 DEF Mover
<1>2. /\ m2.new = m.new /\ m2.moved = m.moved /\ m2.rep = m.rep /\ m2.replaced = m.replaced
      /\ m2.owner = m.owner /\ m2.list = m.list /\ m2.result = FALSE /\ m2.pkg = m.pkg
      /\ DOMAIN m2 = MemFields
  BY <1>1, Zenon DEF MemFields
<1>3. Moving(S, B, K, L, "record", m2, c)
  BY <1>1, <1>2 DEF Moving
<1> QED
  BY Zenon, <1>1, <1>2, <1>3 DEF Working, Holding, Installing, Packed

\* The record is about to be written.
LEMMA WorkRecords ==
  ASSUME NEW S, NEW B, NEW K, NEW L, NEW l \in {"new", "record"}, NEW m, NEW c,
         Working(S, B, K, L, l, m, c), c \in Installs(S, c.key), c.bins \subseteq Bin,
         l = "new" => m.new = {} /\ m.rep = {},
         NEW m2, m2 = [m EXCEPT !.list = Recorded(m)]
  PROVE  Working(S, B, K, Listing({}), "write", m2, c)
<1>0. Mover(S, B, K, L, l, m, c)
  BY AtWork
<1>1. /\ Moving(S, B, K, L, l, m, c) /\ Packed(m, c)
      /\ DOMAIN m = MemFields /\ m.result \in BOOLEAN /\ \A a \in m.moved : B[a] = m.pkg
  BY Zenon, <1>0 DEF Mover
<1>2. Moved(S, B, K, L, l, m, c)
  BY Zenon, <1>1 DEF Moved
<1>3. PICK R, Y : R = Recorded(m) /\ Y = IF m.result THEN {} ELSE m.moved
  BY Zenon
<1>4. Ledger(S, B, K, R, {}, Y) /\ Apart(R, Y)
  BY Zenon, <1>1, <1>2, <1>3, RecordedLedger
<1>5. /\ m2.list = R /\ m2.moved = m.moved /\ m2.result = m.result /\ m2.pkg = m.pkg
      /\ DOMAIN m2 = MemFields
  BY <1>1, <1>3, Zenon DEF MemFields
<1>6. Pending(S, B, K, Listing({}), m2.list, IF m2.result THEN {} ELSE m2.moved)
  BY Zenon, <1>3, <1>4, <1>5 DEF Pending
<1> QED
  BY Zenon, <1>1, <1>5, <1>6 DEF Working, Holding, Installing, Packed

\* A file that was cut to nothing, or not written to its end, says nothing wrong
\* when writing may fail.
LEMMA WrittenSettled ==
  ASSUME NEW S, NEW B, NEW K, NEW L, NEW N, NEW Y, NEW M, Pending(S, B, K, L, N, Y),
         M = N \/ ("write" \in S.may /\ M \in {L, Unreadable})
  PROVE  /\ Settled(S, B, K, M, Y)
         /\ "write" \in S.may /\ M \in {L, Unreadable} => \A Z : Settled(S, B, K, M, Z)
<1>1. /\ Whole(S, B, Listing({})) /\ Owned(S, B, Listing({}), {})
      /\ \A Z : Apart(Listing({}), Z)
  BY EmptyWhole, Zenon
<1>2. "write" \in S.may => S.may \cap {"write", "remove"} # {}
  BY Zenon
<1>3. "write" \in S.may => \A Z : Settled(S, B, K, Listing({}), Z)
  BY Zenon, <1>1, <1>2 DEF Settled, Ledger
<1>4. \A Z : Settled(S, B, K, Unreadable, Z)
  BY Zenon DEF Settled
<1>5. L = Listing({}) /\ Settled(S, B, K, N, Y)
  BY Zenon DEF Pending, Settled
<1> QED
  BY Zenon, <1>3, <1>4, <1>5

\* The record was written, or could not be.
LEMMA WorkWrites ==
  ASSUME NEW S, NEW B, NEW K, NEW L, NEW m, NEW c, Working(S, B, K, L, "write", m, c),
         NEW M, M = m.list \/ ("write" \in S.may /\ M \in {L, Unreadable}),
         NEW l, l = IF m.result THEN "success" ELSE "undo"
  PROVE  Working(S, B, K, M, l, m, c)
<1>1. PICK Y : Y = IF m.result THEN {} ELSE m.moved
  BY Zenon
<1>2. Pending(S, B, K, L, m.list, Y)
  BY Zenon, <1>1 DEF Working
<1>3. Settled(S, B, K, M, Y)
  BY Zenon, <1>2, WrittenSettled
<1> QED
  BY Zenon, <1>1, <1>3 DEF Working, Holding, Installing

\* The binaries to be uninstalled are struck out.
LEMMA WorkStrikes ==
  ASSUME NEW S, NEW B, NEW K, NEW L, NEW m, NEW c, Working(S, B, K, L, "uninstall", m, c),
         Ledger(S, B, K, L, {}, {}), NEW k \in DOMAIN L, NEW gone, gone \subseteq L[k].bins,
         NEW m2, m2 = [m EXCEPT !.moved = gone, !.pkg = <<k, L[k].rev>>, !.list = Struck(L, k, gone)]
  PROVE  Working(S, B, K, Listing({}), "uwrite", m2, c)
<1>1. DOMAIN m = MemFields /\ m.result \in BOOLEAN /\ c.op = "uninstall"
  BY Zenon DEF Working
<1>2. /\ m2.moved = gone /\ m2.pkg = <<k, L[k].rev>> /\ m2.list = Struck(L, k, gone)
      /\ m2.result = m.result /\ DOMAIN m2 = MemFields
  BY <1>1, Zenon DEF MemFields
<1>3. Pending(S, B, K, Listing({}), m2.list, m2.moved)
  BY <1>2, StruckOut DEF Pending
<1>4. K = 0 => \A b \in gone : B[b][1] = k
  BY Zenon DEF Ledger, Owned
<1>5. m2.pkg[1] = k
  BY <1>2, PkgIsThere
<1>6. Theirs(B, K, m2)
  BY Zenon, <1>2, <1>4, <1>5 DEF Theirs
<1> QED
  BY Zenon, <1>1, <1>2, <1>3, <1>6 DEF Working, Holding, Installing

\* The file was written; the binaries struck out of it are removed, one by one.
LEMMA WorkStruck ==
  ASSUME NEW S, NEW B, NEW K, NEW L, NEW m, NEW c, Working(S, B, K, L, "uwrite", m, c)
  PROVE  /\ Working(S, B, K, m.list, "remove", m, c)
         /\ "write" \in S.may => \A M \in {L, Unreadable} : Settled(S, B, K, M, {})
<1>1. Pending(S, B, K, L, m.list, m.moved)
  BY Zenon DEF Working
<1>2. Settled(S, B, K, m.list, m.moved)
  BY Zenon, <1>1, WrittenSettled
<1>3. "write" \in S.may => \A M \in {L, Unreadable} : Settled(S, B, K, M, {})
  BY <1>1, WrittenSettled, Zenon
<1> QED
  BY Zenon, <1>2, <1>3 DEF Working, Holding, Installing

\* A binary that was struck out is removed.
LEMMA WorkRemoves ==
  ASSUME NEW S, NEW B, NEW K, NEW L, NEW m, NEW c, Working(S, B, K, L, "remove", m, c),
         Function(B, Bin), NEW b \in m.moved, NEW C, C = [B EXCEPT ![b] = Absent],
         NEW m2, m2 = [m EXCEPT !.moved = @ \ {b}]
  PROVE  Working(S, C, K, L, "remove", m2, c)
<1>1. /\ Settled(S, B, K, L, m.moved) /\ Theirs(B, K, m)
      /\ DOMAIN m = MemFields /\ m.result \in BOOLEAN /\ c.op = "uninstall"
  BY Zenon DEF Working
<1>2. /\ m2.moved = m.moved \ {b} /\ m2.pkg = m.pkg /\ m2.result = m.result
      /\ DOMAIN m2 = MemFields
  BY <1>1, Zenon DEF MemFields
<1>3. {b} \subseteq m.moved /\ \A a \in Bin : C[a] = IF a \in {b} THEN Absent ELSE B[a]
  BY Zenon DEF Function
<1>4. Settled(S, C, K, L, m.moved \ {b})
  BY <1>1, <1>3, TakeAway, ZenonT(30)
<1>5. \A a \in m.moved \ {b} : C[a] = B[a]
  BY DEF Function
<1>6. Theirs(C, K, m2)
  BY Zenon, <1>1, <1>2, <1>5 DEF Theirs
<1> QED
  BY Zenon, <1>1, <1>2, <1>4, <1>6 DEF Working, Holding, Installing

\* Wherever the process with the lock is, the file lists what is there.
LEMMA HeldWhole ==
  ASSUME NEW S, NEW B, NEW K, NEW L, NEW l \in Holding, NEW m, NEW c, Working(S, B, K, L, l, m, c)
  PROVE  L = Unreadable \/ Whole(S, B, L)
<1>1. CASE l \in {"new", "record"}
  BY Zenon, <1>1 DEF Working, Moving, Ledger
<1>2. CASE l \in {"write", "uwrite"}
  <2>1. L = Listing({})
    BY Zenon, <1>2 DEF Working, Pending
  <2> QED
    BY Zenon, <2>1, EmptyWhole
<1>3. CASE l \in {"undo", "success", "remove"}
  BY Zenon, <1>3 DEF Working, Settled, Ledger
<1> QED
  BY Zenon, <1>1, <1>2, <1>3 DEF Holding

--------------------------------------------------------------------------------
(* The inductive invariant                                                 *)

\* The type of the locks.
LocksTyped == locks \in [File -> [Process -> State]]

\* What a process does to the locks concerns its own only.
LEMMA LocksEffect ==
  ASSUME LocksTyped, NEW p \in Process
  PROVE  /\ \A f \in File : Acquire(p, f, "Exclusive") =>
              /\ LocksTyped' /\ \A g \in File, q \in Process :
                                  g # f \/ q # p => locks'[g][q] = locks[g][q]
              /\ f \notin NoLocking => locks'[f][p] = "Exclusive"
         /\ \A f \in File : Release(p, f) =>
              LocksTyped' /\ \A g \in File, q \in Process : g # f => locks'[g][q] = locks[g][q]
         /\ ReleaseAll(p) =>
              LocksTyped' /\ \A g \in File, q \in Process : q # p => locks'[g][q] = locks[g][q]
<1>1. \A f \in File : Acquire(p, f, "Exclusive") =>
        /\ LocksTyped' /\ \A g \in File, q \in Process :
                            g # f \/ q # p => locks'[g][q] = locks[g][q]
        /\ f \notin NoLocking => locks'[f][p] = "Exclusive"
  BY DEF LocksTyped, Acquire, State
<1>2. \A f \in File : Release(p, f) =>
        LocksTyped' /\ \A g \in File, q \in Process : g # f => locks'[g][q] = locks[g][q]
  BY DEF LocksTyped, Release, State
<1>3. ReleaseAll(p) =>
        LocksTyped' /\ \A g \in File, q \in Process : q # p => locks'[g][q] = locks[g][q]
  BY DEF LocksTyped, ReleaseAll, State
<1> QED
  BY Zenon, <1>1, <1>2, <1>3

\* The lock of the record is held from the second check on, by one process.
HoldInv ==
  /\ \A p \in Process : pc[p] \in Holding => locks["crates"][p] = "Exclusive"
  /\ \A p, q \in Process : p # q /\ pc[p] \in Holding => pc[q] \notin Holding

\* The process with the lock is at work on a listing that is true to bin/ but
\* for what it has moved or is to remove; without one, the file itself is.
LedgerInv ==
  /\ LocksTyped /\ kills \in Nat /\ scene \in Scenes /\ Function(pc, Process)
  /\ \A p \in Process : pc[p] # "next" => todo[p] # <<>>
  /\ Function(bin, Bin) /\ Function(mem, Process) /\ todo \in [Process -> Seq(Given(scene))]
  /\ HoldInv
  /\ \A p \in Process : Working(scene, bin, kills, list, pc[p], mem[p], cmd(p))
  /\ (\A p \in Process : pc[p] \notin Holding) => Settled(scene, bin, kills, list, {})

--------------------------------------------------------------------------------
(* Steps                                                                   *)

\* A step of p that leaves the others where they are; if it is without the lock
\* it changes nothing, and if it has the lock it is the only one.
Acts(p) ==
  /\ scene' = scene /\ (kills' = 0 => kills = 0) /\ kills' \in Nat /\ LocksTyped'
  /\ Function(pc', Process) /\ (pc'[p] # "next" => todo'[p] # <<>>)
  /\ Function(bin', Bin) /\ Function(mem', Process) /\ todo' \in [Process -> Seq(Given(scene))]
  /\ \A q \in Process \ {p} : /\ pc'[q] = pc[q] /\ mem'[q] = mem[q] /\ todo'[q] = todo[q]
                              /\ locks'["crates"][q] = locks["crates"][q]
  /\ pc'[p] \in Holding => locks'["crates"][p] = "Exclusive"
  /\ \/ pc[p] \notin Holding /\ pc'[p] \notin Holding /\ bin' = bin /\ list' = list
     \/ /\ \A q \in Process \ {p} : pc[q] \notin Holding
        /\ pc'[p] \notin Holding => Settled(scene, bin', kills', list', {})

\* Such a step keeps the invariant, if what is said of p still holds.
LEMMA ActsKeep ==
  ASSUME LedgerInv, NEW p \in Process, Acts(p),
         Working(scene, bin', kills', list', pc'[p], mem'[p], Head(todo'[p]))
  PROVE  LedgerInv'
<1>1. /\ scene' = scene /\ (kills' = 0 => kills = 0) /\ kills' \in Nat /\ LocksTyped'
      /\ Function(pc', Process) /\ (pc'[p] # "next" => todo'[p] # <<>>)
      /\ Function(bin', Bin) /\ Function(mem', Process) /\ todo' \in [Process -> Seq(Given(scene))]
  BY Zenon DEF Acts
<1>2. \A q \in Process \ {p} : pc'[q] = pc[q] /\ mem'[q] = mem[q] /\ todo'[q] = todo[q]
  BY Zenon DEF Acts
<1>3. HoldInv'
  BY Zenon DEF LedgerInv, HoldInv, Acts
<1>4. \A q \in Process \ {p} :
        Working(scene, bin', kills', list', pc'[q], mem'[q], Head(todo'[q]))
  <2> SUFFICES ASSUME NEW q \in Process \ {p}
               PROVE  Working(scene, bin', kills', list', pc[q], mem[q], Head(todo[q]))
    BY Zenon, <1>2
  <2>1. Working(scene, bin, kills, list, pc[q], mem[q], Head(todo[q]))
    BY Zenon DEF LedgerInv, cmd
  <2>2. CASE pc[q] \notin Holding
    BY Zenon, <2>1, <2>2, IdleWorking
  <2>3. CASE pc[q] \in Holding
    <3>1. bin' = bin /\ list' = list
      BY <2>3, Zenon DEF Acts
    <3>2. Working(scene, bin, kills', list, pc[q], mem[q], Head(todo[q]))
      BY Zenon, <1>1, <2>1, KilledWorking
    <3> QED
      BY Zenon, <3>1, <3>2
  <2> QED
    BY Zenon, <2>2, <2>3
<1>5. ASSUME \A q \in Process : pc'[q] \notin Holding
      PROVE  Settled(scene, bin', kills', list', {})
  <2>1. CASE pc[p] \notin Holding /\ pc'[p] \notin Holding /\ bin' = bin /\ list' = list
    <3>1. Settled(scene, bin, kills, list, {})
      BY Zenon, <1>2, <1>5, <2>1 DEF LedgerInv
    <3> QED
      BY <1>1, <2>1, <3>1, KilledKeeps, Zenon
  <2> QED
    BY Zenon, <1>5, <2>1 DEF Acts
<1>7. scene' \in Scenes /\ \A q \in Process : pc'[q] # "next" => todo'[q] # <<>>
  BY <1>1, <1>2, Zenon DEF LedgerInv
<1>6. \A q \in Process : Working(scene', bin', kills', list', pc'[q], mem'[q], Head(todo'[q]))
  BY Zenon, <1>1, <1>4
<1> QED
  BY Zenon, <1>1, <1>3, <1>5, <1>6, <1>7 DEF LedgerInv, cmd

\* What is known when p takes a step.
Known(p) ==
  /\ Function(bin, Bin) /\ Function(mem, Process) /\ Function(pc, Process)
  /\ todo \in [Process -> Seq(Given(scene))] /\ LocksTyped /\ kills \in Nat
  /\ pc[p] # "next" => todo[p] # <<>>
  /\ todo[p] # <<>> => cmd(p) \in Given(scene) /\ cmd(p) \in Command
  /\ pc[p] \in Holding => /\ \A q \in Process \ {p} : pc[q] \notin Holding
                          /\ locks["crates"][p] = "Exclusive"
  /\ (\A q \in Process : pc[q] \notin Holding) => Settled(scene, bin, kills, list, {})
  /\ Working(scene, bin, kills, list, pc[p], mem[p], cmd(p))

\* The commands of a scene are commands.
LEMMA GivenCommands ==
  ASSUME NEW s \in Scenes
  PROVE  /\ Given(s) \subseteq Command
         /\ \A p \in Process : s.prog[p] \in Seq(Given(s))
<1>1. PICK prog : prog = s.prog /\ prog \in [Process -> Seq(Command)]
  BY Zenon, InstallAssumption
<1>2. Given(s) = UNION {{prog[p][i] : i \in DOMAIN prog[p]} : p \in Process}
  BY <1>1 DEF Given
<1>3. \A p \in Process : \A i \in DOMAIN prog[p] : prog[p][i] \in Command /\ prog[p][i] \in Given(s)
  BY <1>1, <1>2
<1>4. Given(s) \subseteq Command
  BY <1>2, <1>3
<1>5. \A p \in Process : prog[p] \in Seq(Given(s))
  BY <1>1, <1>3
<1> QED
  BY Zenon, <1>1, <1>4, <1>5

\* It is a consequence of the invariant.
LEMMA KnownHolds ==
  ASSUME LedgerInv, NEW p \in Process
  PROVE  Known(p)
<1>1. /\ LocksTyped /\ kills \in Nat /\ scene \in Scenes /\ Function(pc, Process)
      /\ pc[p] # "next" => todo[p] # <<>>
  BY Zenon DEF LedgerInv
<1>2. /\ Function(bin, Bin) /\ Function(mem, Process) /\ todo \in [Process -> Seq(Given(scene))]
      /\ HoldInv /\ Working(scene, bin, kills, list, pc[p], mem[p], cmd(p))
      /\ (\A q \in Process : pc[q] \notin Holding) => Settled(scene, bin, kills, list, {})
  BY Zenon DEF LedgerInv
<1>4. Given(scene) \subseteq Command
  BY Zenon, <1>1, GivenCommands
<1>5. todo[p] # <<>> => cmd(p) \in Given(scene) /\ cmd(p) \in Command
  BY <1>2, <1>4 DEF cmd
<1>6. pc[p] \in Holding => /\ \A q \in Process \ {p} : pc[q] \notin Holding
                           /\ locks["crates"][p] = "Exclusive"
  BY Zenon, <1>2 DEF HoldInv
<1> QED
  BY Zenon, <1>1, <1>2, <1>5, <1>6 DEF Known

\* Nobody works without locals.
LEMMA NextWorking ==
  ASSUME NEW S, NEW B, NEW K, NEW L, NEW c
  PROVE  Working(S, B, K, L, "next", NoMem, c)
BY Zenon DEF Working, NoMem, Holding, Installing, MemFields

\* The end of a command, or of its process.
Ends(p) ==
  /\ pc' = [pc EXCEPT ![p] = "next"] /\ mem' = [mem EXCEPT ![p] = NoMem] /\ ReleaseAll(p)
  /\ todo' \in [Process -> Seq(Given(scene))] /\ \A q \in Process \ {p} : todo'[q] = todo[q]
  /\ scene' = scene /\ (kills' = 0 => kills = 0) /\ kills' \in Nat /\ Function(bin', Bin)

\* It keeps the invariant, if the record agrees with bin/ when the lock is dropped.
LEMMA EndsKeep ==
  ASSUME LedgerInv, NEW p \in Process, Known(p), Ends(p),
         \/ pc[p] \notin Holding /\ bin' = bin /\ list' = list
         \/ pc[p] \in Holding /\ Settled(scene, bin', kills', list', {})
  PROVE  LedgerInv'
<1>1. /\ pc'[p] = "next" /\ mem'[p] = NoMem /\ Function(mem', Process)
      /\ Function(pc', Process) /\ \A q \in Process \ {p} : pc'[q] = pc[q] /\ mem'[q] = mem[q]
  BY Zenon DEF Known, Ends, Function
<1>2. LocksTyped' /\ \A q \in Process \ {p} : locks'["crates"][q] = locks["crates"][q]
  BY InstallAssumption, LocksEffect DEF Known, Ends
<1>3. Working(scene, bin', kills', list', pc'[p], mem'[p], Head(todo'[p]))
  BY Zenon, <1>1, NextWorking
<1>4. "next" \notin Holding
  BY Zenon DEF Holding
<1>5. Acts(p)
  BY Zenon, <1>1, <1>2, <1>4 DEF Acts, Ends, Known
<1> QED
  BY Zenon, <1>3, <1>5, ActsKeep

\* End is such an end.
LEMMA EndEnds ==
  ASSUME NEW p \in Process, Known(p), todo[p] # <<>>, End(p), Function(bin', Bin)
  PROVE  Ends(p)
<1>1. /\ pc' = [pc EXCEPT ![p] = "next"] /\ mem' = [mem EXCEPT ![p] = NoMem] /\ ReleaseAll(p)
      /\ todo' = [todo EXCEPT ![p] = Tail(@)] /\ scene' = scene /\ kills' = kills
  BY Zenon DEF End, EndOfCommand
<1>2. kills \in Nat /\ todo \in [Process -> Seq(Given(scene))] /\ Tail(todo[p]) \in Seq(Given(scene))
  BY SMTT(30) DEF Known
<1> QED
  BY Zenon, <1>1, <1>2 DEF Ends

\* A process without the lock ends its command.
LEMMA EndAside ==
  ASSUME LedgerInv, NEW p \in Process, Known(p), pc[p] \notin Holding, pc[p] # "next",
         End(p), UNCHANGED <<bin, list>>
  PROVE  LedgerInv'
<1>1. Function(bin', Bin) /\ todo[p] # <<>> /\ bin' = bin /\ list' = list
  BY Zenon DEF Known
<1>2. Ends(p)
  BY Zenon, <1>1, EndEnds
<1> QED
  BY Zenon, <1>1, <1>2, EndsKeep

\* A step to l, within a command.
Goes(p, l) ==
  /\ pc' = [pc EXCEPT ![p] = l] /\ Function(mem', Process)
  /\ \A q \in Process \ {p} : mem'[q] = mem[q]
  /\ UNCHANGED <<scene, kills, todo>> /\ Function(bin', Bin)

\* It leaves the others where they are, with the lock, without it or taking it.
LEMMA GoesActs ==
  ASSUME NEW p \in Process, Known(p), NEW l, Goes(p, l), todo[p] # <<>>,
         \/ /\ pc[p] \notin Holding /\ l \notin Holding /\ bin' = bin /\ list' = list
            /\ locks' = locks
         \/ pc[p] \in Holding /\ l \in Holding /\ locks' = locks
         \/ /\ l \in Holding /\ "crates" \notin NoLocking /\ Acquire(p, "crates", "Exclusive")
            /\ \A q \in Process \ {p} : pc[q] \notin Holding
  PROVE  Acts(p) /\ pc'[p] = l /\ todo' = todo
<1>1. /\ pc'[p] = l /\ \A q \in Process \ {p} : pc'[q] = pc[q] /\ mem'[q] = mem[q]
      /\ Function(pc', Process)
  BY Zenon DEF Known, Goes, Function
<1>2. /\ scene' = scene /\ kills' = kills /\ todo' = todo /\ Function(mem', Process)
      /\ Function(bin', Bin) /\ todo \in [Process -> Seq(Given(scene))]
  BY Zenon DEF Known, Goes
<1>3. /\ LocksTyped' /\ \A q \in Process \ {p} : locks'["crates"][q] = locks["crates"][q]
      /\ l \in Holding => locks'["crates"][p] = "Exclusive"
  BY InstallAssumption, LocksEffect DEF Known, LocksTyped
<1> QED
  BY Zenon, <1>1, <1>2, <1>3 DEF Acts, Known

\* The steps of an update, and pushes, do not touch the installation root.
LEMMA Untouched ==
  ASSUME LedgerInv, UNCHANGED <<scene, kills, bin, list, pc, todo, mem>>, LocksTyped',
         \A q \in Process : locks'["crates"][q] = locks["crates"][q]
  PROVE  LedgerInv'
<1>1. HoldInv'
  BY Zenon DEF LedgerInv, HoldInv
<1>2. \A p \in Process : Working(scene, bin, kills, list, pc[p], mem[p], Head(todo[p]))
  BY Zenon DEF LedgerInv, cmd
<1> QED
  BY Zenon, <1>1, <1>2 DEF LedgerInv, cmd

\* An update takes and drops the lock of the git database only.
LEMMA UpdateAside ==
  ASSUME LedgerInv, NEW p \in Process, GitStep(p), UNCHANGED <<scene, kills, ivars>>
  PROVE  LedgerInv'
<1>1. UNCHANGED locks \/ Acquire(p, "git", "Exclusive") \/ Release(p, "git")
  BY Zenon DEF GitStep, Lock, Resolve, ClearDb, MakeDb, FetchStart, Wipe, Reinit, Net, Retry,
       Rescan, Open, FetchCheckout, ClearCheckout, CloneCheckout, Unmark, ResetStart, ResetEnd,
       Mark, SubStart, SubFetch, SubResetStart, SubResetEnd, Scan, Goto, Fail
<1>2. LocksTyped
  BY Zenon DEF LedgerInv
<1>3. LocksTyped' /\ \A q \in Process : locks'["crates"][q] = locks["crates"][q]
  BY <1>1, <1>2, InstallAssumption, LocksEffect DEF LocksTyped
<1>4. UNCHANGED <<scene, kills, bin, list, pc, todo, mem>>
  BY Zenon DEF ivars
<1> QED
  BY Zenon, <1>3, <1>4, Untouched

--------------------------------------------------------------------------------
(* The steps without the lock                                              *)

\* A step that takes no lock, and keeps the locals but for the package.
LEMMA GoesAside ==
  ASSUME LedgerInv, NEW p \in Process, Known(p), pc[p] \notin Holding, NEW l, l \notin Holding,
         Goes(p, l), todo[p] # <<>>, UNCHANGED <<bin, list, locks>>,
         Working(scene, bin, kills, list, l, mem'[p], cmd(p))
  PROVE  LedgerInv'
<1>1. Acts(p) /\ pc'[p] = l /\ todo' = todo
  BY Zenon, GoesActs
<1>2. bin' = bin /\ list' = list /\ kills' = kills
  BY Zenon DEF Goes
<1>3. Working(scene, bin', kills', list', pc'[p], mem'[p], Head(todo'[p]))
  BY Zenon, <1>1, <1>2 DEF cmd
<1> QED
  BY Zenon, <1>1, <1>3, ActsKeep

\* The steps before the second check keep the invariant: none has the lock.
LEMMA CommandAside ==
  ASSUME LedgerInv, NEW p \in Process, Known(p),
         Begin(p) \/ SelectPkg(p) \/ Preflight(p) \/ Compile(p)
  PROVE  LedgerInv'
<1>w. Working(scene, bin, kills, list, pc[p], mem[p], cmd(p)) /\ Function(mem, Process)
  BY Zenon DEF Known
<1>h. {"next", "select", "preflight", "compile", "install", "uninstall"} \cap Holding = {}
  BY Zenon DEF Holding
<1>t. pc[p] # "next" => todo[p] # <<>>
  BY Zenon DEF Known
<1>o. todo[p] # <<>> => cmd(p).op \in {"install", "uninstall", "build"}
  BY Zenon DEF Known, Command
<1>1. ASSUME NEW l \in {"select", "preflight", "compile", "uninstall"},
             pc[p] \notin Holding, pc' = [pc EXCEPT ![p] = l], todo[p] # <<>>,
             UNCHANGED <<scene, kills, bin, list, todo, mem, locks>>,
             l \in {"select", "compile"} => cmd(p).op # "uninstall",
             l = "preflight" => cmd(p).op = "install", l = "uninstall" => cmd(p).op = "uninstall"
      PROVE  LedgerInv'
  <2>1. Goes(p, l) /\ mem'[p] = mem[p]
    BY Zenon, <1>1 DEF Goes, Known
  <2>2. Working(scene, bin, kills, list, l, mem[p], cmd(p))
    BY Zenon, <1>w, <1>h, <1>1 DEF Working, Installing
  <2> QED
    BY Zenon, <1>h, <1>1, <2>1, <2>2, GoesAside
<1>2. CASE Begin(p)
  <2>1. \/ cmd(p).op = "uninstall" /\ Step(p, "next", "uninstall")
        \/ cmd(p).op # "uninstall" /\ Step(p, "next", "select")
    BY <1>2, Zenon DEF Begin
  <2>2. UNCHANGED <<scene, kills, bin, list, todo, mem, locks>>
    BY <1>2, Zenon DEF Begin
  <2>3. todo[p] # <<>>
    BY <1>2, Zenon DEF Begin
  <2> QED
    BY Zenon, <1>h, <1>1, <2>1, <2>2, <2>3 DEF Step
<1>3. CASE SelectPkg(p)
  <2>1. CASE End(p) /\ UNCHANGED <<bin, list>> /\ pc[p] = "select"
    BY Zenon, <1>h, <2>1, EndAside
  <2>2. CASE /\ Step(p, "select", IF cmd(p).op = "build" THEN "compile" ELSE "preflight")
             /\ UNCHANGED <<scene, kills, bin, list, todo, mem, locks>>
    <3>1. cmd(p).op \in {"install", "build"}
      BY Zenon, <1>w, <1>o, <2>2 DEF Step, Working, Known
    <3>2. CASE cmd(p).op = "build"
      BY Zenon, <1>h, <1>t, <1>1, <2>2, <3>2 DEF Step
    <3>3. CASE cmd(p).op = "install"
      BY Zenon, <1>h, <1>t, <1>1, <2>2, <3>3 DEF Step
    <3> QED
      BY Zenon, <3>1, <3>2, <3>3
  <2> QED
    BY <1>3, <2>1, <2>2, Zenon DEF SelectPkg, InstallUnchanged
<1>4. CASE Preflight(p)
  <2>1. CASE End(p) /\ UNCHANGED <<bin, list>> /\ pc[p] = "preflight"
    BY Zenon, <1>h, <2>1, EndAside
  <2>2. CASE /\ Step(p, "preflight", "compile")
             /\ UNCHANGED <<scene, kills, bin, list, todo, mem, locks>>
    <3>1. cmd(p).op = "install"
      BY Zenon, <1>w, <2>2 DEF Step, Working
    <3> QED
      BY Zenon, <1>h, <1>t, <1>1, <2>2, <3>1 DEF Step
  <2> QED
    BY <1>4, <2>1, <2>2, Zenon DEF Preflight, InstallUnchanged
<1>5. CASE Compile(p)
  <2>1. CASE End(p) /\ UNCHANGED <<bin, list>> /\ pc[p] = "compile"
    BY Zenon, <1>h, <2>1, EndAside
  <2>2. CASE /\ cmd(p).op = "install" /\ Step(p, "compile", "install")
             /\ mem' = [mem EXCEPT ![p].pkg =
                          <<cmd(p).key, IF cmd(p).git THEN Mine(p).tree ELSE 0>>]
             /\ UNCHANGED <<scene, kills, bin, list, todo, locks>>
    <3>1. /\ DOMAIN mem[p] = MemFields /\ mem[p].moved = {} /\ mem[p].replaced = {} /\ mem[p].result
          /\ mem[p].result \in BOOLEAN /\ pc[p] = "compile"
      BY Zenon, <1>w, <1>h, <2>2 DEF Working, Step
    <3>2. PICK r : r = IF cmd(p).git THEN Mine(p).tree ELSE 0
      BY Zenon
    <3>3. /\ DOMAIN mem'[p] = MemFields /\ mem'[p].moved = {} /\ mem'[p].replaced = {}
          /\ mem'[p].result = mem[p].result /\ mem'[p].pkg = <<cmd(p).key, r>>
          /\ Function(mem', Process) /\ \A q \in Process \ {p} : mem'[q] = mem[q]
      BY Zenon, <1>w, <2>2, <3>1, <3>2 DEF Function, MemFields
    <3>4. Packed(mem'[p], cmd(p))
      BY <2>2, <3>2, <3>3, PkgIsThere DEF Packed
    <3>5. Working(scene, bin, kills, list, "install", mem'[p], cmd(p))
      BY Zenon, <3>1, <3>3, <3>4 DEF Working, Holding, Installing
    <3>6. Goes(p, "install")
      BY Zenon, <2>2, <3>3 DEF Goes, Step, Known
    <3> QED
      BY Zenon, <1>h, <1>t, <2>2, <3>1, <3>5, <3>6, GoesAside
  <2> QED
    BY <1>5, <2>1, <2>2, Zenon DEF Compile, InstallUnchanged
<1> QED
  BY Zenon, <1>2, <1>3, <1>4, <1>5

--------------------------------------------------------------------------------
(* The steps with the lock                                                 *)

\* A step of the process that has the lock, which keeps it.
LEMMA GoesHeld ==
  ASSUME LedgerInv, NEW p \in Process, Known(p), pc[p] \in Holding, NEW l \in Holding,
         Goes(p, l), UNCHANGED locks, Working(scene, bin', kills, list', l, mem'[p], cmd(p))
  PROVE  LedgerInv'
<1>0. todo[p] # <<>>
  BY Zenon DEF Known, Holding
<1>1. Acts(p) /\ pc'[p] = l /\ todo' = todo
  BY Zenon, <1>0, GoesActs
<1>2. kills' = kills
  BY Zenon DEF Goes
<1>3. Working(scene, bin', kills', list', pc'[p], mem'[p], Head(todo'[p]))
  BY Zenon, <1>1, <1>2 DEF cmd
<1> QED
  BY Zenon, <1>1, <1>3, ActsKeep

\* A step that takes the lock.
LEMMA GoesLocked ==
  ASSUME "crates" \notin NoLocking, LedgerInv, NEW p \in Process, Known(p), NEW l \in Holding,
         Goes(p, l), pc[p] # "next", Acquire(p, "crates", "Exclusive"),
         Working(scene, bin', kills, list', l, mem'[p], cmd(p)),
         \A q \in Process \ {p} : pc[q] \notin Holding
  PROVE  LedgerInv'
<1>0. todo[p] # <<>>
  BY Zenon DEF Known
<1>1. Acts(p) /\ pc'[p] = l /\ todo' = todo
  BY Zenon, <1>0, GoesActs
<1>2. kills' = kills
  BY Zenon DEF Goes
<1>3. Working(scene, bin', kills', list', pc'[p], mem'[p], Head(todo'[p]))
  BY Zenon, <1>1, <1>2 DEF cmd
<1> QED
  BY Zenon, <1>1, <1>3, ActsKeep

\* The command that has the lock ends, and the record agrees with bin/.
LEMMA EndHeld ==
  ASSUME LedgerInv, NEW p \in Process, Known(p), pc[p] \in Holding, End(p),
         Function(bin', Bin), Settled(scene, bin', kills, list', {})
  PROVE  LedgerInv'
<1>1. todo[p] # <<>> /\ kills' = kills
  BY Zenon DEF Known, Holding, End
<1>2. Ends(p)
  BY Zenon, <1>1, EndEnds
<1> QED
  BY Zenon, <1>1, <1>2, EndsKeep

\* The lock is granted when nobody has it.
LEMMA NobodyHolds ==
  ASSUME LedgerInv, "crates" \notin NoLocking, Grantable("crates", "Exclusive")
  PROVE  (\A q \in Process : pc[q] \notin Holding) /\ Settled(scene, bin, kills, list, {})
<1>1. \A q \in Process : locks["crates"][q] # "Exclusive"
  BY Zenon DEF Grantable, Conflict
<1>2. \A q \in Process : pc[q] \notin Holding
  BY Zenon, <1>1 DEF LedgerInv, HoldInv
<1> QED
  BY Zenon, <1>2 DEF LedgerInv

\* The second check, with the lock.
LEMMA InstallStartKept ==
  ASSUME "crates" \notin NoLocking, LedgerInv, NEW p \in Process, Known(p), InstallStart(p)
  PROVE  LedgerInv'
<1>0. pc[p] = "install" /\ "install" \notin Holding /\ "new" \in Holding
  BY Zenon DEF InstallStart, Holding
<1>1. CASE End(p) /\ UNCHANGED <<bin, list>>
  BY Zenon, <1>0, <1>1, EndAside
<1> DEFINE found == find_duplicates(bin, list, cmd(p).bins)
<1>2. CASE /\ list # Unreadable /\ CheckAgain(cmd(p)) /\ Acquire(p, "crates", "Exclusive")
           /\ Step(p, "install", "new")
           /\ mem' = [mem EXCEPT ![p].owner = found, ![p].list = list,
                                 ![p].new = cmd(p).bins \ DOMAIN found, ![p].rep = DOMAIN found]
           /\ UNCHANGED <<scene, kills, bin, list, todo>>
  <2>1. (\A q \in Process : pc[q] \notin Holding) /\ Settled(scene, bin, kills, list, {})
    BY Zenon, <1>2, NobodyHolds DEF Acquire
  <2>2. PICK dup : dup = found
    BY Zenon
  <2>3. DOMAIN dup # {} => cmd(p).force
    BY Zenon, <1>2, <2>2 DEF CheckAgain, check_overwrites
  <2> HIDE DEF found
  <2>4. /\ mem'[p] = [mem[p] EXCEPT !.owner = dup, !.list = list,
                                    !.new = cmd(p).bins \ DOMAIN dup, !.rep = DOMAIN dup]
        /\ Goes(p, "new")
    BY <1>2, <2>2, Zenon DEF Goes, Step, Known, Function
  <2>5. Ledger(scene, bin, kills, list, {}, {})
    BY <1>2, <2>1, Zenon DEF Settled
  <2>6. Working(scene, bin, kills, list, "install", mem[p], cmd(p))
    BY Zenon, <1>0 DEF Known
  <2>7. Working(scene, bin, kills, list, "new", mem'[p], cmd(p))
    BY <2>2, <2>3, <2>4, <2>5, <2>6, WorkStarts, Zenon DEF found
  <2>8. Working(scene, bin', kills, list', "new", mem'[p], cmd(p))
    BY Zenon, <1>2, <2>7
  <2> QED
    BY <1>0, <1>2, <2>1, <2>4, <2>8, GoesLocked, Zenon
<1> QED
  BY <1>1, <1>2, Zenon DEF InstallStart, InstallUnchanged

--------------------------------------------------------------------------------
(* Moving the binaries                                                     *)

\* What is known of the locals of an installation that has the lock.
LEMMA Installer ==
  ASSUME NEW p \in Process, Known(p), pc[p] \in {"new", "record"}
  PROVE  /\ Function(mem, Process) /\ Function(bin, Bin) /\ pc[p] \in Holding
         /\ Working(scene, bin, kills, list, pc[p], mem[p], cmd(p))
         /\ cmd(p) \in Installs(scene, cmd(p).key) /\ cmd(p).bins \subseteq Bin
<1>1. /\ Function(mem, Process) /\ Function(bin, Bin) /\ pc[p] \in Holding /\ pc[p] # "next"
      /\ Working(scene, bin, kills, list, pc[p], mem[p], cmd(p))
  BY Zenon DEF Known, Holding
<1>2. cmd(p) \in Given(scene) /\ cmd(p) \in Command
  BY <1>1, Zenon DEF Known
<1>3. cmd(p).op = "install"
  BY Zenon, <1>1 DEF Working, Installing, Packed
<1>4. cmd(p).bins \subseteq Bin
  BY <1>2, <1>3, Zenon DEF Command
<1> QED
  BY <1>1, <1>2, <1>3, <1>4, Zenon DEF Installs

\* A binary is moved where there was none, or cannot be.
LEMMA MoveNewKept ==
  ASSUME LedgerInv, NEW p \in Process, Known(p), NEW b \in Bin, MoveNew(p, b)
  PROVE  LedgerInv'
<1>0. pc[p] = "new" /\ {"new", "undo"} \subseteq Holding /\ b \in mem[p].new
  BY Zenon DEF MoveNew, Step, Holding
<1>w. /\ Function(mem, Process) /\ Function(bin, Bin) /\ cmd(p).bins \subseteq Bin
      /\ Working(scene, bin, kills, list, "new", mem[p], cmd(p))
  BY Zenon, <1>0, Installer
<1>1. CASE /\ Step(p, "new", "new") /\ bin' = [bin EXCEPT ![b] = mem[p].pkg]
           /\ mem' = [mem EXCEPT ![p].new = @ \ {b}, ![p].moved = @ \cup {b}]
           /\ UNCHANGED <<list, todo, locks, scene, kills>>
  <2>1. mem'[p] = [mem[p] EXCEPT !.new = @ \ {b}, !.moved = @ \cup {b}]
    BY <1>w, <1>1, Zenon DEF Function
  <2>4. Goes(p, "new") /\ UNCHANGED locks
    BY <1>w, <1>1, Zenon DEF Goes, Step, Function
  <2>2. Working(scene, bin', kills, list, "new", mem'[p], cmd(p))
    <3>1. PICK C, m2 : C = bin' /\ m2 = mem'[p]
      BY Zenon
    <3>2. C = [bin EXCEPT ![b] = mem[p].pkg] /\ b \in mem[p].new
      BY Zenon, <1>0, <1>1, <3>1
    <3>3. m2 = [mem[p] EXCEPT !.new = @ \ {b}, !.moved = @ \cup {b}]
      BY Zenon, <2>1, <3>1
    <3>4. Working(scene, C, kills, list, "new", m2, cmd(p))
      BY Zenon, <1>w, <3>2, <3>3, WorkMoves
    <3> QED
      BY Zenon, <3>1, <3>4
  <2>3. Working(scene, bin', kills, list', "new", mem'[p], cmd(p))
    BY Zenon, <1>1, <2>2
  <2> QED
    BY Zenon, <1>0, <2>3, <2>4, GoesHeld
<1>2. CASE Step(p, "new", "undo") /\ UNCHANGED <<bin, mem, list, todo, locks, scene, kills>>
  <2>1. Working(scene, bin, kills, list, "undo", mem[p], cmd(p))
    BY Zenon, <1>0, <1>w, WorkStops
  <2>2. Goes(p, "undo") /\ Working(scene, bin', kills, list', "undo", mem'[p], cmd(p))
    BY Zenon, <1>w, <1>2, <2>1 DEF Goes, Step
  <2> QED
    BY Zenon, <1>0, <1>2, <2>2, GoesHeld
<1> QED
  BY <1>1, <1>2, Zenon DEF MoveNew, InstallUnchanged

\* A binary is replaced, or cannot be.
LEMMA MoveReplaceKept ==
  ASSUME LedgerInv, NEW p \in Process, Known(p), NEW b \in Bin, MoveReplace(p, b)
  PROVE  LedgerInv'
<1>0. pc[p] = "new" /\ {"new", "record"} \subseteq Holding /\ b \in mem[p].rep /\ mem[p].new = {}
  BY Zenon DEF MoveReplace, Step, Holding
<1>w. /\ Function(mem, Process) /\ Function(bin, Bin) /\ cmd(p).bins \subseteq Bin
      /\ Working(scene, bin, kills, list, "new", mem[p], cmd(p))
  BY Zenon, <1>0, Installer
<1>1. CASE /\ Step(p, "new", "new") /\ bin' = [bin EXCEPT ![b] = mem[p].pkg]
           /\ mem' = [mem EXCEPT ![p].rep = @ \ {b}, ![p].replaced = @ \cup {b}]
           /\ UNCHANGED <<list, todo, locks, scene, kills>>
  <2>1. mem'[p] = [mem[p] EXCEPT !.rep = @ \ {b}, !.replaced = @ \cup {b}]
    BY <1>w, <1>1, Zenon DEF Function
  <2>4. Goes(p, "new") /\ UNCHANGED locks
    BY <1>w, <1>1, Zenon DEF Goes, Step, Function
  <2>2. Working(scene, bin', kills, list, "new", mem'[p], cmd(p))
    <3>1. PICK C, m2 : C = bin' /\ m2 = mem'[p]
      BY Zenon
    <3>2. C = [bin EXCEPT ![b] = mem[p].pkg] /\ b \in mem[p].rep
      BY Zenon, <1>0, <1>1, <3>1
    <3>3. m2 = [mem[p] EXCEPT !.rep = @ \ {b}, !.replaced = @ \cup {b}]
      BY Zenon, <2>1, <3>1
    <3>4. Working(scene, C, kills, list, "new", m2, cmd(p))
      BY Zenon, <1>0, <1>w, <3>2, <3>3, WorkReplaces
    <3> QED
      BY Zenon, <3>1, <3>4
  <2>3. Working(scene, bin', kills, list', "new", mem'[p], cmd(p))
    BY Zenon, <1>1, <2>2
  <2> QED
    BY Zenon, <1>0, <2>3, <2>4, GoesHeld
<1>2. CASE /\ May("move") /\ Step(p, "new", "record") /\ UNCHANGED <<bin, list, todo, locks, scene, kills>>
           /\ mem' = [mem EXCEPT ![p].result = FALSE]
  <2>1. mem'[p] = [mem[p] EXCEPT !.result = FALSE]
    BY <1>w, <1>2, Zenon DEF Function
  <2>4. Goes(p, "record") /\ UNCHANGED locks
    BY <1>w, <1>2, Zenon DEF Goes, Step, Function
  <2>2. Working(scene, bin, kills, list, "record", mem'[p], cmd(p))
    BY <1>w, <1>2, <2>1, WorkFails, Zenon DEF May
  <2>3. Working(scene, bin', kills, list', "record", mem'[p], cmd(p))
    BY Zenon, <1>2, <2>2
  <2> QED
    BY Zenon, <1>0, <2>3, <2>4, GoesHeld
<1> QED
  BY <1>1, <1>2, Zenon DEF MoveReplace, InstallUnchanged

\* The record is written when all are in place, or as many as could be moved.
LEMMA TruncateKept ==
  ASSUME LedgerInv, NEW p \in Process, Known(p), Truncate(p)
  PROVE  LedgerInv'
<1>0. /\ pc[p] \in {"new", "record"} /\ pc' = [pc EXCEPT ![p] = "write"]
      /\ pc[p] = "new" => mem[p].new = {} /\ mem[p].rep = {}
      /\ list' = Listing({}) /\ mem' = [mem EXCEPT ![p].list = Recorded(mem[p])]
      /\ UNCHANGED <<bin, todo, locks, scene, kills>>
  BY Zenon DEF Truncate, Step, InstallUnchanged
<1>w. /\ Function(mem, Process) /\ Function(bin, Bin) /\ pc[p] \in Holding
      /\ Working(scene, bin, kills, list, pc[p], mem[p], cmd(p))
      /\ cmd(p) \in Installs(scene, cmd(p).key) /\ cmd(p).bins \subseteq Bin
  BY Zenon, <1>0, Installer
<1>1. mem'[p] = [mem[p] EXCEPT !.list = Recorded(mem[p])] /\ Goes(p, "write")
  BY <1>0, <1>w, Zenon DEF Goes, Function
<1>2. Working(scene, bin, kills, Listing({}), "write", mem'[p], cmd(p))
  BY <1>0, <1>w, <1>1, WorkRecords
<1>3. Working(scene, bin', kills, list', "write", mem'[p], cmd(p)) /\ "write" \in Holding
  BY Zenon, <1>0, <1>2 DEF Holding
<1> QED
  BY Zenon, <1>0, <1>w, <1>1, <1>3, GoesHeld

\* The file is written, or cannot be.
LEMMA WriteKept ==
  ASSUME LedgerInv, NEW p \in Process, Known(p), Write(p)
  PROVE  LedgerInv'
<1>0. /\ pc[p] = "write"
      /\ pc' = [pc EXCEPT ![p] = IF mem[p].result THEN "success" ELSE "undo"]
      /\ list' = mem[p].list \/ ("write" \in scene.may /\ list' \in {list, Unreadable})
      /\ UNCHANGED <<bin, todo, mem, locks, scene, kills>>
  BY Zenon DEF Write, Step, InstallUnchanged, May
<1>h. {"write", "success", "undo"} \subseteq Holding
  BY Zenon DEF Holding
<1>w. /\ Working(scene, bin, kills, list, "write", mem[p], cmd(p)) /\ Function(mem, Process)
      /\ Function(bin, Bin)
  BY Zenon, <1>0 DEF Known
<1>1. PICK l : l = IF mem[p].result THEN "success" ELSE "undo"
  BY Zenon
<1>2. Working(scene, bin, kills, list', l, mem[p], cmd(p))
  BY <1>0, <1>w, <1>1, WorkWrites, Zenon
<1>3. Goes(p, l) /\ l \in Holding /\ Working(scene, bin', kills, list', l, mem'[p], cmd(p))
  BY Zenon, <1>0, <1>h, <1>w, <1>1, <1>2 DEF Goes
<1> QED
  BY Zenon, <1>0, <1>h, <1>3, GoesHeld

\* The transaction ends.
LEMMA TransactionKept ==
  ASSUME LedgerInv, NEW p \in Process, Known(p), Undo(p) \/ Success(p)
  PROVE  LedgerInv'
<1>1. CASE Undo(p)
  <2>1. /\ pc[p] = "undo" /\ End(p) /\ list' = list
        /\ bin' = [b \in Bin |-> IF b \in mem[p].moved THEN Absent ELSE bin[b]]
    BY Zenon, <1>1 DEF Undo
  <2>2. Settled(scene, bin, kills, list, mem[p].moved)
    BY Zenon, <2>1 DEF Known, Working
  <2>3. Function(bin', Bin) /\ \A b \in Bin : bin'[b] = IF b \in mem[p].moved THEN Absent ELSE bin[b]
    BY Zenon, <2>1 DEF Function
  <2>4. Settled(scene, bin', kills, list, mem[p].moved \ mem[p].moved)
    BY Zenon, <2>2, <2>3, TakeAway
  <2>5. Settled(scene, bin', kills, list', {})
    <3>1. mem[p].moved \ mem[p].moved = {}
      BY Zenon
    <3> QED
      BY Zenon, <2>1, <2>4, <3>1
  <2>6. pc[p] \in Holding
    BY Zenon, <2>1 DEF Holding
  <2> QED
    BY Zenon, <2>1, <2>3, <2>5, <2>6, EndHeld
<1>2. CASE Success(p)
  <2>1. pc[p] = "success" /\ End(p) /\ bin' = bin /\ list' = list
    BY Zenon, <1>2 DEF Success
  <2>2. Settled(scene, bin, kills, list, {}) /\ Function(bin, Bin) /\ pc[p] \in Holding
    BY Zenon, <2>1 DEF Known, Working, Holding
  <2> QED
    BY Zenon, <2>1, <2>2, EndHeld
<1> QED
  BY Zenon, <1>1, <1>2

--------------------------------------------------------------------------------
(* Uninstallation, and kills                                               *)

\* An uninstallation takes the lock and strikes the binaries out of what it is
\* about to write.
LEMMA UninstallKept ==
  ASSUME "crates" \notin NoLocking, LedgerInv, NEW p \in Process, Known(p), Uninstall(p)
  PROVE  LedgerInv'
<1>0. pc[p] = "uninstall" /\ Grantable("crates", "Exclusive") /\ bin' = bin
  BY Zenon DEF Uninstall
<1>h. "uninstall" \notin Holding /\ "uwrite" \in Holding
  BY Zenon DEF Holding
<1>1. CASE End(p) /\ UNCHANGED <<bin, list>>
  BY Zenon, <1>0, <1>h, <1>1, EndAside
<1> DEFINE k == CHOOSE j \in Named(p) : TRUE
           gone == IF cmd(p).bins = {} THEN list[k].bins ELSE cmd(p).bins
<1>2. CASE /\ list # Unreadable /\ \E j \in Named(p) : Named(p) = {j}
           /\ \A j \in Named(p) : ~CorruptMetadata(j) /\ cmd(p).bins \subseteq list[j].bins
           /\ Acquire(p, "crates", "Exclusive") /\ Step(p, "uninstall", "uwrite")
           /\ mem' = [mem EXCEPT ![p].moved = gone, ![p].pkg = <<k, list[k].rev>>,
                                 ![p].list = Struck(list, k, gone)]
           /\ list' = Listing({}) /\ UNCHANGED <<todo, bin, scene, kills>>
  <2>1. (\A q \in Process : pc[q] \notin Holding) /\ Settled(scene, bin, kills, list, {})
    BY Zenon, <1>0, NobodyHolds
  <2>2. Ledger(scene, bin, kills, list, {}, {})
    BY <1>2, <2>1, Zenon DEF Settled
  <2>3. Named(p) # {}
    BY <1>2, Zenon
  <2>4. PICK key \in DOMAIN list : key = k /\ key \in Named(p)
    BY Zenon, <2>3 DEF Named
  <2>5. PICK away : away = gone
    <3> HIDE DEF gone
    <3> QED
      BY Zenon
  <2>6. away \subseteq list[key].bins
    BY <1>2, <2>4, <2>5, Zenon
  <2>7. Working(scene, bin, kills, list, "uninstall", mem[p], cmd(p)) /\ Function(mem, Process)
    BY Zenon, <1>0 DEF Known
  <2>8. mem' = [mem EXCEPT ![p].moved = away, ![p].pkg = <<key, list[key].rev>>,
                           ![p].list = Struck(list, key, away)]
    BY <1>2, <2>4, <2>5, Zenon
  <2>9. /\ mem'[p] = [mem[p] EXCEPT !.moved = away, !.pkg = <<key, list[key].rev>>,
                                    !.list = Struck(list, key, away)]
        /\ Goes(p, "uwrite")
    BY <1>2, <2>7, <2>8, Zenon DEF Goes, Step, Known, Function
  <2>10. Working(scene, bin, kills, Listing({}), "uwrite", mem'[p], cmd(p))
    BY <2>2, <2>6, <2>7, <2>9, WorkStrikes, Zenon
  <2>11. Working(scene, bin', kills, list', "uwrite", mem'[p], cmd(p))
    BY <1>0, <1>2, <2>10, Zenon
  <2> QED
    BY <1>0, <1>2, <1>h, <2>1, <2>9, <2>11, GoesLocked, Zenon
<1> QED
  BY <1>1, <1>2, Zenon DEF Uninstall, InstallUnchanged

\* The file is written before anything is removed.
LEMMA UninstallWriteKept ==
  ASSUME LedgerInv, NEW p \in Process, Known(p), UninstallWrite(p)
  PROVE  LedgerInv'
<1>0. pc[p] = "uwrite" /\ bin' = bin /\ {"uwrite", "remove"} \subseteq Holding
  BY Zenon DEF UninstallWrite, Holding
<1>w. /\ Working(scene, bin, kills, list, "uwrite", mem[p], cmd(p)) /\ Function(mem, Process)
      /\ Function(bin, Bin)
  BY Zenon, <1>0 DEF Known
<1>1. /\ Working(scene, bin, kills, mem[p].list, "remove", mem[p], cmd(p))
      /\ May("write") => \A M \in {list, Unreadable} : Settled(scene, bin, kills, M, {})
  BY <1>w, WorkStruck, Zenon DEF May
<1>2. CASE /\ list' = mem[p].list /\ Step(p, "uwrite", "remove")
           /\ UNCHANGED <<todo, mem, locks, scene, kills>>
  <2>1. Goes(p, "remove") /\ Working(scene, bin', kills, list', "remove", mem'[p], cmd(p))
    BY Zenon, <1>0, <1>w, <1>1, <1>2 DEF Goes, Step
  <2> QED
    BY Zenon, <1>0, <1>2, <2>1, GoesHeld
<1>3. CASE May("write") /\ list' \in {list, Unreadable} /\ End(p)
  <2>1. Settled(scene, bin', kills, list', {})
    BY Zenon, <1>0, <1>1, <1>3
  <2> QED
    BY Zenon, <1>0, <1>w, <1>3, <2>1, EndHeld
<1> QED
  BY <1>2, <1>3, Zenon DEF UninstallWrite, InstallUnchanged

\* A binary is removed, or cannot be; the command ends when all are.
LEMMA RemoveFileKept ==
  ASSUME LedgerInv, NEW p \in Process, Known(p), RemoveFile(p)
  PROVE  LedgerInv'
<1>0. pc[p] = "remove" /\ list' = list /\ "remove" \in Holding
  BY Zenon DEF RemoveFile, Holding
<1>w. /\ Working(scene, bin, kills, list, "remove", mem[p], cmd(p)) /\ Function(mem, Process)
      /\ Function(bin, Bin) /\ Function(pc, Process)
  BY Zenon, <1>0 DEF Known
<1>1. Settled(scene, bin, kills, list, mem[p].moved)
  BY Zenon, <1>w DEF Working
<1>2. CASE mem[p].moved = {} /\ End(p) /\ UNCHANGED bin
  BY Zenon, <1>0, <1>w, <1>1, <1>2, EndHeld
<1>3. ASSUME NEW b \in mem[p].moved, bin' = [bin EXCEPT ![b] = Absent],
             mem' = [mem EXCEPT ![p].moved = @ \ {b}], UNCHANGED <<pc, todo, locks, scene, kills>>
      PROVE  LedgerInv'
  <2>1. mem'[p] = [mem[p] EXCEPT !.moved = @ \ {b}]
    BY <1>w, <1>3, Zenon DEF Function
  <2>4. Goes(p, "remove") /\ UNCHANGED locks
    BY <1>0, <1>w, <1>3, Zenon DEF Goes, Function
  <2>2. Working(scene, bin', kills, list, "remove", mem'[p], cmd(p))
    <3>1. PICK C, m2 : C = bin' /\ m2 = mem'[p]
      BY Zenon
    <3>2. C = [bin EXCEPT ![b] = Absent] /\ b \in mem[p].moved
      BY Zenon, <1>0, <1>3, <3>1
    <3>3. m2 = [mem[p] EXCEPT !.moved = @ \ {b}]
      BY Zenon, <2>1, <3>1
    <3>4. Working(scene, C, kills, list, "remove", m2, cmd(p))
      BY Zenon, <1>w, <3>2, <3>3, WorkRemoves
    <3> QED
      BY Zenon, <3>1, <3>4
  <2>3. Working(scene, bin', kills, list', "remove", mem'[p], cmd(p))
    BY Zenon, <1>0, <2>2
  <2> QED
    BY Zenon, <1>0, <2>3, <2>4, GoesHeld
<1>4. CASE May("remove") /\ End(p) /\ UNCHANGED bin
  <2>1. Settled(scene, bin, kills, list, {})
    BY Zenon, <1>1, <1>4 DEF Settled, Ledger, Apart, May
  <2> QED
    BY Zenon, <1>0, <1>w, <1>4, <2>1, EndHeld
<1> QED
  BY <1>2, <1>3, <1>4, Zenon DEF RemoveFile, InstallUnchanged

\* A process is killed.  With the lock it may leave binaries that are not
\* recorded, or an empty file, but no record of a binary that is not there.
LEMMA KillKept ==
  ASSUME LedgerInv, NEW p \in Process, Known(p), Kill(p)
  PROVE  LedgerInv'
<1>1. /\ pc' = [pc EXCEPT ![p] = "next"] /\ mem' = [mem EXCEPT ![p] = NoMem] /\ ReleaseAll(p)
      /\ todo' = [todo EXCEPT ![p] = <<>>] /\ scene' = scene /\ kills' = kills + 1
      /\ bin' = bin /\ list' = list
  BY Zenon DEF Kill
<1>2. kills' # 0 /\ kills' \in Nat /\ Function(bin, Bin) /\ todo \in [Process -> Seq(Given(scene))]
  BY <1>1 DEF Known
<1>3. /\ todo' \in [Process -> Seq(Given(scene))] /\ \A q \in Process \ {p} : todo'[q] = todo[q]
  BY <1>1, <1>2
<1>4. Ends(p)
  BY Zenon, <1>1, <1>2, <1>3 DEF Ends
<1>5. ASSUME pc[p] \in Holding PROVE Settled(scene, bin', kills', list', {})
  <2>1. list = Unreadable \/ Whole(scene, bin, list)
    BY Zenon, <1>5, HeldWhole DEF Known
  <2>2. Whole(scene, bin, list) => Ledger(scene, bin, kills', list, {}, {})
    BY Zenon, <1>2, KilledLedger
  <2> QED
    BY Zenon, <1>1, <2>1, <2>2 DEF Settled, Apart
<1> QED
  BY Zenon, <1>1, <1>4, <1>5, EndsKeep

--------------------------------------------------------------------------------
(* The theorems                                                            *)

\* There is nothing at the start, and the commands are those of the scene.
LEMMA LedgerInvInit == Init => LedgerInv
<1> SUFFICES ASSUME Init PROVE LedgerInv
  BY Zenon
<1>1. /\ bin = [b \in Bin |-> Absent] /\ list = Listing({}) /\ scene \in Scenes
      /\ pc = [p \in Process |-> "next"] /\ mem = [p \in Process |-> NoMem]
      /\ todo = [p \in Process |-> scene.prog[p]]
  BY Zenon DEF Init
<1>2. todo \in [Process -> Seq(Given(scene))]
  BY Zenon, <1>1, GivenCommands
<1>3. Function(bin, Bin) /\ Function(mem, Process) /\ Function(pc, Process) /\ HoldInv
  BY Zenon, <1>1 DEF Function, HoldInv, Holding
<1>6. LocksTyped /\ kills \in Nat /\ \A p \in Process : pc[p] = "next"
  BY Zenon, <1>1 DEF Init, FileLockInit, GitInit, LocksTyped, State
<1>4. \A p \in Process : Working(scene, bin, kills, list, pc[p], mem[p], cmd(p))
  BY Zenon, <1>1, NextWorking
<1>5. Settled(scene, bin, kills, list, {})
  <2>1. Whole(scene, bin, list) /\ Owned(scene, bin, list, {}) /\ Apart(list, {})
    BY Zenon, <1>1, EmptyWhole
  <2>2. Listed(bin, list, {})
    BY Zenon, <1>1 DEF Listed
  <2> QED
    BY Zenon, <2>1, <2>2 DEF Settled, Ledger
<1> QED
  BY Zenon, <1>1, <1>2, <1>3, <1>4, <1>5, <1>6 DEF LedgerInv

\* Every step keeps the invariant.
LEMMA LedgerInvStep ==
  ASSUME "crates" \notin NoLocking, LedgerInv, [Next]_vars
  PROVE  LedgerInv'
<1>1. ASSUME NEW p \in Process, Run(p) \/ Kill(p) PROVE LedgerInv'
  <2>1. Known(p)
    BY Zenon, KnownHolds
  <2>2. CASE GitStep(p) /\ UNCHANGED <<scene, kills, ivars>>
    BY Zenon, <2>2, UpdateAside
  <2>3. CASE Begin(p) \/ SelectPkg(p) \/ Preflight(p) \/ Compile(p)
    BY Zenon, <2>1, <2>3, CommandAside
  <2>4. CASE InstallStart(p)
    BY Zenon, <2>1, <2>4, InstallStartKept
  <2>5. CASE \E b \in Bin : MoveNew(p, b) \/ MoveReplace(p, b)
    BY Zenon, <2>1, <2>5, MoveNewKept, MoveReplaceKept
  <2>6. CASE Truncate(p) \/ Write(p)
    BY Zenon, <2>1, <2>6, TruncateKept, WriteKept
  <2>7. CASE Undo(p) \/ Success(p)
    BY Zenon, <2>1, <2>7, TransactionKept
  <2>8. CASE Uninstall(p)
    BY Zenon, <2>1, <2>8, UninstallKept
  <2>9. CASE UninstallWrite(p) \/ RemoveFile(p)
    BY Zenon, <2>1, <2>9, UninstallWriteKept, RemoveFileKept
  <2>10. CASE Kill(p)
    BY Zenon, <2>1, <2>10, KillKept
  <2> QED
    BY <1>1, <2>2, <2>3, <2>4, <2>5, <2>6, <2>7, <2>8, <2>9, <2>10, Zenon DEF Run
<1>2. CASE (Push /\ UNCHANGED <<scene, locks, kills, ivars>>) \/ UNCHANGED vars
  <2>1. UNCHANGED <<scene, kills, bin, list, pc, todo, mem, locks>>
    BY Zenon, <1>2 DEF vars, ivars
  <2> QED
    BY Zenon, <2>1, Untouched DEF LedgerInv, LocksTyped
<1> QED
  BY <1>1, <1>2, Zenon DEF Next, Done

\* The record of an installation root and its bin/, step by step: for any
\* processes, packages, binaries and commands, whatever fails and whoever is
\* killed, the file lists binaries that exist, but for the empty file that is
\* about to be written and those the holder of the lock is working on.
THEOREM LedgerInvariant == "crates" \notin NoLocking => (Spec => []LedgerInv)
<1> SUFFICES ASSUME "crates" \notin NoLocking PROVE Spec => []LedgerInv
  BY Zenon
<1>1. Init => LedgerInv
  BY Zenon, LedgerInvInit
<1>2. LedgerInv /\ [Next]_vars => LedgerInv'
  BY Zenon, LedgerInvStep
<1> QED
  BY <1>1, <1>2, PTL DEF Spec

\* The record is true to bin/: LedgerTrue, for any processes and commands.
THEOREM RecordIsTrue == "crates" \notin NoLocking => (Spec => []LedgerTrue)
<1> SUFFICES ASSUME "crates" \notin NoLocking PROVE Spec => []LedgerTrue
  BY Zenon
<1>1. LedgerInv => LedgerTrue
  <2> SUFFICES ASSUME LedgerInv, list # Unreadable
               PROVE  /\ \A k \in DOMAIN list :
                           /\ list[k].bins # {} /\ ~CorruptMetadata(k)
                           /\ \A j \in DOMAIN list \ {k} : list[j].bins \cap list[k].bins = {}
                      /\ Quiet /\ kills = 0 => /\ Owned(scene, bin, list, {})
                                               /\ scene.may \cap {"write", "remove"} = {} =>
                                                    Listed(bin, list, {})
    BY Zenon DEF LedgerTrue, Owned, Listed, May
  <2>1. Whole(scene, bin, list)
    <3>1. CASE \E p \in Process : pc[p] \in Holding
      BY Zenon, <3>1, HeldWhole DEF LedgerInv
    <3>2. CASE \A p \in Process : pc[p] \notin Holding
      BY Zenon, <3>2 DEF LedgerInv, Settled, Ledger
    <3> QED
      BY Zenon, <3>1, <3>2
  <2>2. \A k \in DOMAIN list :
          /\ list[k].bins # {} /\ ~CorruptMetadata(k)
          /\ \A j \in DOMAIN list \ {k} : list[j].bins \cap list[k].bins = {}
    BY Zenon, <2>1 DEF Whole, CorruptMetadata
  <2>3. ASSUME Quiet PROVE Ledger(scene, bin, kills, list, {}, {})
    <3>1. \A p \in Process : pc[p] \notin Holding
      BY Zenon, <2>3 DEF Quiet, LedgerInv, HoldInv
    <3> QED
      BY Zenon, <3>1 DEF LedgerInv, Settled
  <2> QED
    BY Zenon, <2>2, <2>3 DEF Ledger
<1> QED
  BY <1>1, LedgerInvariant, PTL

\* No binary is lost: NothingLost, for any processes and commands.  What was
\* found when the check was made again is still so when a binary is moved,
\* because the lock is held from that check on.
THEOREM NoBinaryLost == "crates" \notin NoLocking => (Spec => NothingLost)
<1> SUFFICES ASSUME "crates" \notin NoLocking PROVE Spec => NothingLost
  BY Zenon
<1> DEFINE Kept == \A b \in Bin : bin[b] # Absent /\ bin'[b] # bin[b] =>
       \E p \in Process :
         /\ locks["crates"][p] = "Exclusive"
         /\ \/ cmd(p).op = "install" /\ cmd(p).force /\ b \in mem[p].rep
            \/ cmd(p).op = "install" /\ b \in mem[p].moved /\ bin[b] = mem[p].pkg
            \/ cmd(p).op = "uninstall" /\ (kills = 0 => bin[b][1] = mem[p].pkg[1])
<1>1. LedgerInv /\ [Next]_vars => Kept
  <2> SUFFICES ASSUME LedgerInv, [Next]_vars, NEW b \in Bin, bin[b] # Absent, bin'[b] # bin[b]
               PROVE  \E p \in Process :
                        /\ locks["crates"][p] = "Exclusive"
                        /\ \/ cmd(p).op = "install" /\ cmd(p).force /\ b \in mem[p].rep
                           \/ cmd(p).op = "install" /\ b \in mem[p].moved /\ bin[b] = mem[p].pkg
                           \/ cmd(p).op = "uninstall" /\ (kills = 0 => bin[b][1] = mem[p].pkg[1])
    BY Zenon DEF Kept
  <2>1. PICK p \in Process : \/ \E a \in Bin : MoveNew(p, a) \/ MoveReplace(p, a)
                             \/ Undo(p) \/ RemoveFile(p)
    BY Zenon DEF Next, Done, vars, ivars, Run, Kill, Begin, SelectPkg, Preflight, Compile,
                 InstallStart, Truncate, Write, Success, Uninstall, UninstallWrite
  <2>2. Known(p)
    BY Zenon, KnownHolds
  <2>3. /\ Working(scene, bin, kills, list, pc[p], mem[p], cmd(p)) /\ Function(bin, Bin)
        /\ pc[p] \in Holding => locks["crates"][p] = "Exclusive"
    BY Zenon, <2>2 DEF Known
  <2>4. ASSUME NEW a \in Bin, MoveNew(p, a) PROVE FALSE
    <3>1. pc[p] = "new" /\ a \in mem[p].new /\ bin' \in {bin, [bin EXCEPT ![a] = mem[p].pkg]}
      BY Zenon, <2>4 DEF MoveNew, Step
    <3>2. bin[a] = Absent
      BY Zenon, <2>3, <3>1 DEF Working, Moving
    <3> QED
      BY Zenon, <2>3, <3>1, <3>2 DEF Function
  <2>5. ASSUME NEW a \in Bin, MoveReplace(p, a)
        PROVE  /\ locks["crates"][p] = "Exclusive"
               /\ cmd(p).op = "install" /\ cmd(p).force /\ b \in mem[p].rep
    <3>1. pc[p] = "new" /\ a \in mem[p].rep /\ bin' \in {bin, [bin EXCEPT ![a] = mem[p].pkg]}
      BY Zenon, <2>5 DEF MoveReplace, Step
    <3>2. cmd(p).op = "install" /\ cmd(p).force /\ locks["crates"][p] = "Exclusive"
      BY Zenon, <2>3, <3>1 DEF Working, Moving, Installing, Packed, Holding
    <3>3. a = b
      BY Zenon, <2>3, <3>1 DEF Function
    <3> QED
      BY Zenon, <3>1, <3>2, <3>3
  <2>6. ASSUME Undo(p)
        PROVE  /\ locks["crates"][p] = "Exclusive"
               /\ cmd(p).op = "install" /\ b \in mem[p].moved /\ bin[b] = mem[p].pkg
    <3>1. pc[p] = "undo" /\ bin' = [c \in Bin |-> IF c \in mem[p].moved THEN Absent ELSE bin[c]]
      BY Zenon, <2>6 DEF Undo
    <3>2. b \in mem[p].moved
      BY Zenon, <3>1
    <3> QED
      BY <2>3, <3>1, <3>2, Zenon DEF Working, Installing, Packed, Holding
  <2>7. ASSUME RemoveFile(p)
        PROVE  /\ locks["crates"][p] = "Exclusive"
               /\ cmd(p).op = "uninstall" /\ (kills = 0 => bin[b][1] = mem[p].pkg[1])
    <3>1. pc[p] = "remove" /\ (bin' = bin \/ \E a \in mem[p].moved : bin' = [bin EXCEPT ![a] = Absent])
      BY <2>7, Zenon DEF RemoveFile
    <3>2. PICK a \in mem[p].moved : bin' = [bin EXCEPT ![a] = Absent]
      BY Zenon, <3>1
    <3>3. b \in mem[p].moved
      BY Zenon, <2>3, <3>2 DEF Function
    <3> QED
      BY Zenon, <2>3, <3>1, <3>3 DEF Working, Theirs, Holding
  <2> QED
    BY <2>1, <2>4, <2>5, <2>6, <2>7, Zenon
<1>2. Spec => []LedgerInv
  BY Zenon, LedgerInvariant
<1> QED
  BY <1>1, <1>2, PTL DEF Spec, NothingLost
================================================================================
