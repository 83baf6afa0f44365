----------------------------- MODULE CrateListing -----------------------------
(***************************************************************************)
(* ops/cargo_install.rs: CrateListingV1, the record of who installed which *)
(* binary, and what an installation and an uninstallation make of it.  A   *)
(* package has a key and, from git, a precise revision that takes no part  *)
(* in comparisons: a listing maps a key to the revision recorded and to    *)
(* the binaries.  B stands for what bin/ holds, L for a listing.           *)
(***************************************************************************)
CONSTANT Bin

Absent == <<>>
Listing(s) == [k \in s |-> [rev |-> 0, bins |-> {}]]
Unreadable == Listing({"?"})  \* a file that was not written to its end

\* find_duplicates: the binaries that exist, and the package each belongs to.
find_duplicates(B, L, bs) ==
  [b \in {c \in bs : B[c] # Absent} |->
     IF \E k \in DOMAIN L : b \in L[k].bins
     THEN {CHOOSE k \in DOMAIN L : b \in L[k].bins} ELSE {}]

Recorded_keeping_owner(m) ==
  LET pkg == m.pkg[1]
      add == m.replaced \cup (IF m.result THEN m.moved ELSE {})
      had(k) == IF k \in DOMAIN m.list THEN m.list[k].bins ELSE {}
      now(k) == IF k = pkg THEN had(k) \cup add ELSE had(k)
      label(k) == IF k = pkg /\ (m.replaced # {} \/ k \notin DOMAIN m.list) THEN m.pkg[2]
                  ELSE m.list[k].rev
  IN  [k \in {j \in DOMAIN m.list \cup {pkg} : now(j) # {}} |-> [rev |-> label(k), bins |-> now(k)]]

\* What install_one, with the locals m, records: the binaries replaced go from
\* their old package to this one, whose revision is renewed; packages without
\* binaries go; and the new binaries are recorded if all went well.
Recorded(m) ==
  LET pkg == m.pkg[1]
      add == m.replaced \cup (IF m.result THEN m.moved ELSE {})
      had(k) == IF k \in DOMAIN m.list THEN m.list[k].bins ELSE {}
      left(k) == had(k) \ {b \in m.replaced : k \in m.owner[b]}
      now(k) == IF k = pkg THEN left(k) \cup add ELSE left(k)
      label(k) == IF k = pkg /\ (m.replaced # {} \/ k \notin DOMAIN m.list) THEN m.pkg[2]
                  ELSE m.list[k].rev
  IN  [k \in {j \in DOMAIN m.list \cup {pkg} : now(j) # {}} |-> [rev |-> label(k), bins |-> now(k)]]

\* uninstall_pkgid: binaries of package k are struck out, and so is k with its
\* last one.
Struck(L, k, gone) ==
  LET rest == [L EXCEPT ![k].bins = @ \ gone]
  IN  [j \in {i \in DOMAIN rest : rest[i].bins # {}} |-> rest[j]]

\* One revision is recorded for all the binaries of a package from git.  It is
\* that of the last command, and so not always theirs when scene s has commands
\* that name different binaries of the package.
Given(s) == UNION {{s.prog[p][i] : i \in DOMAIN s.prog[p]} : p \in DOMAIN s.prog}
Installs(s, k) == {c \in Given(s) : c.op = "install" /\ c.key = k}
InParts(s, k) == \E c, d \in Installs(s, k) : c.git /\ c.bins # d.bins
===============================================================================
