------------------------------- MODULE Install -------------------------------
(***************************************************************************)
(* ops/cargo_install.rs: cargo install and cargo uninstall.  Several       *)
(* processes share one installation root: the binaries in bin/, and the    *)
(* record of who installed them in .crates.toml, whose lock is taken twice *)
(* by an installation, before and after it compiles.  A package from git   *)
(* is compiled from a checkout of GitSource.                               *)
(*                                                                         *)
(* A process runs a list of commands, as `cargo install a b` does: a       *)
(* failure does not keep the next one from being tried.  A package id is a *)
(* key and, for git, a precise revision that takes no part in comparisons. *)
(* Target directories, the --root option and messages are left out.        *)
(***************************************************************************)
EXTENDS GitSource, CrateListing, Sequences

CONSTANTS Key, Name  \* Name: key -> the name in it

(***************************************************************************)
(* A command is an installation, [op |-> "install", key, bins, force, git, *)
(* want], where git says whether it is from git and want the reference; an *)
(* uninstallation, [op |-> "uninstall", name, bins], where no bins are all *)
(* of them; or the build of a package that depends on the git repository,  *)
(* [op |-> "build", want].  What may go wrong: "select", the package;      *)
(* "compile"; "move", a binary into place; "write", the record; "remove",  *)
(* a binary.                                                               *)
(***************************************************************************)
Command ==
  [op : {"install"}, key : Key, bins : SUBSET Bin, force : BOOLEAN, git : {FALSE}]
    \cup [op : {"install"}, key : Key, bins : SUBSET Bin, force : BOOLEAN, git : {TRUE},
          want : Reference]
    \cup [op : {"uninstall"}, name : STRING, bins : SUBSET Bin]
    \cup [op : {"build"}, want : Reference]

ASSUME InstallAssumption ==
  /\ File = {"git", "crates"}
  /\ Name \in [Key -> {Name[k] : k \in Key}]
  /\ \A s \in Scenes : s.prog \in [Process -> Seq(Command)]

VARIABLES
  bin,    \* binary -> the package it is of, <<>> when there is none
  list,   \* .crates.toml: key -> its revision and binaries
  pc,     \* process -> where it is in its current command
  todo,   \* process -> the commands left
  mem     \* process -> the locals of install_one and uninstall_pkgid

ivars == <<bin, list, pc, todo, mem>>
vars == <<scene, locks, gitvars, kills, ivars>>

NoMem == [new |-> {}, rep |-> {}, moved |-> {}, replaced |-> {}, owner |-> [b \in {} |-> 0],
          list |-> Listing({}), result |-> TRUE, pkg |-> Absent]

Init ==
  /\ scene \in Scenes
  /\ FileLockInit /\ GitInit
  /\ bin = [b \in Bin |-> Absent]
  /\ list = Listing({})
  /\ pc = [p \in Process |-> "next"]
  /\ todo = [p \in Process |-> scene.prog[p]]
  /\ mem = [p \in Process |-> NoMem]

cmd(p) == Head(todo[p])
May(what) == what \in scene.may
Step(p, from, to) == pc[p] = from /\ pc' = [pc EXCEPT ![p] = to]
InstallUnchanged == UNCHANGED <<scene, gitvars, kills>>

\* The command is over, with its locals and its locks.
EndOfCommand(p) ==
  /\ pc' = [pc EXCEPT ![p] = "next"]
  /\ todo' = [todo EXCEPT ![p] = Tail(@)]
  /\ mem' = [mem EXCEPT ![p] = NoMem]
  /\ gpc' = [gpc EXCEPT ![p] = "none"]
  /\ ReleaseAll(p)

End(p) ==
  /\ EndOfCommand(p)
  /\ UNCHANGED <<scene, upstream, db, co, want, fetchTo, rev, reinited, retries, netfailed, kills>>

(***************************************************************************)
(* install_one                                                             *)
(***************************************************************************)
\* The source of the package is loaded and, for git, updated.
Begin(p) ==
  /\ todo[p] # <<>>
  /\ IF cmd(p).op = "uninstall" THEN Step(p, "next", "uninstall") /\ UNCHANGED gitvars
     ELSE IF cmd(p).op = "install" /\ ~cmd(p).git
          THEN Step(p, "next", "select") /\ UNCHANGED gitvars
          ELSE Step(p, "next", "select") /\ StartUpdate(p, cmd(p).want)
  /\ UNCHANGED <<scene, locks, kills, bin, list, todo, mem>>

\* select_pkg: one package, unless its source failed to update, or has none or
\* several that answer the name and version given.
SelectPkg(p) ==
  /\ pc[p] = "select"
  /\ \/ gpc[p] = "failed" /\ End(p)
     \/ gpc[p] \in {"none", "using"} /\ May("select") /\ End(p)
     \/ /\ gpc[p] \in {"none", "using"}
        /\ Step(p, "select", IF cmd(p).op = "build" THEN "compile" ELSE "preflight")
        /\ UNCHANGED <<todo, mem, locks>> /\ InstallUnchanged
  /\ UNCHANGED <<bin, list>>

check_overwrites(c) == c.bins # {} /\ (c.force \/ DOMAIN find_duplicates(bin, list, c.bins) = {})

\* The checks made before anything is compiled; the lock is dropped again.
Preflight(p) ==
  /\ pc[p] = "preflight" /\ Grantable("crates", "Exclusive")
  /\ IF list # Unreadable /\ check_overwrites(cmd(p))
     THEN /\ Step(p, "preflight", "compile")
          /\ UNCHANGED <<todo, mem, locks>> /\ InstallUnchanged
     ELSE End(p)
  /\ UNCHANGED <<bin, list>>

\* compile_ws: a package from git is made of what its checkout holds now.
Compile(p) ==
  /\ pc[p] = "compile"
  /\ \/ May("compile") /\ End(p)
     \/ cmd(p).op = "build" /\ End(p)
     \/ /\ cmd(p).op = "install"
        /\ Step(p, "compile", "install")
        /\ mem' = [mem EXCEPT ![p].pkg =
                     <<cmd(p).key, IF cmd(p).git THEN Mine(p).tree ELSE 0>>]
        /\ UNCHANGED <<todo, locks>> /\ InstallUnchanged
  /\ UNCHANGED <<bin, list>>

CheckAgain_not(c) == c.bins # {}

\* The lock is taken again, the record is read again and the check is made
\* again; then the binaries are copied to a staging directory.
CheckAgain(c) == check_overwrites(c)

InstallStart(p) ==
  /\ pc[p] = "install" /\ Grantable("crates", "Exclusive")
  /\ IF list # Unreadable /\ CheckAgain(cmd(p))
     THEN /\ Acquire(p, "crates", "Exclusive")
          /\ Step(p, "install", "new")
          /\ LET dup == find_duplicates(bin, list, cmd(p).bins)
             IN  mem' = [mem EXCEPT ![p].owner = dup, ![p].list = list,
                                    ![p].new = cmd(p).bins \ DOMAIN dup, ![p].rep = DOMAIN dup]
          /\ UNCHANGED todo /\ InstallUnchanged
     ELSE End(p)
  /\ UNCHANGED <<bin, list>>

\* The binaries that replace none are moved first; if that fails the function
\* returns, and the transaction is dropped.
MoveNew(p, b) ==
  /\ b \in mem[p].new
  /\ \/ /\ Step(p, "new", "new")
        /\ bin' = [bin EXCEPT ![b] = mem[p].pkg]
        /\ mem' = [mem EXCEPT ![p].new = @ \ {b}, ![p].moved = @ \cup {b}]
     \/ May("move") /\ Step(p, "new", "undo") /\ UNCHANGED <<bin, mem>>
  /\ UNCHANGED <<list, todo, locks>> /\ InstallUnchanged

\* Then those that replace one; a failure is kept until the record is written.
MoveReplace(p, b) ==
  /\ mem[p].new = {} /\ b \in mem[p].rep
  /\ \/ /\ Step(p, "new", "new")
        /\ bin' = [bin EXCEPT ![b] = mem[p].pkg]
        /\ mem' = [mem EXCEPT ![p].rep = @ \ {b}, ![p].replaced = @ \cup {b}]
     \/ /\ May("move") /\ Step(p, "new", "record") /\ UNCHANGED bin
        /\ mem' = [mem EXCEPT ![p].result = FALSE]
  /\ UNCHANGED <<list, todo, locks>> /\ InstallUnchanged

\* write_crate_list: the file is cut to nothing ...
Truncate(p) ==
  /\ \/ mem[p].new = {} /\ mem[p].rep = {} /\ Step(p, "new", "write")
     \/ Step(p, "record", "write")
  /\ list' = Listing({})
  /\ mem' = [mem EXCEPT ![p].list = Recorded(mem[p])]
  /\ UNCHANGED <<bin, todo, locks>> /\ InstallUnchanged

\* ... and written.  The transaction is dropped if a replacement failed, but
\* not if only the write did.
Write(p) ==
  /\ Step(p, "write", IF mem[p].result THEN "success" ELSE "undo")
  /\ \/ list' = mem[p].list
     \/ May("write") /\ list' \in {list, Unreadable}
  /\ UNCHANGED <<bin, todo, mem, locks>> /\ InstallUnchanged

\* Transaction::drop
Undo(p) ==
  /\ pc[p] = "undo"
  /\ bin' = [b \in Bin |-> IF b \in mem[p].moved THEN Absent ELSE bin[b]]
  /\ End(p) /\ UNCHANGED list

\* Transaction::success
Success(p) == pc[p] = "success" /\ End(p) /\ UNCHANGED <<bin, list>>

(***************************************************************************)
(* uninstall_one                                                           *)
(***************************************************************************)
\* The package is looked up in the record, by a spec that must name just one.
Named(p) == {k \in DOMAIN list : Name[k] = cmd(p).name}
CorruptMetadata(k) == \E b \in list[k].bins : bin[b] = Absent

Uninstall(p) ==
  /\ pc[p] = "uninstall" /\ Grantable("crates", "Exclusive")
  /\ IF /\ list # Unreadable /\ \E k \in Named(p) : Named(p) = {k}
        /\ \A k \in Named(p) : ~CorruptMetadata(k) /\ cmd(p).bins \subseteq list[k].bins
     THEN LET k == CHOOSE k \in Named(p) : TRUE
              gone == IF cmd(p).bins = {} THEN list[k].bins ELSE cmd(p).bins
          IN  /\ Acquire(p, "crates", "Exclusive")
              /\ Step(p, "uninstall", "uwrite")
              /\ mem' = [mem EXCEPT ![p].moved = gone, ![p].pkg = <<k, list[k].rev>>,
                                    ![p].list = Struck(list, k, gone)]
              /\ list' = Listing({})
              /\ UNCHANGED todo /\ InstallUnchanged
     ELSE End(p) /\ UNCHANGED list
  /\ UNCHANGED bin

\* The record is written before anything is removed.
UninstallWrite(p) ==
  /\ pc[p] = "uwrite" /\ UNCHANGED bin
  /\ \/ /\ list' = mem[p].list /\ Step(p, "uwrite", "remove")
        /\ UNCHANGED <<todo, mem, locks>> /\ InstallUnchanged
     \/ May("write") /\ list' \in {list, Unreadable} /\ End(p)

RemoveFile(p) ==
  /\ pc[p] = "remove" /\ UNCHANGED list
  /\ IF mem[p].moved = {} THEN End(p) /\ UNCHANGED bin
     ELSE \E b \in mem[p].moved :
            \/ /\ bin' = [bin EXCEPT ![b] = Absent]
               /\ mem' = [mem EXCEPT ![p].moved = @ \ {b}]
               /\ UNCHANGED <<pc, todo, locks>> /\ InstallUnchanged
            \/ May("remove") /\ End(p) /\ UNCHANGED bin

(***************************************************************************)
(* The processes together.                                                 *)
(***************************************************************************)
\* A process is killed: it ends, and its locks are dropped by the system.
Kill(p) ==
  /\ kills < scene.kills /\ pc[p] # "next"
  /\ kills' = kills + 1
  /\ pc' = [pc EXCEPT ![p] = "next"]
  /\ todo' = [todo EXCEPT ![p] = <<>>]
  /\ mem' = [mem EXCEPT ![p] = NoMem]
  /\ gpc' = [gpc EXCEPT ![p] = "none"]
  /\ ReleaseAll(p)
  /\ UNCHANGED <<scene, upstream, db, co, want, fetchTo, rev, reinited, retries, netfailed,
                 bin, list>>

Run(p) ==
  \/ GitStep(p) /\ UNCHANGED <<scene, kills, ivars>>
  \/ Begin(p) \/ SelectPkg(p) \/ Preflight(p) \/ Compile(p) \/ InstallStart(p)
  \/ \E b \in Bin : MoveNew(p, b) \/ MoveReplace(p, b)
  \/ Truncate(p) \/ Write(p) \/ Undo(p) \/ Success(p)
  \/ Uninstall(p) \/ UninstallWrite(p) \/ RemoveFile(p)

Over == \A p \in Process : pc[p] = "next" /\ todo[p] = <<>>
Done == Over /\ UNCHANGED vars

Next ==
  \/ \E p \in Process : Run(p) \/ Kill(p)
  \/ Push /\ UNCHANGED <<scene, locks, kills, ivars>>
  \/ Done

Spec == Init /\ [][Next]_vars

\* Each process goes on when it can, as the operating system sees to.
FairSpec == Spec /\ \A p \in Process : WF_vars(Run(p))

(***************************************************************************)
(* What an installation root promises.                                     *)
(***************************************************************************)
Quiet == \A p \in Process : locks["crates"][p] = "Unlocked"

\* The record agrees with bin/.  Whatever fails and whoever is killed, each
\* binary recorded exists and belongs to one package, so that uninstall never
\* finds "corrupt metadata", and no package is recorded without binaries.
\* When nobody was killed and nobody is at work, it is the binary that the
\* package recorded, at the revision recorded, was compiled to, unless moving
\* failed or the package is installed in parts; and if no write
\* and no removal failed either, every binary is recorded: a failed
\* installation leaves none behind.
LedgerTrue ==
  list # Unreadable =>
    /\ \A k \in DOMAIN list :
         /\ list[k].bins # {} /\ ~CorruptMetadata(k)
         /\ \A j \in DOMAIN list \ {k} : list[j].bins \cap list[k].bins = {}
    /\ Quiet /\ kills = 0 =>
         /\ \A k \in DOMAIN list : \A b \in list[k].bins :
              bin[b][1] = k /\ (May("move") \/ InParts(scene, k) \/ bin[b][2] = list[k].rev)
         /\ scene.may \cap {"write", "remove"} = {} =>
              \A b \in Bin : bin[b] # Absent => \E k \in DOMAIN list : b \in list[k].bins

\* A binary that exists is replaced only with --force and removed only by an
\* uninstallation of the package it is of, or by the failed installation that
\* has just put it there; although the lock is not held while compiling, no
\* binary that another process installed meanwhile is lost.
NothingLost ==
  [][\A b \in Bin : bin[b] # Absent /\ bin'[b] # bin[b] =>
       \E p \in Process :
         /\ locks["crates"][p] = "Exclusive"
         /\ \/ cmd(p).op = "install" /\ cmd(p).force /\ b \in mem[p].rep
            \/ cmd(p).op = "install" /\ b \in mem[p].moved /\ bin[b] = mem[p].pkg
            \/ cmd(p).op = "uninstall" /\ (kills = 0 => bin[b][1] = mem[p].pkg[1])]_vars

\* Every command ends, and so no two processes wait for each other.
CommandsEnd == <>[]Over
===============================================================================
