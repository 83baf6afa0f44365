----------------------------- MODULE MCFingerprint -----------------------------
(* Instances of Fingerprint for TLC.                                       *)
EXTENDS Fingerprint, TLC

CONSTANTS app, lib, base, run, script

Units == {app, lib, base, run, script}

\* Path crates: app depends on lib.
Pair ==
  [unit |-> {app, lib}, dep |-> (app :> {lib}) @@ (lib :> {}),
   kind |-> [u \in {app, lib} |-> "path"], package |-> [u \in {app, lib} |-> u],
   flags |-> {"f1"}, env |-> {"e1"}, directives |-> {{}},
   maxTime |-> 2, may |-> {"coarse", "interrupt", "fail"}]

\* A registry crate lib, replaced so that it depends on the path crate base.
Patched ==
  [unit |-> {app, lib, base}, dep |-> (app :> {lib}) @@ (lib :> {base}) @@ (base :> {}),
   kind |-> (app :> "path") @@ (lib :> "precalculated") @@ (base :> "path"),
   package |-> [u \in {app, lib, base} |-> u],
   flags |-> {"f1"}, env |-> {"e1"}, directives |-> {{}},
   maxTime |-> 3, may |-> {}]

\* lib has a build script, which may print any directives.
Script ==
  [unit |-> {lib, run, script}, dep |-> (lib :> {run}) @@ (run :> {script}) @@ (script :> {}),
   kind |-> (lib :> "path") @@ (run :> "run") @@ (script :> "script"),
   package |-> [u \in {lib, run, script} |-> lib],
   flags |-> {"f1"}, env |-> {"e1", "e2"}, directives |-> SUBSET {"file", "env"},
   maxTime |-> 3, may |-> {}]

\* The same, under other flags.
Flagged ==
  [Script EXCEPT !.flags = {"f1", "f2"}, !.env = {"e1"}, !.directives = {{"file"}}]

Projects == {Pair, Patched, Script, Flagged}
Killed == {[Script EXCEPT !.env = {"e1"}, !.may = {"interrupt"}]}
================================================================================
