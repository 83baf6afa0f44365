------------------------------- MODULE MCInstall -------------------------------
EXTENDS Install, TLC

ToInstall(k, bs, force) ==
  [op |-> "install", key |-> k, bins |-> bs, force |-> force, git |-> FALSE]
FromGit(bs, force, n) ==
  [op |-> "install", key |-> "gitfoo", bins |-> bs, force |-> force, git |-> TRUE,
   want |-> [rev |-> n, precise |-> FALSE]]
ToUninstall(n, bs) == [op |-> "uninstall", name |-> n, bins |-> bs]
Build(n) == [op |-> "build", want |-> [rev |-> n, precise |-> n # 0]]

MCName == [k \in Key |-> CASE k \in {"foo1", "foo2", "gitfoo"} -> "foo" [] k = "bar1" -> "bar"]

Quietly == [pushed |-> 1, sub |-> [r \in 1..MaxRev |-> 0], net |-> [p \in Process |-> "allowed"],
            cli |-> FALSE, kills |-> 0, may |-> {}]
Programs(one, two) ==
  [prog |-> [p \in Process |-> IF p = "one" THEN one ELSE two]] @@ Quietly

Versions == <<ToInstall("foo1", {"exe", "aux"}, FALSE), ToInstall("foo2", {"exe"}, TRUE),
              ToUninstall("foo", {})>>
Other == <<ToInstall("bar1", {"aux"}, TRUE), ToUninstall("bar", {"aux"})>>

MCScenes ==
  { [Programs(Versions, Other) EXCEPT !.may = {"select", "compile", "move"}],
    [Programs(Versions, <<ToInstall("bar1", {"aux"}, FALSE), ToUninstall("foo", {"aux"})>>)
       EXCEPT !.may = {"write", "remove", "move"}],
    [Programs(Versions, Other) EXCEPT !.kills = 1, !.may = {"move"}],
    [Programs(<<Build(0), Build(1)>>, <<Build(1), Build(2)>>)
       EXCEPT !.kills = 2, !.may = {"push", "gc"}],
    [Programs(<<Build(0), Build(0)>>, <<Build(1), Build(2)>>)
       EXCEPT !.sub = [r \in 1..MaxRev |-> r], !.may = {"push", "net", "gc"}],
    [Programs(<<Build(0)>>, <<Build(1)>>)
       EXCEPT !.sub = [r \in 1..MaxRev |-> r], !.net["two"] = "frozen"],
    [Programs(<<Build(0)>>, <<Build(1), Build(2)>>)
       EXCEPT !.sub = [r \in 1..MaxRev |-> r + 1], !.may = {"push", "manifest"}],
    [Programs(<<Build(1)>>, <<Build(2), Build(2)>>) EXCEPT !.kills = 1],
    [Programs(<<Build(0), Build(0)>>, <<Build(1), Build(2)>>)
       EXCEPT !.sub = [r \in 1..MaxRev |-> r], !.cli = TRUE, !.kills = 1, !.may = {"push", "net"}],
    [Programs(<<Build(2)>>, <<Build(1), Build(0)>>) EXCEPT !.net["two"] = "offline", !.kills = 1],
    [Programs(<<FromGit({"exe"}, FALSE, 0), FromGit({"exe", "aux"}, TRUE, 0)>>,
              <<FromGit({"exe", "aux"}, TRUE, 0), ToUninstall("foo", {})>>)
       EXCEPT !.may = {"push"}],
    [Programs(<<FromGit({"exe", "aux"}, FALSE, 0), FromGit({"exe", "aux"}, TRUE, 0)>>,
              <<FromGit({"exe", "aux"}, TRUE, 0), ToUninstall("foo", {"aux"})>>)
       EXCEPT !.may = {"push"}] }
================================================================================
