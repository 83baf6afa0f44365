---------------------------- MODULE MCRegistryCache ----------------------------
\* Small instances of RegistryCache: everybody wants the same package.
EXTENDS RegistryCache

CONSTANTS p1, p2, p3, k1

OnePackage == {k1}
Files == {k1, "index"}
WantAll == [p \in Process |-> k1]
InThird == [k \in Package |-> 3]
InSecond == [k \in Package |-> 2]

\* One process with a lock file, one without, and one that is offline.
Crowd == [process |-> {p1, p2, p3}, locked |-> {p1}, offline |-> {p3}, remote |-> TRUE,
          may |-> {"fail"}, maxCrashes |-> 0, maxRuns |-> 1]
\* One process that is killed, or whose disk is full, and runs again.
Killed == [process |-> {p1}, locked |-> {p1}, offline |-> {}, remote |-> TRUE,
           may |-> {"fail", "torn"}, maxCrashes |-> 2, maxRuns |-> 4]
Local == [process |-> {p1}, locked |-> {}, offline |-> {}, remote |-> FALSE,
          may |-> {}, maxCrashes |-> 2, maxRuns |-> 4]
AllScenes == {Crowd, Killed, Local}
================================================================================
