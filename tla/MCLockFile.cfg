CONSTANTS
  Process = {"p1", "p2"}
  File = {"Cargo.lock"}
  NoLocking = {}
  Member = "m"
  PathDep = "p"
  Scenes <- MCScenes
  RegDeps <- MCRegDeps
  GitPkgs <- MCGitPkgs
SPECIFICATION Spec
INVARIANT LockSound
PROPERTIES LockStable UpdateConservative ReResolves
CHECK_DEADLOCK FALSE
