SPECIFICATION FairSpec
CONSTANTS
  p1 = p1
  p2 = p2
  p3 = p3
  k1 = k1
  Process = {p1, p2, p3}
  Package <- OnePackage
  File <- Files
  NoLocking = {}
  Want <- WantAll
  Published <- InSecond
  Yanked <- InThird
  MaxCommit = 3
  Entries = 2
  Scenes <- AllScenes
INVARIANTS WholeWhileUsed NoWaitCycle MarkedWhole
PROPERTIES LockedFound EveryoneEnds
