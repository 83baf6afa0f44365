SPECIFICATION FairSpec
CONSTANTS
  Process = {"one", "two"}
  File = {"git", "crates"}
  NoLocking = {}
  MaxRev = 2
  SubHead = 2
  PackLimit = 2
  Retries = 1
  Key = {"foo1", "foo2", "gitfoo", "bar1"}
  Bin = {"exe", "aux"}
  Name <- MCName
  Scenes <- MCScenes
INVARIANTS
  CheckoutWhole
  LedgerTrue
PROPERTIES
  UpdateRecovers
  NothingLost
  CommandsEnd
