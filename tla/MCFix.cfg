SPECIFICATION FairSpec
CONSTANTS
  None = None
  lib = lib
  test = test
  f1 = f1
  good = good
  bad = bad
  Process = {lib, test}
  File = {f1}
  Entry <- Entries
  Fixes = {good, bad}
  Bad <- SameBad
  Args <- MCArgs
  Iterations = 2
  BrokenCode = FALSE
  MayDie = TRUE
INVARIANTS OneFixer BackedOut OneUnprinted
PROPERTIES FixEnds
