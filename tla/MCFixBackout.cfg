SPECIFICATION Spec
CONSTANTS
  None = None
  lib = lib
  test = test
  f1 = f1
  good = good
  bad = bad
  Process = {lib, test}
  File = {f1}
  Entry <- Entries
  Fixes = {good, bad}
  Bad <- SameBad
  Args <- PlainOnly
  Iterations = 2
  BrokenCode = FALSE
  MayDie = FALSE
INVARIANTS FallsBack
