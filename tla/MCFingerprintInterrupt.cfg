SPECIFICATION Spec
CONSTANTS
  None = None
  Torn = Torn
  app = app
  lib = lib
  base = base
  run = run
  script = script
  AllUnits <- Units
  MaxVersion = 2
  Scenes <- Killed
INVARIANTS RebuiltAfterInterrupt
