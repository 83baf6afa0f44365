SPECIFICATION FairSpec
CONSTANTS
  None = None
  Torn = Torn
  app = app
  lib = lib
  base = base
  run = run
  script = script
  AllUnits <- Units
  MaxVersion = 2
  Scenes <- Projects
INVARIANTS UpToDate
PROPERTIES NothingRebuilt Settles
