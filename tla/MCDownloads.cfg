SPECIFICATION FairSpec
CONSTANTS
  a = a
  b = b
  c = c
  None = None
  Package = {a, b, c}
  Local = {c}
  Size = 2
  Chunk = {1, 2}
  Retries = 1
  Dur = 2
  LowSpeedLimit = 2
  Faults = {"spurious", "fatal"}
  MayFail = TRUE
  MaxExtract = 2
INVARIANTS AssertionsHold DeliveredOnce
PROPERTIES TimeoutEarned SessionEnds
