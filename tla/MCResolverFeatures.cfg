SPECIFICATION Spec
CONSTANTS
  a = a
  b = b
  c = c
  d = d
  e = e
  f = f
  g = g
  r = r
  x = x
  None = None
  NoLinks = NoLinks
  Worlds <- Lacking
INVARIANTS
  Complete
CHECK_DEADLOCK FALSE
