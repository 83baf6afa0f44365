SPECIFICATION FairSpec
CONSTANTS
  a = a
  b = b
  c = c
  d = d
  e = e
  f = f
  g = g
  r = r
  x = x
  None = None
  NoLinks = NoLinks
  Worlds <- Explored
INVARIANTS Sound Complete LockKept
PROPERTIES CacheTrue Terminates
