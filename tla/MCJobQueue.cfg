CONSTANTS
  a = a
  b = b
  c = c
  Key <- MCKey
  Graphs <- MCGraphs
  Jobs = 2
  IoMayFail = TRUE
  MaxOutput = 1
SPECIFICATION FairSpec
INVARIANTS TokensConserved FreshnessPropagates
PROPERTIES DQSpec KeepsPromise Termination
