SPECIFICATION FairSpec
CONSTANTS
  t1 = t1
  t2 = t2
  a = a
  b = b
  c = c
  Nothing = Nothing
  Threads <- MCThreads
  Objects <- MCObjects
  Sizes = {0, 1, 2}
  DefaultSize = 1
  AllocMayFail = TRUE
INVARIANTS
  TypeOK
  ExclusiveOwnership
  EveryObjectAccounted
PROPERTIES
  FlagReleased
