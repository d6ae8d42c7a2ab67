SPECIFICATION Spec
CONSTANTS
  t1 = t1
  t2 = t2
  t3 = t3
  a = a
  b = b
  Threads <- MCThreads
  Operations <- MCOperations
  ExitCounts = {1, 2, 3}
  MaxLength = 3
  MaxExits = 3
SYMMETRY Symmetry
INVARIANTS
  TypeOK
  TokenBalance
  NothingStranded
