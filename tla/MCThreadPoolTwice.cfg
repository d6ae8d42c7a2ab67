SPECIFICATION Spec
CONSTANTS
  w1 = w1
  w2 = w2
  c1 = c1
  c2 = c2
  Workers <- TwoWorkers
  Clients <- OneClient
  NumThreads = 1
  MaxStarts = 2
  MaxOps = 1
  OpsMaySync = FALSE
CHECK_DEADLOCK FALSE
INVARIANTS
  ThreadCountIsNum
