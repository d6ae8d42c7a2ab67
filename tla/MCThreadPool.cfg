SPECIFICATION FairSpec
CONSTANTS
  w1 = w1
  w2 = w2
  c1 = c1
  c2 = c2
  Workers <- TwoWorkers
  Clients <- OneClient
  NumThreads = 2
  MaxStarts = 1
  MaxOps = 3
  OpsMaySync = TRUE
\* An operation that waits for its own pool during start() may stop it.
CHECK_DEADLOCK FALSE
INVARIANTS
  TypeOK
  NoOperationLost
PROPERTIES
  ImplementsQueue
  ImplementsExecutor
  NoSelfWait
  DestructorReturns
  OperationsSettle
