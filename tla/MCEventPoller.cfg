SPECIFICATION FairSpec
CONSTANTS
  c1 = c1
  c2 = c2
  Clients <- MCClients
  MaxOps = 3
  PipeCapacity = 2
  ReadSize = 1
INVARIANTS
  TypeOK
  NoLostWakeup
  SubmissionOrder
  OnlyLateOperationsLost
PROPERTIES
  ImplementsExecutor
  DestructorReturns
  OperationsSettle
