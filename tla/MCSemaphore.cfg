SPECIFICATION FairSpec
CONSTANTS
  t1 = t1
  t2 = t2
  t3 = t3
  NoThread = NoThread
  Threads <- MCThreads
  Amounts = {0, 1, 2}
  MaxPosted = 3
INVARIANTS
  TypeOK
  NoLostWakeup
PROPERTIES
  NoWaitReturnsInsidePost
  ImplementsCountingSemaphore
