SPECIFICATION FairSpec
CONSTANTS
  a = a
  b = b
  Tasks <- MCTasks
  ClientDelays = {0, 2}
  TaskDelays = {1}
  NextDelays = {1}
  MaxDue = 3
  MaxTime = 4
  Steps <- MCSteps
  Second = 3
  IntSize = 16
\* The clock stops at its bound.
CHECK_DEADLOCK FALSE
INVARIANTS
  TypeOK
  SleepsForeverOnlyIdle
  OneEntryEach
PROPERTIES
  DueTasksRun
