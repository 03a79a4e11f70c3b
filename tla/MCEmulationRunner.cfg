SPECIFICATION Spec
CONSTANTS
  w1 = w1
  w2 = w2
  s = s
  Work <- MCWork
  SyncJob <- s
  MaxJobs = 4
INVARIANTS
  RunningHasLoop
  SyncCallerWaits
PROPERTIES
  DestructorReturns
  ImplementsExecutor
CHECK_DEADLOCK FALSE
