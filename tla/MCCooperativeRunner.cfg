SPECIFICATION Spec
CONSTANTS
  w1 = w1
  w2 = w2
  s = s
  Work <- MCWork
  SyncJob <- s
  MaxJobs = 5
INVARIANTS
  RunningIsPumped
PROPERTIES
  ImplementsExecutor
CHECK_DEADLOCK FALSE
