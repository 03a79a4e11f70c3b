SPECIFICATION Spec
CONSTANTS
  PC <- MCPC
  ScanLoop <- MCScanLoop
  Dispatch = "step"
  Zero = "0000"
  NoPC = "ffff"
  BatchLength = 1
  MaxJobs = 6
  MaxGen = 4
  Frontends <- TwoThreads
PROPERTIES
  CallsReturn
  FreezeShown
  ImplementsRunner
CHECK_DEADLOCK FALSE
