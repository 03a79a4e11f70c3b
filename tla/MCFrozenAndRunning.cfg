SPECIFICATION Spec
CONSTANTS
  PC <- MCPC
  ScanLoop <- MCScanLoop
  Dispatch = "step"
  Zero = "0000"
  NoPC = "ffff"
  BatchLength = 1
  MaxJobs = 6
  MaxGen = 4
  Frontends <- ReloadWhileArmed
INVARIANTS
  FrozenIsHalted
CHECK_DEADLOCK FALSE
