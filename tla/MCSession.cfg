SPECIFICATION Spec
CONSTANTS
  PC <- MCPC
  ScanLoop <- MCScanLoop
  Dispatch = "step"
  Zero = "0000"
  NoPC = "ffff"
  BatchLength = 1
  MaxJobs = 6
  MaxGen = 5
  Frontends <- AllFrontends
INVARIANTS
  NeverStranded
  MirrorCurrent
  TraceFlagsCurrent
  HaltedWhileFrozen
  ViewCurrent
  ArmedAsShown
CHECK_DEADLOCK FALSE
