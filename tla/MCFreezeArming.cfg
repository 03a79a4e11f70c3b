SPECIFICATION Spec
CONSTANTS
  PC <- MCPC
  ScanLoop <- MCScanLoop
  Dispatch = "step"
  Zero = "0000"
  NoPC = "ffff"
INVARIANTS
  ArmExclusive
