CONSTANTS
  Key <- Keys
  Hold = 2
  Sleep = 1
  Scripts <- Measured
  Bindings <- None
  Physical <- Keys
  Cooperative = FALSE
  Budget <- HeldKeys
  MaxTurns = 0
SPECIFICATION Spec
CHECK_DEADLOCK FALSE
PROPERTY MinimumHold
