CONSTANTS
  Key <- Keys
  Hold = 2
  Sleep = 1
  Scripts <- Mixed
  Bindings <- Shifted
  Physical <- None
  Cooperative = FALSE
  Budget <- TapsAndScripts
  MaxTurns = 1
SPECIFICATION Spec
CHECK_DEADLOCK FALSE
INVARIANTS NoStuckKey SpeedOfScript
PROPERTY MinimumHold
