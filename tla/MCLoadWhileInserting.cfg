CONSTANTS
  Key <- Keys
  Hold = 2
  Sleep = 1
  Scripts <- Inserting
  Bindings <- None
  Physical <- None
  Cooperative = FALSE
  Budget <- TwoLoads
  MaxTurns = 1
SPECIFICATION FairSpec
CHECK_DEADLOCK FALSE
PROPERTY NewLoadPlays
