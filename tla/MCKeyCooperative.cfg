CONSTANTS
  Key <- Keys
  Hold = 1
  Sleep = 1
  Scripts <- Inserting
  Bindings <- Shifted
  Physical <- KeyOfScript
  Cooperative = TRUE
  Budget <- EachCall
  MaxTurns = 1
SPECIFICATION FairSpec
CHECK_DEADLOCK FALSE
INVARIANTS HostServedFirst
PROPERTIES KeysComeUp CancelEnds HostAnswers
