SPECIFICATION FairSpec
CONSTANTS
  MaxSlot = 0
  MaxSession = 2
  MaxInFlight = 1
  EarlyFrames = FALSE
  Refusals = FALSE
  Pauses = TRUE
INVARIANTS
  NeverSurprised
PROPERTIES
  CloseFinishes
  BothEnd
