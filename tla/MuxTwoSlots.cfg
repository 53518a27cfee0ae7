SPECIFICATION Spec
CONSTANTS
  MaxSlot = 1
  MaxSession = 2
  MaxInFlight = 1
  EarlyFrames = TRUE
  Refusals = TRUE
  Pauses = FALSE
INVARIANTS
  NoCrossTalk
  CancelsOnlyItsOwn
  NoGhostCommand
  NothingLeftBehind
