SPECIFICATION OpenSpec
\* A tick may wait for good: for a connection that a paused sender holds up, or
\* for one that waits for an answer.
CHECK_DEADLOCK FALSE
CONSTANTS
  MaxSlot = 0
  MaxSession = 2
  MaxInFlight = 1
  EarlyFrames = TRUE
  Sends = {"echo", "pause", "resume", "other", "request", "unregistered",
           "answer", "input", "refuse", "bad"}
INVARIANTS
  TypeOK
  ClosedThenReleasedOnce
  WriterOwnsSlot
PROPERTIES
  PausedMeansSilent
  CompletedIsLast
  ImplementsLifecycle
