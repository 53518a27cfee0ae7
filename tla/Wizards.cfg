SPECIFICATION FairSpec
CONSTANTS
  Protocols = {"ssh", "mosh", "et", "telnet"}
  CancelsForm = FALSE
INVARIANTS
  OneTerminalStep
  AnswersWereAsked
  ServerIsUnderstood
PROPERTIES
  CancelIsAnswered
  CancelledSessionEnds
  WaitsEnd
\* A wizard that has come to its end stops.
CHECK_DEADLOCK FALSE
