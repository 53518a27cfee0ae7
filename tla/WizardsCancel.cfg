SPECIFICATION FairSpec
CONSTANTS
  Protocols = {"ssh"}
  CancelsForm = TRUE
PROPERTIES
  CancelIsAnswered
\* A wizard that has come to its end stops.
CHECK_DEADLOCK FALSE
