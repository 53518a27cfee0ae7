SPECIFICATION Spec
CONSTANT
  Protocols = {"ssh", "telnet", "mosh", "et"}
INVARIANTS
  ReleasedMeansClean
  HandlerNeverStuck
  InputIsNotDropped
PROPERTIES
  SpeaksInTurn
  CloseReturnsInTheEnd
  RemoteEndIsTold
  HelpersEnd
\* A released session stops, and so does an ET session whose Close hangs.
CHECK_DEADLOCK FALSE
