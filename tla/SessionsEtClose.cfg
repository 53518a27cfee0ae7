SPECIFICATION Spec
CONSTANT
  Protocols = {"et"}
PROPERTIES
  CloseAlwaysReturns
\* A released session stops.
CHECK_DEADLOCK FALSE
