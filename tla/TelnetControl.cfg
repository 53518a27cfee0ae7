\* A session of a host that offers to echo, asks for the terminal's type and size, and
\* may withdraw the echo and the type again.  Text is the byte that has to be escaped;
\* the sizes have no such byte.
CONSTANTS
  Text = {255}
  ServerOptions = {1}
  ClientOptions = {24, 31}
  Withdrawn = {1, 24}
  PlainCommands = {249}
  Cols = {80}
  Rows = {24}
  MaxUtterances = 3
  MaxTyped = 1
  MaxResizes = 1
SPECIFICATION FairSpec
CHECK_DEADLOCK FALSE
INVARIANTS TextKeepsItsMeaning NegotiationSettles
PROPERTY EverythingIsShown
