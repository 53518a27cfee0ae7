\* The host uses NOP (241), as RFC 854 allows it to.
CONSTANTS
  Text = {255}
  ServerOptions = {}
  ClientOptions = {}
  Withdrawn = {}
  PlainCommands = {241}
  Cols = {80}
  Rows = {24}
  MaxUtterances = 2
  MaxTyped = 1
  MaxResizes = 1
SPECIFICATION FairSpec
CHECK_DEADLOCK FALSE
PROPERTY EverythingIsShown
