SPECIFICATION FairSpec
CONSTANTS
  MaxOpens = 2
  MaxTabs = 2
  MaxClosing = 2
INVARIANTS
  PageTellsTruth
PROPERTIES
  KeepsTrying
  LeavesNothing
  ClosedTabGoes
\* A page that was left comes to rest.
CHECK_DEADLOCK FALSE
