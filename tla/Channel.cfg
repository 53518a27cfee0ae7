SPECIFICATION FairSpec
CONSTANTS
  SegSize = 2
  MaxBuffered = 2
  MinReceivedToPause = 2
  ReceiveToPauseFactor = 2
  Sizes = {3}
  PackageSizes = {1, 3}
  MaxMessages = 2
  MaxPackages = 2
PROPERTIES
  BothWaysInOrder
  EveryPromiseIsSettled
  PausedIsResumed
\* A connection that was closed comes to rest.
CHECK_DEADLOCK FALSE
