SPECIFICATION FairWaitSpec
CONSTANTS
  WaitTicks = 2
  SliceTicks = 1
  Attempts = 2
  Scenarios <- OnlyLossy
CHECK_DEADLOCK FALSE
PROPERTY
  PingReturns
