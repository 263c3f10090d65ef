SPECIFICATION TasksSpec
CONSTANTS
  MAX_TASKS = 3
  Created = 3
  Quantum = 2
  FreeBlocks = {0, 1, 2, 3}
  WindowHit = FALSE
  WaitTicks = 2
  SliceTicks = 2
  Attempts = 2
  Scenarios <- QuietAndAll
CHECK_DEADLOCK FALSE
INVARIANTS
  OwnStack
  OnlyLiveRuns
  NestingBounded
  
PROPERTIES
  ReadyRuns
  PingAnswered
  DhcpEnds
