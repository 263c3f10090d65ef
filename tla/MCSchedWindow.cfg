SPECIFICATION Spec
CONSTANTS
  MAX_TASKS = 2
  Created = 1
  Quantum = 2
  FreeBlocks = {2}
  WindowHit = TRUE
INVARIANTS
  OwnStack
CHECK_DEADLOCK FALSE
