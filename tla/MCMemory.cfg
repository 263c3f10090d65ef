SPECIFICATION MemSpec
CONSTANTS
  MaxBlocks = 6
  AddrLimit = 28672
  Extents <- MCExtents
  Sizes <- MCSizes
  WordBits = 4
  HeldMax = 3
  HEAP_SIZE = 120
  SizeLimit = 200
  Requests <- MCRequests
  Pointers <- MCPointers
  PageBytes = 2
  FourGB = 8
  MaxRegions = 2
  MemoryMap <- SplitMap
  Buffers = {b1, b2}
  BufSizes <- MCBufSizes
  Sum32 = 16
  IPC_SHM_MAX_SEGMENTS = 2
  Clients = {c1, c2}
  Keys = {k1, k2}
  Kernel <- MCKernel
  Disciplined = TRUE
  MaxRefs = 2
  MAX_PORTS = 2
  MSG_PAYLOAD_SIZE = 2
  Tasks = {t1, t2}
  Bodies = {m1, m2}
  Lengths = {0, 2, 3}
  MaxSends = 3
SYMMETRY MemSymmetry
CONSTRAINT HeldBound
CHECK_DEADLOCK FALSE
INVARIANTS
  PoolSound
  ScansExact
  HeapSound
  HighSound
  ReadsBack
  ShmSound
  MailboxFifo
PROPERTIES
  UsesPool
  Implements
