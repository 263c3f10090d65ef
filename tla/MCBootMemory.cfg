SPECIFICATION BootSpec
CONSTANTS
  MaxBlocks = 15
  AddrLimit = 65536
  Extents <- MCExtents
  Sizes <- MCSizes
  MemoryMaps <- MCMemoryMaps
  ModuleLists <- MCModuleLists
  KernelEnds <- MCKernelEnds
  HEAP_MIN_START = 12288
  HEAP_SIZE = 32768
  MODEL_ADDR = 32768
  DiskModelSizes <- SmallDiskModels
  HeldMax = 3
  PageAlignedMaps = TRUE
CONSTRAINT HeldBound
CHECK_DEADLOCK FALSE
INVARIANTS
  LayoutClear
  FreeTouchesUsable
PROPERTY
  Spec
