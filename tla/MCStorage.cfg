SPECIFICATION StorageSpec
CONSTANTS
  FatEntries = 7
  LastCluster = 6
  SlotsPerCluster = 5
  UnitsPerCluster = 2
  NoShort = "none"
  Names <- MCNames
  Short <- MCShort
  Long <- MCLong
  Alias <- MCAlias
  Sum <- MCSum
  Values = {"x"}
  MaxSize = 3
  Paths <- MCPaths
  Formatted <- MCFormatted
  CrashIn = {"create", "mkdir"}
  MaxCrashes = 1
  MaxCalls = 4
  Absent = Absent
  Directory = Directory
  NDirect = 2
  Entries = 2
  MaxBlocks = 17
  DirImages <- MCDirImages
  SECTOR_SIZE = 2
  AddrSpace = 16
  ATA_MAX_SECTORS_PER_CMD = 2
  MAX_BLOCK_DEVICES = 4
  MBR_MAX_PRIMARY = 2
  GPT_MAX_SCAN_ENTRIES = 3
  Disks <- MCDisks
  Volume <- MCVolume
  MaxRequest = 7
  Parts = 2
  Ports = {1, 2}
  NewValue <- MCNewValue
  MaxCmds = 4
  MaxFaults = 2
CHECK_DEADLOCK FALSE
INVARIANTS
  
  
  LoadExact
  IoExact
  
  TogglesAgree

  
