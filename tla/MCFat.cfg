SPECIFICATION FatSpec
CONSTANTS
  FatEntries = 9
  LastCluster = 8
  SlotsPerCluster = 5
  UnitsPerCluster = 2
  NoShort = "none"
  Names <- MoreNames
  Short <- MoreShort
  Long <- MoreLong
  Alias <- MoreAlias
  Sum <- MoreSum
  Values = {"x"}
  MaxSize = 1
  Paths <- MorePaths
  Formatted <- LongRoot
  CrashIn = {}
  MaxCrashes = 0
  MaxCalls = 2
  Absent = Absent
  Directory = Directory
CHECK_DEADLOCK FALSE
PROPERTY
  StoresFiles
