SPECIFICATION StackSpec
CONSTANTS
  UDP_BINDINGS_MAX = 3
  Width <- MCWidth
  Statics <- MCStatics
  Leases <- MCLeases
  LlmPorts <- MCLlmPorts
  RshPorts <- MCRshPorts
  MicrokFiles <- OnlyAbsent
  NetFiles <- StaticOrAbsent
  MaxSaves = 2
  SeqSpace = 6
  FirstPort = 2
  LastPort = 3
  Isns = {4}
  Response = 2
  OutSize = 2
  Mss = 1
  Window = 2
  ClockRuns = TRUE
  Repeats = TRUE
  MaxCalls = 2
  MaxLost = 1
  Me = "me"
  Hosts = {"a", "b", "s"}
  Askers = {"b"}
  DnsServer = "s"
  AddressOf <- MCAddressOf
  ARP_CACHE_SIZE = 2
  TicksArrive = TRUE
  MaxQueries = 2
  RX_DESC_COUNT = 3
  TX_DESC_COUNT = 2
  Cards = {"e1000", "rtl"}
  Damaged = {2}
  MaxFrames = 5
CHECK_DEADLOCK FALSE
INVARIANTS
  ServicesBound
  ResponseExact
  AddressedRight
  FramesInOrder
  NeverStranded
PROPERTY
  StaticSurvives
