SPECIFICATION NetSpec
CONSTANTS
  UDP_BINDINGS_MAX = 3
  Width <- MCWidth
  Statics <- MCStatics
  Leases <- MCLeases
  LlmPorts <- MCLlmPorts
  RshPorts <- MCRshPorts
  MicrokFiles <- OnlyAbsent
  NetFiles <- OnlyAbsent
  MaxSaves = 2
PROPERTY
  LlmPortSurvives
