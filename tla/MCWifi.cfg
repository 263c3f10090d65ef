SPECIFICATION WifiSpec
CONSTANTS
  IWL_RX_QUEUE_SIZE = 4
  RX_PUBLISH = 2
  IWL_CMD_QUEUE_SLOTS = 2
  IWL_TFD_HW_SLOTS = 4
  IWL_NVM_CHUNK_SIZE = 2
  NvmSections <- MCNvm
  Calibration = 2
  PhyDbStorage = 3
  PacksAnswers = FALSE
  MaxCommands = 14
  IWL_AUX_TX_SLOTS = 2
  MaxTxFrames = 5
  Passphrases = {"right", "wrong", "short"}
  ApPassphrase = "right"
  TooShort = {"short"}
  MaxConnects = 2
  MaxRepeats = 1
  MaxDeauths = 1
  MaxLost = 1
  MayFail = TRUE
INVARIANTS RxNeverStarved CommandsSound ConfiguredWhole
PROPERTY HandshakeAgrees
CHECK_DEADLOCK FALSE
