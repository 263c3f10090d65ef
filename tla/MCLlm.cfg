SPECIFICATION LlmRunSpec
CONSTANTS
  Callers = {"shell"}
  Files <- MCFiles
  MaxLayers = 2
  LLM_MAX_CTX = 3
  MaxPrompt = 2
  MaxNew = 3
  HighPool = TRUE
  MayFail = {"tokenizer", "norm", "layer", "buffer", "scratch", "disk", "high"}
  MaxLoads = 3
  MaxCalls = 2
  MaxAborts = 1
  Alphabet = {"a", "b", "<", " "}
  MaxText = 4
  Vocabularies <- MCVocabularies
  EncodedBytes = 13
  TOKENIZER_MAX_SYMBOLS = 4
  MaxTokens = 7
  Metas <- MCMetas
  Tensors <- MCTensors
  Alignment = 4
  GGUF_MAGIC = 77
  MaxEntries = 9
  MaxMissing = 50
CHECK_DEADLOCK FALSE
INVARIANTS
  
  EncodesText
  
PROPERTY
  AttendsOwn
