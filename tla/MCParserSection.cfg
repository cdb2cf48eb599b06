\* Something else than a name after the word section: the call never returns.
SPECIFICATION ParserSpec
CONSTANTS
  UINT_MAX = 65535
  ByteBase = 8
  Tokens <- LineTokens
  MaxTokens = 3
  CapacityStep = 8
  MayFail = FALSE
PROPERTIES EveryCallReturns
CHECK_DEADLOCK FALSE
