\* A word that is no mnemonic is taken for one.
SPECIFICATION ParserSpec
CONSTANTS
  UINT_MAX = 65535
  ByteBase = 8
  Tokens <- LineTokens
  MaxTokens = 3
  CapacityStep = 8
  MayFail = FALSE
INVARIANTS MnemonicDetected
CHECK_DEADLOCK FALSE
