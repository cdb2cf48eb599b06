\* Every sequence of five tokens of all sorts, where memory may run out. The
\* client stops at MaxTokens.
SPECIFICATION ParserSpec
CONSTANTS
  UINT_MAX = 65535
  ByteBase = 8
  Tokens <- AllTokens
  MaxTokens = 5
  CapacityStep = 1
  MayFail = TRUE
INVARIANTS ParserTypeOK AcceptedStatements StatementsFromSource StatementsComplete SizeFitsNumber RegisterAgrees
CHECK_DEADLOCK FALSE
PROPERTIES CallReturnsButInSection MnemonicBinds
