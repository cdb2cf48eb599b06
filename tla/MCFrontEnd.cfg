\* Every file of at most four pieces, so that there is room for a data
\* statement, a label with its statement or two lines. The client stops at the
\* end of the file or at an error.
SPECIFICATION FrontSpec
CONSTANTS
  MaxTokenLen = 2
  MaxBufferLen = 2
  MaxPieces = 4
  Files <- ShortFiles
  MaxFiles = 1
  CharSigned = FALSE
  ShortReads = FALSE
  Tokens <- SomeTokens
  GivesUp = TRUE
  MaxTokens = 9
  CapacityStep = 1
  MayFail = FALSE
  UINT_MAX = 65535
  ByteBase = 8
INVARIANTS WholeTextTaken StatementsOnLines SymbolsOfText
PROPERTIES ReachesEnd
CHECK_DEADLOCK FALSE
