\* Every file of at most four characters, with a file that may be missing and
\* a read that may fail. The program ends.
SPECIFICATION MiniasSpec
CONSTANTS
  MaxTokenLen = 2
  MaxBufferLen = 2
  FileChars = {"alpha", "digit", "space", "lf", "semi", "comma", "xff"}
  MaxFileLen = 4
  Files <- ShortFiles
  MaxFiles = 1
  CharSigned = TRUE
  ShortReads = TRUE
  OpenFails = TRUE
INVARIANTS ExitZeroMeansLexed ErrorMeansRejected
PROPERTIES Exits
CHECK_DEADLOCK FALSE
