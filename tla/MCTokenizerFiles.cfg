\* Files opened one after the other at any moment between two calls, with a
\* fread that may fail, over the characters whose meaning depends on what
\* came before; char is unsigned.
SPECIFICATION Spec
CONSTANTS
  MaxTokenLen = 2
  MaxBufferLen = 2
  FileChars = {"alpha", "cr", "lf", "semi"}
  MinFileLen = 0
  MaxFileLen = 2
  Files <- ShortFiles
  MaxFiles = 2
  CharSigned = FALSE
  ShortReads = TRUE
INVARIANTS TextInOrder TextAccountedFor TokensMaximal
PROPERTIES CallReturns
