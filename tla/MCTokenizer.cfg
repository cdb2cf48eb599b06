\* Every file of at most four characters of all classes, read through a
\* buffer of two characters into tokens of at most three.
SPECIFICATION Spec
CONSTANTS
  MaxTokenLen = 3
  MaxBufferLen = 2
  FileChars = {"alpha", "digit", "dot", "space", "cr", "lf", "semi", "comma", "colon", "other", "xff"}
  MinFileLen = 0
  MaxFileLen = 4
  Files <- ShortFiles
  MaxFiles = 1
  CharSigned = TRUE
  ShortReads = FALSE
INVARIANTS TypeOK TokenStateOK NoImpossibleError
PROPERTIES EofMeansEnd ImplementsLexer
