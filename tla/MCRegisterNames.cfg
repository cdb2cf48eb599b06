\* All names of up to four characters over nine letters, those of five that
\* begin with r, and the special registers with every tail. One call and the
\* run is over.
SPECIFICATION Spec
CONSTANTS
  UINT_MAX = 65535
  Letters = {"r", "0", "1", "2", "8", "u", "b", "q", "x"}
  MaxNameLen = 4
  Names <- ShortNames
INVARIANTS RegistersRecognised NoOtherRegister FailureKeepsDefault
CHECK_DEADLOCK FALSE
