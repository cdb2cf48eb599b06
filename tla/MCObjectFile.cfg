\* Names of one to three characters in buffers for two, arrays where the
\* allocator has room for two sections and two symbols, and one byte.
SPECIFICATION FileSpec
CONSTANTS
  SIZE_MAX = 15
  MemoryMax = 10
  SectionSize = 4
  SymbolSize = 5
  MaxBytes = 1
  MaxElements = 3
  MAX_LEN = 2
  Character = {"a"}
  Names <- ShortNames
INVARIANTS TypeOK NamesTypeOK BlocksFit RangesInBytes SymbolNameReads SectionNameReads StoredNamesRead
PROPERTIES ElementsFinal
