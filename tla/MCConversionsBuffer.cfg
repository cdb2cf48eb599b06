\* The first byte of the number is not the first byte of the buffer.
SPECIFICATION Spec
CONSTANTS
  ByteBase = 4
  Numbers <- SomeNumbers
INVARIANT LittleEndianInBuf
