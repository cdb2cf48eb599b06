---------------------------- MODULE Conversions ----------------------------
(***************************************************************************)
(* Calls of miniisa_str_to_le_int, each on a buffer that is zero before    *)
(* it, which is how setting_data calls it (src/minias/parser.c).           *)
(***************************************************************************)
EXTENDS Data

CONSTANT Numbers   \* the numbers the strings spell, a set of Nat

VARIABLES
  number,  \* the number of the latest call
  buf      \* the caller's buffer, and the byte after it once written

vars == <<number, buf>>

Init ==
  /\ number = 0
  /\ buf = [i \in 0 .. WORD_BYTES - 1 |-> 0]

StrToLeInt(n) ==
  /\ number' = n
  /\ buf' = LeIntBuffer(StrToUint64(n), [i \in 0 .. WORD_BYTES - 1 |-> 0])

Next == \E n \in Numbers : StrToLeInt(n)

Spec == Init /\ [][Next]_vars

-----------------------------------------------------------------------------
(* data.h: the number's little-endian bytes are stored in buf, "of size at *)
(* least 8": from its first byte to its eighth.                            *)
LittleEndianInBuf ==
  \A i \in 0 .. WORD_BYTES - 1 :
    buf[i] = Byte(StrToUint64(number), i + 1)
=============================================================================
