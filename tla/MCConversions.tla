--------------------------- MODULE MCConversions ---------------------------
(***************************************************************************)
(* Conversions on the small numbers, the powers of the byte and the largest.*)
(***************************************************************************)
EXTENDS Conversions

SomeNumbers ==
  0 .. 300 \cup UNION {{ByteBase^k - 1, ByteBase^k, ByteBase^k + 1} : k \in 1 .. 7}
           \cup UINT64_MAX - 3 .. UINT64_MAX + 3
=============================================================================
