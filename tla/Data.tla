-------------------------------- MODULE Data --------------------------------
(***************************************************************************)
(* The number conversions of libminiisa (src/miniisa/data.c), as           *)
(* operators. A string of digits is the number it spells, so the checks    *)
(* that nothing follows the number have nothing to fail on.                *)
(***************************************************************************)
EXTENDS Integers

CONSTANT ByteBase   \* the number of values of a uint8_t: 256

ASSUME ByteBaseAssumption == ByteBase \in Nat /\ ByteBase >= 2

WORD_BYTES == 8   \* sizeof(uint64_t)

(* ByteBase^n, for n up to WORD_BYTES.                                     *)
Powers ==
  LET two  == ByteBase * ByteBase
      four == two * two
  IN  <<1, ByteBase, two, ByteBase * two, four, ByteBase * four, two * four,
        ByteBase * two * four, four * four>>

Power(n) == Powers[n + 1]

UINT64_MAX == Power(WORD_BYTES) - 1

(* miniisa_str_to_uint64: strtoul clamps a number that does not fit, and   *)
(* nobody looks at errno.                                                  *)
StrToUint64(n) == IF n <= UINT64_MAX THEN n ELSE UINT64_MAX

(* The byte the i-th pass of the conversion loop peels off, i from 1.      *)
Byte(n, i) == (n \div Power(i - 1)) % ByteBase

(* Mutant: the width is the number of bytes that are not zero.             *)
LeIntWidthCounts(n, w) ==
  IF n = 0 THEN w
  ELSE LET One(i) == IF Byte(n, i) > 0 THEN 1 ELSE 0
       IN  One(1) + One(2) + One(3) + One(4) + One(5) + One(6) + One(7) + One(8)

(* What miniisa_str_to_le_int leaves in *w, which held w before: the index *)
(* of the last byte that is not zero, and for 0 nothing at all.            *)
LeIntWidth(n, w) ==
  LET nonzero == {i \in 1 .. WORD_BYTES : Byte(n, i) > 0}
  IN  IF nonzero = {} THEN w
      ELSE CHOOSE i \in nonzero : \A j \in nonzero : j <= i

(* What miniisa_str_to_le_int leaves in buf, a function on the offsets the *)
(* caller may look at: byte i goes to offset i, so offset 0 keeps what it  *)
(* held and the eighth byte goes past the eight the caller promised.       *)
LeIntBuffer(n, buf) ==
  [i \in DOMAIN buf \cup 1 .. WORD_BYTES |->
     IF i = 0 THEN buf[i] ELSE Byte(n, i)]

(* The block of eight bytes a number is converted into: what they are the  *)
(* bytes of, and for an integer the number they spell in little-endian     *)
(* order.                                                                  *)
Block == [form : {"int", "double", "float", "garbage"}, value : Nat]

(* The block miniisa_str_to_le_int leaves, which all zeros were written to *)
(* before: the bytes of n from offset 1 on, the eighth not among them.     *)
IntBlock(n) ==
  [form |-> "int", value |-> (n * ByteBase) % Power(WORD_BYTES)]

(* miniisa_str_to_float_bytes                                              *)
StrToFloatBytes == [form |-> "double", value |-> 0]

(* miniisa_double_to_float_bytes: the bytes are taken for a double's,      *)
(* whatever they are.                                                      *)
DoubleToFloatBytes(b) ==
  [b EXCEPT !.form = IF b.form = "double" THEN "float" ELSE "garbage"]
=============================================================================
