---------------------------- MODULE ParserProofs ----------------------------
(***************************************************************************)
(* What the parser is proved to do, for every set of tokens, every         *)
(* sequence of them and wherever memory runs out: its type invariant, what *)
(* it accepts, what its statements hold and what it pushes.                *)
(***************************************************************************)
EXTENDS Parser, SequenceTheorems, FiniteSetTheorems, TLAPS

-----------------------------------------------------------------------------
(* What the operators of Prebytecode and Data return, for every name and   *)
(* every number.                                                           *)

(* A register as parse_register leaves it, and as it may be before.        *)
RegisterType == [id : 0 .. UINT_MAX, type : Nat, size : Nat]

-----------------------------------------------------------------------------
(* The mnemonics. Only two of them are ever found: "nop" for all that does *)
(* not begin with it, and for the rest "add", which it cannot begin with.  *)
LEMMA FirstMnemonics ==
  /\ Len(Mnemonics) = 34
  /\ Mnemonics[1] = "NOP" /\ Mnemonics[2] = "ADD"
  /\ Spelling["NOP"] = <<"n", "o", "p">>
  /\ Spelling["ADD"] = <<"a", "d", "d">>
  /\ {"NOP", "ADD"} \subseteq DOMAIN Spelling
  /\ "NOP" \notin AcceptsType /\ "NOP" \notin AcceptsSize
  /\ "ADD" \in AcceptsType /\ "ADD" \in AcceptsSize
BY DEF Mnemonics, Spelling, AcceptsType, AcceptsSize

LEMMA OneSpelling ==
  ASSUME NEW s \in Seq(STRING), StartsWith(s, Spelling["NOP"])
  PROVE  ~StartsWith(s, Spelling["ADD"])
BY FirstMnemonics DEF StartsWith

(* The instructions the parser comes to handle: two registers, which are   *)
(* of one type once a mnemonic has been read that takes a type.            *)
TwoRegisters ==
  [mnemonic : {"INVALID", "NOP", "ADD"},
   arg_1 : [kind : {"REGISTER_ARG"}, a : RegisterType],
   arg_2 : [kind : {"REGISTER_ARG"}, a : RegisterType]]

OfOneType(i) ==
  /\ i.arg_1.a.id # UNKNOWN_REG
  /\ i.arg_1.a.type = i.arg_2.a.type
  /\ i.arg_2.a.type # UNKNOWN_TYPE

LEMMA UnknownIds ==
  /\ Enum(-1) = UINT_MAX /\ Enum(-2) = UINT_MAX - 1
  /\ UINT_MAX \in Nat /\ UINT_MAX >= 257
BY UintMaxAssumption DEF Enum

LEMMA InitTypes ==
  /\ init_register_arg \in RegisterType /\ init_register_arg.id # UNKNOWN_REG
  /\ init_instruction \in TwoRegisters
  /\ init_instruction.mnemonic = "INVALID"
  /\ init_instruction.arg_1.a = init_register_arg
  /\ init_instruction.arg_2.a = init_register_arg
BY UnknownIds
DEF init_instruction, init_argument, init_register_arg, TwoRegisters,
    RegisterType, UNKNOWN_TYPE, UNKNOWN_SIZE, UNKNOWN_REG

LEMMA CharTypes ==
  /\ \A c \in DOMAIN TypeChar \cup {NUL} : MnemonicType(c) \in 0 .. 2
  /\ \A c \in DOMAIN SizeChar \cup {NUL} : MnemonicSize(c) \in 0 .. 3
BY DEF TypeChar, SizeChar, MnemonicType, MnemonicSize, NUL, UNSIGNED_INT_TYPE,
       QWORD_SIZE

LEMMA MatchNop ==
  ASSUME NEW s \in Seq(STRING), ~StartsWith(s, Spelling["NOP"]),
         NEW i \in TwoRegisters, NEW r \in match_mnemonic(s, "NOP", i)
  PROVE  r.status = 0 /\ r.i \in TwoRegisters /\ r.i.mnemonic = "NOP"
<1>1. r = Matched("NOP", NUL, NUL, i)
  BY FirstMnemonics DEF match_mnemonic, Matches
<1>2. r = [status |-> 0,
           i |-> [i EXCEPT !.mnemonic = "NOP", !.arg_1.a.type = @,
                           !.arg_2.a.type = @, !.arg_1.a.size = @]]
  BY <1>1, FirstMnemonics DEF Matched
<1> QED
  BY <1>2 DEF TwoRegisters, RegisterType

Added(i, type, size) ==
  [i EXCEPT !.mnemonic = "ADD", !.arg_1.a.type = type, !.arg_2.a.type = type,
            !.arg_1.a.size = size]

LEMMA AddTypes ==
  ASSUME NEW i \in TwoRegisters, NEW ty \in Nat, NEW sz \in Nat, NEW j,
         j = Added(i, ty, sz)
  PROVE  /\ j \in TwoRegisters /\ j.mnemonic = "ADD"
         /\ j.arg_1.a.id = i.arg_1.a.id
         /\ j.arg_1.a.type = ty /\ j.arg_2.a.type = ty
<1>1. j \in TwoRegisters
  BY DEF Added, TwoRegisters, RegisterType
<1>2. j.mnemonic = "ADD" /\ j.arg_1.a.id = i.arg_1.a.id
  BY DEF Added, TwoRegisters, RegisterType
<1>3. j.arg_1.a.type = ty
  BY DEF Added, TwoRegisters, RegisterType
<1>4. j.arg_2.a.type = ty
  BY DEF Added, TwoRegisters, RegisterType
<1> QED
  BY <1>1, <1>2, <1>3, <1>4

LEMMA MatchAdd ==
  ASSUME NEW s \in Seq(STRING), ~StartsWith(s, Spelling["ADD"]),
         NEW i \in TwoRegisters, i.arg_1.a.id # UNKNOWN_REG,
         NEW r \in match_mnemonic(s, "ADD", i)
  PROVE  \/ r.status = 1 /\ r.i = i
         \/ /\ r.status = 0 /\ r.i \in TwoRegisters /\ r.i.mnemonic = "ADD"
            /\ OfOneType(r.i)
<1>1. PICK tchar, schar : r = Matched("ADD", tchar, schar, i)
  BY DEF match_mnemonic, Matches
<1>2. CASE /\ tchar \in DOMAIN TypeChar \cup {NUL}
           /\ schar \in DOMAIN SizeChar \cup {NUL}
  <2>1. PICK type, size : type = MnemonicType(tchar) /\ size = MnemonicSize(schar)
    OBVIOUS
  <2>2. type \in 0 .. 2 /\ type \in Nat /\ size \in Nat
    BY <1>2, <2>1, CharTypes
  <2>3. r.status = 0
    BY <1>1, <1>2 DEF Matched
  <2>4. r.i = Added(i, type, size)
    BY <1>1, <1>2, <2>1, FirstMnemonics DEF Matched, Added
  <2>5. /\ r.i \in TwoRegisters /\ r.i.mnemonic = "ADD"
        /\ r.i.arg_1.a.id = i.arg_1.a.id
        /\ r.i.arg_1.a.type = type /\ r.i.arg_2.a.type = type
    <3>1. r.i \in TwoRegisters
      BY <2>2, <2>4, AddTypes
    <3>2. r.i.mnemonic = "ADD"
      BY <2>2, <2>4, AddTypes
    <3>3. r.i.arg_1.a.id = i.arg_1.a.id
      BY <2>2, <2>4, AddTypes
    <3>4. r.i.arg_1.a.type = type
      BY <2>2, <2>4, AddTypes
    <3>5. r.i.arg_2.a.type = type
      BY <2>2, <2>4, AddTypes
    <3> QED
      BY <3>1, <3>2, <3>3, <3>4, <3>5
  <2> QED
    BY <2>2, <2>3, <2>5 DEF OfOneType, UNKNOWN_TYPE
<1> QED
  BY <1>1, <1>2 DEF Matched

(* The results of parse_instruction_mnemonic on a new instruction: every   *)
(* name is found to be a mnemonic, but for a bad type or size after "nop". *)
LEMMA MnemonicResults ==
  ASSUME NEW s \in Seq(STRING),
         NEW r \in parse_instruction_mnemonic(s, init_instruction)
  PROVE  /\ r.i \in TwoRegisters
         /\ \/ /\ ~StartsWith(s, Spelling["NOP"])
               /\ r.status = 0 /\ r.i.mnemonic = "NOP"
            \/ /\ StartsWith(s, Spelling["NOP"])
               /\ \/ r.status = 1
                  \/ r.status = 0 /\ r.i.mnemonic = "ADD" /\ OfOneType(r.i)
<1> DEFINE IsFirst(k) == /\ Matches(s, Mnemonics[k])
                         /\ \A j \in 1 .. k - 1 : ~Matches(s, Mnemonics[j])
           first == {k \in 1 .. Len(Mnemonics) : IsFirst(k)}
           reset == [init_instruction EXCEPT !.arg_1 = init_argument,
                                             !.arg_2 = init_argument]
<1>1. /\ reset \in TwoRegisters
      /\ reset.arg_1.a.id # UNKNOWN_REG
  BY InitTypes
  DEF TwoRegisters, init_instruction, init_argument
<1>2. first # {} => \E k \in first : r \in match_mnemonic(s, Mnemonics[k], reset)
  BY DEF parse_instruction_mnemonic
<1> HIDE DEF reset
<1>3. CASE ~StartsWith(s, Spelling["NOP"])
  <2>1. Matches(s, Mnemonics[1])
    BY <1>3, FirstMnemonics DEF Matches
  <2>2. 1 \in first /\ \A k \in first : k = 1
    <3>1. 1 \in first
      BY <2>1, FirstMnemonics
    <3>2. ASSUME NEW k \in first, k # 1 PROVE FALSE
      <4>1. k \in 1 .. 34 /\ \A j \in 1 .. k - 1 : ~Matches(s, Mnemonics[j])
        BY FirstMnemonics
      <4>2. 1 \in 1 .. k - 1
        BY <3>2, <4>1
      <4> QED
        BY <2>1, <4>1, <4>2
    <3> QED
      BY <3>1, <3>2
  <2> QED
    BY <1>1, <1>2, <1>3, <2>2, FirstMnemonics, MatchNop
<1>4. CASE StartsWith(s, Spelling["NOP"])
  <2>1. ~Matches(s, Mnemonics[1]) /\ Matches(s, Mnemonics[2])
    BY <1>4, FirstMnemonics, OneSpelling DEF Matches
  <2>2. 2 \in first /\ \A k \in first : k = 2
    BY <2>1, FirstMnemonics
  <2> QED
    BY <1>1, <1>2, <1>4, <2>2, FirstMnemonics, MatchAdd, OneSpelling
<1> QED
  BY <1>3, <1>4

-----------------------------------------------------------------------------
(* The register names.                                                     *)
LEMMA DigitValues ==
  ASSUME NEW c, IsDigit(c)
  PROVE  DigitValue(c) \in 0 .. 9
<1>1. \E n \in 0 .. 9 :
        <<"0", "1", "2", "3", "4", "5", "6", "7", "8", "9">>[n + 1] = c
  BY DEF IsDigit
<1> QED
  BY <1>1 DEF DigitValue

(* No name has an id that is none, but for the two that say so, and these  *)
(* are not the constant for no register.                                   *)
LEMMA RegisterIds ==
  ASSUME NEW s
  PROVE  parse_register_id(s) \in (0 .. 19) \cup {UINT_MAX, UINT_MAX - 1}
<1> DEFINE c == CharAt(s, 1)
           d == CharAt(s, 2)
<1>1. IsDigit(c) => DigitValue(c) \in 0 .. 9
  BY DigitValues
<1>2. d \in {"0", "1"} => DigitValue(d) \in 0 .. 9
  BY DigitValues DEF IsDigit
<1> HIDE DEF c, d
<1>3. parse_register_id(s) \in {Enum(-1), Enum(-2), 12, 13, 14, 15}
                               \cup (0 .. 9) \cup (10 .. 19)
  <2>1. \/ parse_register_id(s) \in {Enum(-1), Enum(-2), 12, 13, 14, 15}
        \/ IsDigit(c) /\ parse_register_id(s) = DigitValue(c)
        \/ d \in {"0", "1"} /\ parse_register_id(s) = DigitValue(d) + 10
    BY DEF parse_register_id, c, d
  <2> QED
    BY <1>1, <1>2, <2>1
<1> QED
  BY <1>3, UnknownIds

(* What parse_register leaves in a register: on success a known id, on     *)
(* failure what was there.                                                 *)
LEMMA RegisterResults ==
  ASSUME NEW s \in Seq(STRING), NEW reg \in RegisterType
  PROVE  /\ parse_register(s, reg).reg \in RegisterType
         /\ \/ /\ parse_register(s, reg).status = 0
               /\ parse_register(s, reg).reg.id # UNKNOWN_REG
            \/ /\ parse_register(s, reg).status = 1
               /\ parse_register(s, reg).reg = reg
<1> DEFINE id == parse_register_id(s)
           t  == Suffix(s)
<1>1. id \in 0 .. UINT_MAX /\ id # UNKNOWN_REG
  <2>1. id \in (0 .. 19) \cup {UINT_MAX, UINT_MAX - 1}
    BY RegisterIds
  <2> HIDE DEF id
  <2> QED
    BY <2>1, UnknownIds DEF UNKNOWN_REG
<1>2. \A c \in DOMAIN TypeChar : TypeChar[c] \in Nat
  BY DEF TypeChar
<1>3. \A c \in DOMAIN SizeChar : SizeChar[c] \in Nat
  BY DEF SizeChar
<1>4. PICK base : base = [reg EXCEPT !.id = id]
  OBVIOUS
<1>5. base \in RegisterType /\ base.id = id
  BY <1>1, <1>4 DEF RegisterType
<1>6. WithSuffix(base, t) \in RegisterType /\ WithSuffix(base, t).id = id
  BY <1>2, <1>3, <1>5 DEF WithSuffix, RegisterType
<1> QED
  BY <1>1, <1>4, <1>6 DEF parse_register

-----------------------------------------------------------------------------
(* The numbers.                                                            *)

(* One byte more, one more power of the base.                              *)
LEMMA PowerTypes ==
  /\ Power(0) = 1
  /\ \A i \in 0 .. 7 : Power(i) \in Nat /\ Power(i) > 0
  /\ \A i \in 0 .. 7 : Power(i + 1) = ByteBase * Power(i)
<1> DEFINE b2 == ByteBase * ByteBase
           b4 == b2 * b2
<1>1. /\ Power(0) = 1 /\ Power(1) = ByteBase /\ Power(2) = b2
      /\ Power(3) = ByteBase * b2 /\ Power(4) = b4 /\ Power(5) = ByteBase * b4
      /\ Power(6) = b2 * b4 /\ Power(7) = ByteBase * b2 * b4
      /\ Power(8) = b4 * b4
  BY DEF Power, Powers
<1>2. ByteBase \in Nat /\ ByteBase > 0
  BY ByteBaseAssumption
<1>3. ASSUME NEW x \in Nat, NEW y \in Nat, x > 0, y > 0
      PROVE  x * y \in Nat /\ x * y > 0
  BY <1>3
<1>4. b2 \in Nat /\ b2 > 0
  BY <1>2, <1>3
<1>5. b4 \in Nat /\ b4 > 0
  BY <1>3, <1>4
<1>6. /\ ByteBase * b2 \in Nat /\ ByteBase * b2 > 0
      /\ ByteBase * b4 \in Nat /\ ByteBase * b4 > 0
      /\ b2 * b4 \in Nat /\ b2 * b4 > 0
  BY <1>2, <1>3, <1>4, <1>5
<1>7. ByteBase * b2 * b4 \in Nat /\ ByteBase * b2 * b4 > 0
  BY <1>3, <1>5, <1>6
<1>8. \A i \in 0 .. 7 : Power(i) \in Nat /\ Power(i) > 0
  <2>1. SUFFICES ASSUME NEW i \in {0, 1, 2, 3, 4, 5, 6, 7}
                 PROVE  Power(i) \in Nat /\ Power(i) > 0
    OBVIOUS
  <2> QED
    BY <1>1, <1>2, <1>4, <1>5, <1>6, <1>7
<1>9. \A i \in 0 .. 7 : Power(i + 1) = ByteBase * Power(i)
  <2>1. SUFFICES ASSUME NEW i \in {0, 1, 2, 3, 4, 5, 6, 7}
                 PROVE  Power(i + 1) = ByteBase * Power(i)
    OBVIOUS
  <2> QED
    BY <1>1, <1>2, <1>4, <1>5
<1> QED
  BY <1>1, <1>8, <1>9

(* A number below the power above a byte that is 0 is below that byte's.   *)
LEMMA ZeroByte ==
  ASSUME NEW n \in Nat, NEW m \in Nat, m > 0, n < ByteBase * m,
         (n \div m) % ByteBase = 0
  PROVE  n < m
<1>1. PICK q \in Nat, r \in 0 .. m - 1 : n = m * q + r /\ q = n \div m
  OBVIOUS
<1>2. q < ByteBase
  <2>1. SUFFICES ASSUME q >= ByteBase PROVE FALSE
    BY <1>1, ByteBaseAssumption
  <2>2. m * q >= m * ByteBase
    BY <2>1, ByteBaseAssumption
  <2> QED
    BY <1>1, <2>2, ByteBaseAssumption
<1>3. q = 0
  BY <1>1, <1>2, ByteBaseAssumption
<1> QED
  BY <1>1, <1>3

(* The width miniisa_str_to_le_int finds is at most eight bytes, and what  *)
(* is above it is zero.                                                    *)
LEMMA WidthTypes ==
  ASSUME NEW n \in Nat
  PROVE  /\ LeIntWidth(n, 0) \in 0 .. 8
         /\ \A i \in 1 .. 8 : i > LeIntWidth(n, 0) => ~(Byte(n, i) > 0)
<1> DEFINE nonzero == {i \in 1 .. WORD_BYTES : Byte(n, i) > 0}
<1>1. nonzero \subseteq 1 .. 8
  BY DEF WORD_BYTES
<1>5. \A i \in 1 .. 8 : i \in nonzero <=> Byte(n, i) > 0
  BY DEF WORD_BYTES
<1>2. LeIntWidth(n, 0) = IF nonzero = {} THEN 0
                         ELSE CHOOSE i \in nonzero : \A j \in nonzero : j <= i
  BY DEF LeIntWidth
<1> HIDE DEF nonzero
<1>3. CASE nonzero = {}
  BY <1>1, <1>5, <1>2, <1>3
<1>4. CASE nonzero # {}
  <2>1. \E i \in nonzero : \A j \in nonzero : j <= i
    <3> DEFINE Highest(k) ==
                 \/ \A j \in nonzero : j > k
                 \/ \E i \in nonzero : \A j \in nonzero : j <= k => j <= i
    <3>1. Highest(0)
      BY <1>1
    <3>2. ASSUME NEW k \in 0 .. 7, NEW m, m = k + 1, Highest(k)
          PROVE  Highest(m)
      <4>1. CASE m \in nonzero
        BY <1>1, <3>2, <4>1
      <4>2. CASE m \notin nonzero
        BY <1>1, <3>2, <4>2
      <4> QED
        BY <4>1, <4>2
    <3> HIDE DEF Highest
    <3>3. Highest(1)
      BY <3>1, <3>2
    <3>4. Highest(2)
      BY <3>3, <3>2
    <3>5. Highest(3)
      BY <3>4, <3>2
    <3>6. Highest(4)
      BY <3>5, <3>2
    <3>7. Highest(5)
      BY <3>6, <3>2
    <3>8. Highest(6)
      BY <3>7, <3>2
    <3>9. Highest(7)
      BY <3>8, <3>2
    <3>10. Highest(8)
      BY <3>9, <3>2
    <3>11. PICK x : x \in nonzero
      BY <1>4
    <3>12. x <= 8
      BY <1>1, <3>11
    <3>13. PICK i \in nonzero : \A j \in nonzero : j <= 8 => j <= i
      BY <1>1, <3>10, <3>11, <3>12 DEF Highest
    <3>14. \A j \in nonzero : j <= 8
      BY <1>1
    <3> QED
      BY <3>13, <3>14
  <2>2. PICK w : w = CHOOSE i \in nonzero : \A j \in nonzero : j <= i
    OBVIOUS
  <2>3. w \in nonzero /\ \A j \in nonzero : j <= w
    BY <2>1, <2>2
  <2>4. LeIntWidth(n, 0) = w
    BY <1>2, <1>4, <2>2
  <2> QED
    BY <1>1, <1>5, <2>3, <2>4
<1> QED
  BY <1>3, <1>4

(* A number is below the power of any size its width does not pass.        *)
LEMMA WidthFits ==
  ASSUME NEW n \in Nat, n <= UINT64_MAX, NEW k \in {1, 2, 4, 8},
         LeIntWidth(n, 0) <= k
  PROVE  n < Power(k)
<1> DEFINE Zero(i) == Byte(n, i) = 0
<1>1. \A i \in 1 .. 8 : i > k => Zero(i)
  <2>1. \A i \in 1 .. 8 : Byte(n, i) \in Nat
    <3>1. SUFFICES ASSUME NEW i \in 1 .. 8, NEW m, m = Power(i - 1)
                   PROVE  (n \div m) % ByteBase \in Nat
      BY DEF Byte
    <3>2. m \in Nat /\ m > 0
      BY <3>1, PowerTypes
    <3> QED
      BY <3>2, ByteBaseAssumption
  <2> QED
    BY <2>1, WidthTypes
<1>2. ASSUME NEW i \in 1 .. 8, Zero(i), n < Power(i)
      PROVE  n < Power(i - 1)
  <2>1. PICK m : m = Power(i - 1)
    OBVIOUS
  <2>2. m \in Nat /\ m > 0 /\ Power(i) = ByteBase * m
    BY <2>1, PowerTypes
  <2>3. (n \div m) % ByteBase = 0
    BY <1>2, <2>1 DEF Byte
  <2> QED
    BY <1>2, <2>1, <2>2, <2>3, ZeroByte
<1>3. n < Power(8)
  <2>1. PICK m : m = Power(8)
    OBVIOUS
  <2>2. m \in Nat
    BY <2>1, PowerTypes, ByteBaseAssumption
  <2> QED
    BY <2>1, <2>2 DEF UINT64_MAX, WORD_BYTES
<1> HIDE DEF Zero
<1>4. CASE k = 8
  BY <1>3, <1>4
<1>5. k <= 4 => n < Power(4)
  <2>1. k <= 4 => Zero(8) /\ Zero(7) /\ Zero(6) /\ Zero(5)
    BY <1>1
  <2> QED
    BY <1>2, <1>3, <2>1
<1>6. k <= 2 => n < Power(2)
  BY <1>1, <1>2, <1>5
<1>7. k <= 1 => n < Power(1)
  BY <1>1, <1>2, <1>6
<1> QED
  BY <1>4, <1>5, <1>6, <1>7

LEMMA WordPower == Power(8) \in Nat /\ Power(8) > 0
<1>1. PICK m : m = Power(7)
  OBVIOUS
<1>2. m \in Nat /\ m > 0 /\ Power(8) = ByteBase * m
  BY <1>1, PowerTypes
<1>3. ByteBase \in Nat /\ ByteBase > 0
  BY ByteBaseAssumption
<1>4. ASSUME NEW x \in Nat, NEW y \in Nat, x > 0, y > 0
      PROVE  x * y \in Nat /\ x * y > 0
  BY <1>4
<1> QED
  BY <1>2, <1>3, <1>4

LEMMA Uint64Types ==
  ASSUME NEW n \in Nat
  PROVE  StrToUint64(n) \in Nat /\ StrToUint64(n) <= UINT64_MAX
BY WordPower DEF StrToUint64, UINT64_MAX, WORD_BYTES

(* A number that is 1, 2, 4 or 8 for miniisa_str_to_uint64 is spelled so:  *)
(* what strtoul clamps to is more.                                         *)
LEMMA SmallNumber ==
  ASSUME NEW n \in Nat, StrToUint64(n) \in {1, 2, 4, 8}
  PROVE  n = StrToUint64(n)
<1>1. SUFFICES UINT64_MAX > 8
  BY DEF StrToUint64
<1>2. ASSUME NEW i \in 0 .. 7, NEW m \in Nat, Power(i) >= m
      PROVE  Power(i + 1) >= 2 * m
  <2>1. PICK p : p = Power(i)
    OBVIOUS
  <2>2. p \in Nat /\ p >= m /\ Power(i + 1) = ByteBase * p
    BY <1>2, <2>1, PowerTypes
  <2>3. ByteBase * p >= 2 * p
    BY <2>2, ByteBaseAssumption
  <2> QED
    BY <1>2, <2>2, <2>3, ByteBaseAssumption
<1>3. Power(1) >= 2
  BY <1>2, PowerTypes
<1>4. Power(2) >= 4
  BY <1>2, <1>3
<1>5. Power(3) >= 8
  BY <1>2, <1>4
<1>6. Power(4) >= 16
  BY <1>2, <1>5
<1>7. Power(5) >= 32
  BY <1>2, <1>6
<1>8. Power(6) >= 64
  BY <1>2, <1>7
<1>9. Power(7) >= 128
  BY <1>2, <1>8
<1>10. PICK m : m = Power(8)
  OBVIOUS
<1>11. m >= 256 /\ m \in Nat
  <2>1. m = ByteBase * Power(7)
    BY <1>10, PowerTypes
  <2>2. Power(7) \in Nat
    BY PowerTypes
  <2> QED
    BY <1>2, <1>9, <1>10, <2>1, <2>2, ByteBaseAssumption
<1> QED
  BY <1>10, <1>11 DEF UINT64_MAX, WORD_BYTES

(* The values miniisa_str_to_le_int and miniisa_str_to_float_bytes leave.  *)
LEMMA BlockTypes ==
  /\ \A n \in Nat : IntBlock(n) \in Block /\ IntBlock(n).form = "int"
  /\ StrToFloatBytes \in Block /\ StrToFloatBytes.form = "double"
  /\ \A b \in Block : DoubleToFloatBytes(b) \in Block
  /\ \A b \in Block : b.form = "double" => DoubleToFloatBytes(b).form = "float"
<1>1. ASSUME NEW n \in Nat
      PROVE  IntBlock(n) \in Block /\ IntBlock(n).form = "int"
  <2>1. PICK m : m = n * ByteBase
    OBVIOUS
  <2>2. m \in Nat
    BY <2>1, ByteBaseAssumption
  <2>3. m % Power(8) \in Nat
    BY <2>2, WordPower
  <2> QED
    BY <2>1, <2>3 DEF IntBlock, Block, WORD_BYTES
<1> QED
  BY <1>1 DEF Block, StrToFloatBytes, DoubleToFloatBytes

-----------------------------------------------------------------------------
(* The inductive invariant, in parts                                       *)

InputTypes ==
  /\ prev_token \in InputToken /\ curr_token \in InputToken
  /\ calls \in 0 .. MaxTokens
  /\ fed \in InputToken \X InputToken

ControlTypes ==
  /\ need_new_token \in BOOLEAN
  /\ state \in ParserState
  /\ parser_pc \in {"idle", "loop"}
  /\ parser_status \in {0, 1}

LineTypes ==
  /\ line \in Seq(InputToken)
  /\ clean \in BOOLEAN
  /\ lines \in Seq([tokens : Seq(InputToken), clean : BOOLEAN])

VectorTypes ==
  /\ Vector!TypeOK
  /\ pushed \in Seq([call : Nat, fed : InputToken \X InputToken])
  /\ lost \in Nat

(* A data statement whose number has been read.                            *)
DataRead(ds) ==
  \/ ds.type = UNSIGNED_INT_TYPE /\ ds.data.form = "int"
  \/ ds.type = FLOAT_TYPE /\ ds.data.form = "double"

(* The statement under construction, by the state of the flowchart: no     *)
(* mnemonic but two is ever found, and the registers of an instruction     *)
(* that has a type are of that type from the start.                        *)
StmtOfState ==
  /\ state = "NEEDING_SECTION_NAME" => stmt = init_statement
  /\ state = "FINDING_ARGUMENT" =>
       /\ stmt.kind = "INSTRUCTION_STMT" /\ stmt.s \in TwoRegisters
       /\ stmt.s.mnemonic \in {"NOP", "ADD"}
       /\ stmt.s.mnemonic = "ADD" => OfOneType(stmt.s)
  /\ state = "SETTING_DATA" => stmt.kind = "DATA_STMT"
  /\ state \in {"DEMANDING_SIZE_COMMA", "REQUIRING_SIZE"} =>
       stmt.kind = "DATA_STMT" /\ DataRead(stmt.s)

StmtInv == stmt \in Stmt /\ StmtOfState /\ RegisterAgrees

ControlInv ==
  /\ state \notin {"AWAITING_ARG_COMMA", "EXPECTING_COLON"}
  /\ (parser_pc = "idle" /\ parser_status = 0) =>
       /\ need_new_token
       /\ state \notin {"GETTING_INITIAL", "SETTING_DATA", "FINDING_ARGUMENT"}
  /\ parser_pc = "loop" => state \notin {"INIT", "DONE"} /\ ~need_new_token

Core == InputTypes /\ ControlTypes /\ LineTypes /\ VectorTypes /\ StmtInv
        /\ ControlInv

-----------------------------------------------------------------------------
(* How a pass of the loop ends                                             *)

LEMMA TokenTypes ==
  /\ NoToken \in InputToken
  /\ \A t \in Tokens : t \in InputToken
  /\ MaxTokens \in Nat
  /\ \A t \in InputToken : t.span \in Seq(STRING) /\ t.value \in Nat
BY TokensAssumption DEF InputToken, NoToken, InputTokenType

LEMMA AwaitStep ==
  ASSUME ControlTypes, LineTypes, curr_token \in InputToken,
         NEW next \in ParserState, Await(next),
         next \notin {"AWAITING_ARG_COMMA", "EXPECTING_COLON", "GETTING_INITIAL",
                      "SETTING_DATA", "FINDING_ARGUMENT"}
  PROVE  ControlTypes' /\ LineTypes' /\ ControlInv'
<1>1. ControlTypes' /\ ControlInv'
  BY DEF ControlTypes, ControlInv, Await
<1>2. CASE next \in {"INIT", "DONE"}
  <2>1. Append(line, curr_token) \in Seq(InputToken)
    BY AppendProperties DEF LineTypes
  <2>2. [tokens |-> Append(line, curr_token), clean |-> clean]
          \in [tokens : Seq(InputToken), clean : BOOLEAN]
    BY <2>1 DEF LineTypes
  <2>3. lines' \in Seq([tokens : Seq(InputToken), clean : BOOLEAN])
    <3>1. lines' = Append(lines, [tokens |-> Append(line, curr_token),
                                  clean |-> clean])
      BY <1>2 DEF Await
    <3> QED
      BY <2>2, <3>1, AppendProperties DEF LineTypes
  <2>4. line' = <<>> /\ clean' = TRUE
    BY <1>2 DEF Await
  <2> QED
    BY <1>1, <2>3, <2>4 DEF LineTypes
<1>3. CASE next \notin {"INIT", "DONE"}
  <2>1. line' = Append(line, curr_token) /\ clean' = clean /\ lines' = lines
    BY <1>3 DEF Await
  <2>2. line' \in Seq(InputToken)
    BY <2>1, AppendProperties DEF LineTypes
  <2> QED
    BY <1>1, <2>1, <2>2 DEF LineTypes
<1> QED
  BY <1>2, <1>3

LEMMA FailStep ==
  ASSUME ControlTypes, LineTypes, ControlInv, parser_pc = "loop", FailHere(1)
  PROVE  ControlTypes' /\ LineTypes' /\ ControlInv'
BY DEF ControlTypes, LineTypes, ControlInv, FailHere, FailIn

LEMMA GotoStep ==
  ASSUME ControlTypes, LineTypes, ControlInv, parser_pc = "loop",
         NEW next \in ParserState, Goto(next),
         next \notin {"AWAITING_ARG_COMMA", "EXPECTING_COLON", "INIT", "DONE"}
  PROVE  ControlTypes' /\ LineTypes' /\ ControlInv'
BY DEF ControlTypes, LineTypes, ControlInv, Goto, history_vars

(* A push that finds memory stores the statement and is recorded; one that *)
(* finds none leaves both and is counted.                                  *)
LEMMA PushStep ==
  ASSUME VectorTypes, InputTypes, NEW s \in Stmt, Push(s)
  PROVE  /\ VectorTypes'
         /\ \/ /\ statements' = Append(statements, s)
               /\ pushed' = Append(pushed, [call |-> calls, fed |-> fed])
               /\ lost' = lost
            \/ /\ statements' = statements
               /\ pushed' = pushed
               /\ lost' = lost + 1
<1>1. [call |-> calls, fed |-> fed] \in [call : Nat, fed : InputToken \X InputToken]
  BY TokenTypes DEF InputTypes
<1>2. CapacityStep \in Nat
  BY TokensAssumption
<1>3. statements \in Seq(Stmt) /\ stmts_capacity \in Nat
      /\ pushed \in Seq([call : Nat, fed : InputToken \X InputToken]) /\ lost \in Nat
      /\ Len(statements) \in Nat
  BY LenProperties DEF VectorTypes, Vector!TypeOK
<1>4. Vector!Clamped(stmts_capacity + CapacityStep) \in Nat
  BY <1>2, <1>3 DEF Vector!Clamped
<1>5. Vector!PushPrebytecodeStmt(s)
  BY DEF Push
<1>6. CASE Vector!NoMemory
  <2>1. push_status' = 1 /\ UNCHANGED <<statements, stmts_capacity, block>>
    BY <1>6 DEF Vector!NoMemory
  <2>2. lost' = lost + 1 /\ pushed' = pushed
    BY <2>1 DEF Push
  <2>3. VectorTypes'
    BY <1>3, <2>1, <2>2 DEF VectorTypes, Vector!TypeOK
  <2> QED
    BY <2>1, <2>2, <2>3
<1>7. CASE ~Vector!NoMemory
  <2>1. push_status' = 0 /\ statements' = Append(statements, s)
    BY <1>5, <1>7 DEF Vector!PushPrebytecodeStmt, Vector!Store
  <2>2. pushed' = Append(pushed, [call |-> calls, fed |-> fed]) /\ lost' = lost
    BY <2>1 DEF Push
  <2>3. stmts_capacity' \in Nat /\ (block' = block \/ block' \in Nat)
    BY <1>3, <1>4, <1>5, <1>7 DEF Vector!PushPrebytecodeStmt, Vector!Realloc
  <2>4. statements' \in Seq(Stmt)
    BY <1>3, <2>1, AppendProperties
  <2>5. pushed' \in Seq([call : Nat, fed : InputToken \X InputToken])
    BY <1>1, <1>3, <2>2, AppendProperties
  <2>6. Vector!TypeOK'
    BY <2>1, <2>3, <2>4 DEF VectorTypes, Vector!TypeOK
  <2>7. VectorTypes'
    BY <1>3, <2>2, <2>5, <2>6 DEF VectorTypes
  <2> QED
    BY <2>1, <2>2, <2>7
<1> QED
  BY <1>6, <1>7

-----------------------------------------------------------------------------
(* The live part of the flowchart: what a pass of the loop does to the     *)
(* control, the tokens accepted and the statements pushed.                 *)
Moved(from, next) == state = from /\ Goto(next) /\ UNCHANGED vector_vars
Taken(from, next) == state = from /\ Await(next) /\ UNCHANGED vector_vars

Refuses ==
  /\ state # "NEEDING_SECTION_NAME" /\ FailHere(1) /\ UNCHANGED vector_vars
  /\ state \in {"DEMANDING_SIZE_COMMA", "REQUIRING_SIZE",
               "ANTICIPATING_TERMINATING"} => UNCHANGED stmt
Spins == Moved("NEEDING_SECTION_NAME", "NEEDING_SECTION_NAME")

BeginsSection ==
  /\ Taken("GETTING_INITIAL", "NEEDING_SECTION_NAME")
  /\ Identifier(curr_token) /\ curr_token.span = section
BeginsOther ==
  /\ Taken("GETTING_INITIAL", "DETECTING_TYPE")
  /\ Identifier(curr_token) /\ curr_token.span # section
BeginsData ==
  /\ Moved("DETECTING_TYPE", "SETTING_DATA")
  /\ prev_token.span = data
BeginsInstruction ==
  /\ Moved("DETECTING_TYPE", "FINDING_ARGUMENT")
  /\ prev_token.span # data
MarksLabel ==
  /\ state = "DETECTING_TYPE" /\ curr_token.token_type = "COLON"
  /\ Push(Symbol(prev_token)) /\ Await("INIT")
NamesSection ==
  /\ state = "NEEDING_SECTION_NAME" /\ Identifier(curr_token)
  /\ Push([kind |-> "INSTRUCTION_STMT", s |-> [name |-> curr_token.span]])
  /\ Await("ANTICIPATING_TERMINATING") /\ stmt'.kind # "DATA_STMT"

NumberRead(token, ds) ==
  \/ /\ token.token_type = "INT"
     /\ ds.type = UNSIGNED_INT_TYPE /\ ds.data.form = "int"
     /\ ds.length = LeIntWidth(StrToUint64(token.value), 0)
  \/ /\ token.token_type = "FLOAT"
     /\ ds.type = FLOAT_TYPE /\ ds.data.form = "double"
ReadsNumber ==
  /\ Taken("SETTING_DATA", "DEMANDING_SIZE_COMMA")
  /\ NumberRead(curr_token, stmt'.s)
ReadsComma ==
  /\ Taken("DEMANDING_SIZE_COMMA", "REQUIRING_SIZE")
  /\ curr_token.token_type = "COMMA" /\ UNCHANGED stmt
ReadsSize ==
  /\ Taken("REQUIRING_SIZE", "ANTICIPATING_TERMINATING")
  /\ curr_token.token_type = "INT"
  /\ \/ /\ stmt.s.type = UNSIGNED_INT_TYPE
        /\ curr_token.value \in {1, 2, 4, 8} /\ stmt.s.length <= curr_token.value
        /\ stmt'.s.data = stmt.s.data
     \/ /\ stmt.s.type = FLOAT_TYPE /\ curr_token.value \in {4, 8}
        /\ stmt'.s.data.form = IF curr_token.value = 4 THEN "float" ELSE "double"
  /\ stmt'.s.size = curr_token.value
SkipsArguments ==
  /\ Moved("FINDING_ARGUMENT", "ANTICIPATING_TERMINATING")
  /\ stmt'.kind # "DATA_STMT"
ReadsRegister ==
  /\ Taken("FINDING_ARGUMENT", "ANTICIPATING_TERMINATING")
  /\ stmt'.kind # "DATA_STMT" /\ Identifier(curr_token)
EndsLine ==
  /\ Taken("ANTICIPATING_TERMINATING", "DONE")
  /\ Terminator(curr_token)

Flow ==
  \/ Refuses \/ Spins
  \/ BeginsSection \/ BeginsOther \/ BeginsData \/ BeginsInstruction
  \/ MarksLabel \/ NamesSection
  \/ ReadsNumber \/ ReadsComma \/ ReadsSize
  \/ SkipsArguments \/ ReadsRegister \/ EndsLine

(* A pass that leaves the statement as it is, in a state that asks no more *)
(* of it.                                                                  *)
LEMMA StmtStays ==
  ASSUME StmtInv, UNCHANGED stmt, UNCHANGED state
  PROVE  StmtInv'
BY DEF StmtInv, StmtOfState, RegisterAgrees

LEMMA StmtKinds ==
  /\ RegisterType = Register
  /\ TwoRegisters \subseteq Instruction
  /\ \A i \in Instruction : [kind |-> "INSTRUCTION_STMT", s |-> i] \in Stmt
  /\ \A n \in Named : [kind |-> "INSTRUCTION_STMT", s |-> n] \in Stmt
  /\ \A n \in Named : [kind |-> "SYMBOL_STMT", s |-> n] \in Stmt
  /\ \A d \in DataStmt : [kind |-> "DATA_STMT", s |-> d] \in Stmt
  /\ \A n \in Named : n \notin Instruction
  /\ init_statement = [kind |-> "INSTRUCTION_STMT", s |-> init_instruction]
  /\ init_statement \in Stmt
<1>1. RegisterType = Register
  BY DEF RegisterType, Register
<1>2. TwoRegisters \subseteq Instruction
  BY <1>1, FirstMnemonics DEF TwoRegisters, Instruction, Argument
<1>3. /\ \A i \in Instruction : [kind |-> "INSTRUCTION_STMT", s |-> i] \in Stmt
      /\ \A n \in Named : [kind |-> "INSTRUCTION_STMT", s |-> n] \in Stmt
  BY DEF Stmt
<1>4. \A n \in Named : [kind |-> "SYMBOL_STMT", s |-> n] \in Stmt
  BY DEF Stmt
<1>5. \A d \in DataStmt : [kind |-> "DATA_STMT", s |-> d] \in Stmt
  BY DEF Stmt
<1>6. \A n \in Named : n \notin Instruction
  BY DEF Named, Instruction
<1>7. init_statement = [kind |-> "INSTRUCTION_STMT", s |-> init_instruction]
  BY DEF init_statement
<1>8. init_instruction \in Instruction
  BY <1>2, InitTypes
<1> QED
  BY <1>1, <1>2, <1>3, <1>4, <1>5, <1>6, <1>7, <1>8

LEMMA GettingInitialStep ==
  ASSUME Core, parser_pc = "loop", state = "GETTING_INITIAL", GettingInitial
  PROVE  Flow /\ StmtInv'
<1>1. stmt' = init_statement /\ UNCHANGED vector_vars
  BY DEF GettingInitial
<1>2. CASE curr_token.token_type = "IDENTIFIER" /\ curr_token.span = section
  <2>1. Await("NEEDING_SECTION_NAME")
    BY <1>2 DEF GettingInitial
  <2>2. BeginsSection
    BY <1>1, <1>2, <2>1 DEF BeginsSection, Taken, Identifier
  <2>3. state' = "NEEDING_SECTION_NAME"
    BY <2>1 DEF Await
  <2>4. StmtInv'
    BY <1>1, <2>3, StmtKinds DEF StmtInv, StmtOfState, RegisterAgrees
  <2> QED
    BY <2>2, <2>4 DEF Flow
<1>3. CASE curr_token.token_type = "IDENTIFIER" /\ curr_token.span # section
  <2>1. Await("DETECTING_TYPE")
    BY <1>3 DEF GettingInitial
  <2>2. BeginsOther
    BY <1>1, <1>3, <2>1 DEF BeginsOther, Taken, Identifier
  <2>3. state' = "DETECTING_TYPE"
    BY <2>1 DEF Await
  <2>4. StmtInv'
    BY <1>1, <2>3, StmtKinds DEF StmtInv, StmtOfState, RegisterAgrees
  <2> QED
    BY <2>2, <2>4 DEF Flow
<1>4. CASE curr_token.token_type # "IDENTIFIER"
  <2>1. FailHere(1)
    BY <1>4 DEF GettingInitial
  <2>2. Refuses
    BY <1>1, <2>1 DEF Refuses
  <2>3. state' = "GETTING_INITIAL"
    BY <2>1 DEF FailHere, FailIn
  <2>4. StmtInv'
    BY <1>1, <2>3, StmtKinds DEF StmtInv, StmtOfState, RegisterAgrees
  <2> QED
    BY <2>2, <2>4 DEF Flow
<1> QED
  BY <1>2, <1>3, <1>4

LEMMA InitData ==
  init_data_stmt \in DataStmt
BY DEF init_data_stmt, DataStmt, UNKNOWN_TYPE

LEMMA DetectingTypeStep ==
  ASSUME Core, parser_pc = "loop", state = "DETECTING_TYPE", DetectingType
  PROVE  Flow /\ StmtInv'
<1>1. prev_token.span \in Seq(STRING)
  BY TokenTypes DEF Core, InputTypes
<1>2. CASE curr_token.token_type = "COLON"
  <2>1. /\ stmt' = Symbol(prev_token) /\ Push(Symbol(prev_token))
        /\ Await("INIT")
    BY <1>2 DEF DetectingType
  <2>2. MarksLabel
    BY <1>2, <2>1 DEF MarksLabel
  <2>3. state' = "INIT"
    BY <2>1 DEF Await
  <2>4. Symbol(prev_token) \in Stmt
    BY <1>1, StmtKinds DEF Symbol, Named
  <2>5. StmtInv'
    BY <2>1, <2>3, <2>4 DEF StmtInv, StmtOfState, RegisterAgrees
  <2> QED
    BY <2>2, <2>5 DEF Flow
<1>3. CASE curr_token.token_type # "COLON" /\ prev_token.token_type # "IDENTIFIER"
  <2>1. FailHere(1) /\ UNCHANGED stmt /\ UNCHANGED vector_vars
    BY <1>3 DEF DetectingType
  <2>2. UNCHANGED state
    BY <2>1 DEF FailHere, FailIn
  <2>3. StmtInv'
    BY <2>1, <2>2, StmtStays DEF Core
  <2> QED
    BY <2>1, <2>3 DEF Flow, Refuses
<1>4. CASE /\ curr_token.token_type # "COLON"
           /\ prev_token.token_type = "IDENTIFIER" /\ prev_token.span = data
  <2>1. /\ stmt' = [kind |-> "DATA_STMT", s |-> init_data_stmt]
        /\ Goto("SETTING_DATA") /\ UNCHANGED vector_vars
    BY <1>4 DEF DetectingType
  <2>2. BeginsData
    BY <1>4, <2>1 DEF BeginsData, Moved
  <2>3. state' = "SETTING_DATA"
    BY <2>1 DEF Goto
  <2>4. StmtInv'
    BY <2>1, <2>3, StmtKinds, InitData
    DEF StmtInv, StmtOfState, RegisterAgrees
  <2> QED
    BY <2>2, <2>4 DEF Flow
<1>5. CASE /\ curr_token.token_type # "COLON"
           /\ prev_token.token_type = "IDENTIFIER" /\ prev_token.span # data
  <2>1. UNCHANGED vector_vars
    BY <1>5 DEF DetectingType
  <2>2. PICK r \in parse_instruction_mnemonic(prev_token.span, init_instruction) :
          /\ stmt' = [kind |-> "INSTRUCTION_STMT", s |-> r.i]
          /\ IF r.status # 0 THEN FailHere(r.status) ELSE Goto("FINDING_ARGUMENT")
    BY <1>5 DEF DetectingType
  <2>3. /\ r.i \in TwoRegisters
        /\ \/ /\ ~StartsWith(prev_token.span, Spelling["NOP"])
              /\ r.status = 0 /\ r.i.mnemonic = "NOP"
           \/ /\ StartsWith(prev_token.span, Spelling["NOP"])
              /\ \/ r.status = 1
                 \/ r.status = 0 /\ r.i.mnemonic = "ADD" /\ OfOneType(r.i)
    BY <1>1, <2>2, MnemonicResults
  <2>4. stmt' \in Stmt
    BY <2>2, <2>3, StmtKinds
  <2>5. CASE r.status # 0
    <3>1. FailHere(1)
      BY <2>2, <2>3, <2>5
    <3>2. state' = "DETECTING_TYPE"
      BY <3>1 DEF FailHere, FailIn
    <3>3. StmtInv'
      BY <2>4, <3>2 DEF StmtInv, StmtOfState, RegisterAgrees
    <3> QED
      BY <2>1, <3>1, <3>3 DEF Flow, Refuses
  <2>6. CASE r.status = 0
    <3>1. Goto("FINDING_ARGUMENT")
      BY <2>2, <2>6
    <3>2. state' = "FINDING_ARGUMENT"
      BY <3>1 DEF Goto
    <3>3. BeginsInstruction
      BY <1>5, <2>1, <2>2, <2>3, <2>6, <3>1 DEF BeginsInstruction, Moved
    <3>4. StmtInv'
      BY <2>2, <2>3, <2>4, <2>6, <3>2
      DEF StmtInv, StmtOfState, RegisterAgrees
    <3> QED
      BY <3>3, <3>4 DEF Flow
  <2> QED
    BY <2>5, <2>6
<1> QED
  BY <1>2, <1>3, <1>4, <1>5

WithData(st, b, length, type) ==
  [st EXCEPT !.s.data = b, !.s.length = length, !.s.type = type]

LEMMA DataSet ==
  ASSUME NEW st \in Stmt, st.kind = "DATA_STMT",
         NEW b \in Block, NEW length \in Nat, NEW type \in Nat, NEW x,
         x = WithData(st, b, length, type)
  PROVE  /\ x \in Stmt /\ x.kind = "DATA_STMT"
         /\ x.s.data = b /\ x.s.length = length /\ x.s.type = type
<1>1. st \in [kind : {"DATA_STMT"}, s : DataStmt] /\ st.s \in DataStmt
  BY DEF Stmt
<1>2. x \in [kind : {"DATA_STMT"}, s : DataStmt]
  BY <1>1 DEF DataStmt, WithData
<1>3. x.s.data = b /\ x.s.length = length /\ x.s.type = type
  BY <1>1 DEF DataStmt, WithData
<1> QED
  BY <1>2, <1>3 DEF Stmt

LEMMA SettingDataStep ==
  ASSUME Core, parser_pc = "loop", state = "SETTING_DATA", SettingData
  PROVE  Flow /\ StmtInv'
<1> DEFINE integer == StrToUint64(curr_token.value)
           DataIs(bytes, length, type) ==
             \/ MayFail /\ FailHere(1) /\ UNCHANGED stmt
             \/ /\ stmt' = [stmt EXCEPT !.s.data = bytes, !.s.length = length,
                                        !.s.type = type]
                /\ Await("DEMANDING_SIZE_COMMA")
<1>1. UNCHANGED vector_vars
  BY DEF SettingData
<1>2. \/ /\ curr_token.token_type = "INT"
         /\ DataIs(IntBlock(integer), LeIntWidth(integer, 0), UNSIGNED_INT_TYPE)
      \/ /\ curr_token.token_type = "FLOAT"
         /\ DataIs(StrToFloatBytes, 8, FLOAT_TYPE)
      \/ FailHere(1) /\ UNCHANGED stmt
  BY DEF SettingData
<1>3. stmt \in Stmt /\ stmt.kind = "DATA_STMT"
  BY DEF Core, StmtInv, StmtOfState
<1>4. curr_token.value \in Nat
  BY TokenTypes DEF Core, InputTypes
<1>5. integer \in Nat /\ integer <= UINT64_MAX
  BY <1>4, Uint64Types
<1>6. LeIntWidth(integer, 0) \in Nat
  BY <1>5, WidthTypes
<1> HIDE DEF integer
<1>7. CASE FailHere(1) /\ UNCHANGED stmt
  <2>1. UNCHANGED state
    BY <1>7 DEF FailHere, FailIn
  <2>2. StmtInv'
    BY <1>7, <2>1, StmtStays DEF Core
  <2> QED
    BY <1>1, <1>7, <2>2 DEF Flow, Refuses
<1>8. CASE /\ curr_token.token_type = "INT"
           /\ stmt' = [stmt EXCEPT !.s.data = IntBlock(integer),
                                   !.s.length = LeIntWidth(integer, 0),
                                   !.s.type = UNSIGNED_INT_TYPE]
           /\ Await("DEMANDING_SIZE_COMMA")
  <2>1. state' = "DEMANDING_SIZE_COMMA"
    BY <1>8 DEF Await
  <2>2. /\ stmt' \in Stmt /\ stmt'.kind = "DATA_STMT"
        /\ stmt'.s.data = IntBlock(integer)
        /\ stmt'.s.length = LeIntWidth(integer, 0)
        /\ stmt'.s.type = UNSIGNED_INT_TYPE
    <3>1. IntBlock(integer) \in Block /\ UNSIGNED_INT_TYPE \in Nat
      BY <1>5, BlockTypes DEF UNSIGNED_INT_TYPE
    <3>2. stmt' = WithData(stmt, IntBlock(integer), LeIntWidth(integer, 0),
                           UNSIGNED_INT_TYPE)
      BY <1>8 DEF WithData
    <3> QED
      BY <1>3, <1>6, <3>1, <3>2, DataSet
  <2>3. DataRead(stmt'.s)
    BY <1>5, <2>2, BlockTypes DEF DataRead
  <2>4. StmtInv'
    BY <2>1, <2>2, <2>3 DEF StmtInv, StmtOfState, RegisterAgrees
  <2>5. ReadsNumber
    BY <1>1, <1>5, <1>8, <2>2, BlockTypes DEF ReadsNumber, Taken, NumberRead, integer
  <2> QED
    BY <2>4, <2>5 DEF Flow
<1>9. CASE /\ curr_token.token_type = "FLOAT"
           /\ stmt' = [stmt EXCEPT !.s.data = StrToFloatBytes, !.s.length = 8,
                                   !.s.type = FLOAT_TYPE]
           /\ Await("DEMANDING_SIZE_COMMA")
  <2>1. state' = "DEMANDING_SIZE_COMMA"
    BY <1>9 DEF Await
  <2>2. /\ stmt' \in Stmt /\ stmt'.kind = "DATA_STMT"
        /\ stmt'.s.data = StrToFloatBytes /\ stmt'.s.type = FLOAT_TYPE
    <3>1. StrToFloatBytes \in Block /\ FLOAT_TYPE \in Nat
      BY BlockTypes DEF FLOAT_TYPE
    <3>2. stmt' = WithData(stmt, StrToFloatBytes, 8, FLOAT_TYPE)
      BY <1>9 DEF WithData
    <3> QED
      BY <1>3, <3>1, <3>2, DataSet
  <2>3. DataRead(stmt'.s)
    BY <2>2, BlockTypes DEF DataRead
  <2>4. StmtInv'
    BY <2>1, <2>2, <2>3 DEF StmtInv, StmtOfState, RegisterAgrees
  <2>5. ReadsNumber
    BY <1>1, <1>9, <2>2, BlockTypes DEF ReadsNumber, Taken, NumberRead
  <2> QED
    BY <2>4, <2>5 DEF Flow
<1> QED
  BY <1>2, <1>7, <1>8, <1>9

(* _set_register on a register whose type is known: the type stays, a size *)
(* that is known does too, and a register that is set has them.            *)
LEMMA SetRegisterResults ==
  ASSUME NEW s \in Seq(STRING), NEW dest \in RegisterType,
         dest.id # UNKNOWN_REG, dest.type # UNKNOWN_TYPE
  PROVE  /\ SetRegister(s, dest, DefaultRegister).status \in {0, 1}
         /\ SetRegister(s, dest, DefaultRegister).reg \in RegisterType
         /\ SetRegister(s, dest, DefaultRegister).reg.id # UNKNOWN_REG
         /\ SetRegister(s, dest, DefaultRegister).reg.type = dest.type
         /\ dest.size # UNKNOWN_SIZE =>
              SetRegister(s, dest, DefaultRegister).reg.size = dest.size
<1>1. DefaultRegister \in RegisterType
  BY UintMaxAssumption
  DEF DefaultRegister, RegisterType, UNKNOWN_REG, UNSIGNED_INT_TYPE, QWORD_SIZE
<1>2. PICK p : p = parse_register(s, DefaultRegister)
  OBVIOUS
<1>3. /\ p.reg \in RegisterType
      /\ \/ p.status = 0 /\ p.reg.id # UNKNOWN_REG
         \/ p.status = 1
  BY <1>1, <1>2, RegisterResults
<1>4. SetRegister(s, dest, DefaultRegister) =
        CASE p.status # 0 -> [status |-> p.status, reg |-> dest]
          [] p.status = 0 /\ dest.type \notin {UNKNOWN_TYPE, p.reg.type} ->
               [status |-> 1, reg |-> [dest EXCEPT !.id = p.reg.id]]
          [] p.status = 0 /\ dest.type \in {UNKNOWN_TYPE, p.reg.type}
                          /\ dest.size \notin {UNKNOWN_SIZE, p.reg.size} ->
               [status |-> 1, reg |-> [p.reg EXCEPT !.size = dest.size]]
          [] OTHER -> [status |-> 0, reg |-> p.reg]
  BY <1>2 DEF SetRegister
<1>5. CASE p.status # 0
  <2>1. SetRegister(s, dest, DefaultRegister) = [status |-> 1, reg |-> dest]
    BY <1>3, <1>4, <1>5
  <2> QED
    BY <2>1
<1>6. CASE p.status = 0 /\ dest.type # p.reg.type
  <2>1. PICK r : r = [dest EXCEPT !.id = p.reg.id]
    OBVIOUS
  <2>2. r \in RegisterType /\ r.id # UNKNOWN_REG /\ r.type = dest.type
        /\ r.size = dest.size
    BY <1>3, <1>6, <2>1 DEF RegisterType
  <2>3. SetRegister(s, dest, DefaultRegister) = [status |-> 1, reg |-> r]
    BY <1>4, <1>6, <2>1
  <2> QED
    BY <2>2, <2>3
<1>7. CASE /\ p.status = 0 /\ dest.type = p.reg.type
           /\ dest.size \notin {UNKNOWN_SIZE, p.reg.size}
  <2>1. PICK r : r = [p.reg EXCEPT !.size = dest.size]
    OBVIOUS
  <2>2. r \in RegisterType /\ r.id # UNKNOWN_REG /\ r.type = dest.type
        /\ r.size = dest.size
    BY <1>3, <1>7, <2>1 DEF RegisterType
  <2>3. SetRegister(s, dest, DefaultRegister) = [status |-> 1, reg |-> r]
    BY <1>4, <1>7, <2>1
  <2> QED
    BY <2>2, <2>3
<1>8. CASE /\ p.status = 0 /\ dest.type = p.reg.type
           /\ dest.size \in {UNKNOWN_SIZE, p.reg.size}
  <2>1. SetRegister(s, dest, DefaultRegister) = [status |-> 0, reg |-> p.reg]
    BY <1>4, <1>8
  <2> QED
    BY <1>3, <1>8, <2>1
<1> QED
  BY <1>5, <1>6, <1>7, <1>8

WithArg1(st, reg) == [st EXCEPT !.s["arg_1"].a = reg]

LEMMA RegisterSet ==
  ASSUME NEW st \in Stmt, st.kind = "INSTRUCTION_STMT", st.s \in TwoRegisters,
         OfOneType(st.s), NEW reg \in RegisterType,
         reg.id # UNKNOWN_REG, reg.type = st.s.arg_1.a.type,
         NEW x, x = WithArg1(st, reg)
  PROVE  /\ x \in Stmt /\ x.kind = "INSTRUCTION_STMT" /\ x.s \in TwoRegisters
         /\ OfOneType(x.s) /\ x.s.mnemonic = st.s.mnemonic
         /\ x.s.arg_1.a = reg
<1>1. st \in [kind : {"INSTRUCTION_STMT"}, s : Instruction \cup Named]
  BY DEF Stmt
<1>2. x.kind = "INSTRUCTION_STMT" /\ x = [kind |-> "INSTRUCTION_STMT", s |-> x.s]
  BY <1>1 DEF WithArg1
<1>3. x.s = [st.s EXCEPT !["arg_1"].a = reg]
  BY <1>1 DEF WithArg1
<1>4. x.s \in TwoRegisters
  BY <1>3 DEF TwoRegisters
<1>5. x.s.mnemonic = st.s.mnemonic
  BY <1>3 DEF TwoRegisters
<1>6. x.s.arg_1.a = reg /\ x.s.arg_2.a = st.s.arg_2.a
  BY <1>3 DEF TwoRegisters
<1>7. OfOneType(x.s)
  BY <1>6 DEF OfOneType
<1>8. x \in Stmt
  BY <1>2, <1>4, StmtKinds
<1> QED
  BY <1>2, <1>4, <1>5, <1>6, <1>7, <1>8

LEMMA FindingArgumentStep ==
  ASSUME Core, parser_pc = "loop", state = "FINDING_ARGUMENT", FindingArgument
  PROVE  Flow /\ StmtInv'
<1>1. UNCHANGED vector_vars
  BY DEF FindingArgument
<1>2. /\ stmt \in Stmt /\ stmt.kind = "INSTRUCTION_STMT"
      /\ stmt.s \in TwoRegisters /\ stmt.s.mnemonic \in {"NOP", "ADD"}
      /\ stmt.s.mnemonic = "ADD" => OfOneType(stmt.s)
  BY DEF Core, StmtInv, StmtOfState
<1>3. CASE stmt.s.mnemonic = "NOP"
  <2>1. Goto("ANTICIPATING_TERMINATING") /\ UNCHANGED stmt
    BY <1>3 DEF FindingArgument
  <2>2. state' = "ANTICIPATING_TERMINATING"
    BY <2>1 DEF Goto
  <2>3. StmtInv'
    BY <1>2, <1>3, <2>1, <2>2 DEF StmtInv, StmtOfState, RegisterAgrees
  <2>4. SkipsArguments
    BY <1>1, <1>2, <2>1 DEF SkipsArguments, Moved
  <2> QED
    BY <2>3, <2>4 DEF Flow
<1>4. CASE stmt.s.mnemonic = "ADD"
  <2>1. FindingTwoRegisters
    BY <1>4 DEF FindingArgument
  <2>2. OfOneType(stmt.s) /\ stmt.s.arg_1.a.id # UNKNOWN_REG
    BY <1>2, <1>4 DEF OfOneType
  <2>3. FindingRegister("arg_1", "ANTICIPATING_TERMINATING")
    BY <2>1, <2>2 DEF FindingTwoRegisters
  <2>4. CASE curr_token.token_type # "IDENTIFIER"
    <3>1. FailHere(1) /\ UNCHANGED stmt
      BY <2>3, <2>4 DEF FindingRegister
    <3>2. UNCHANGED state
      BY <3>1 DEF FailHere, FailIn
    <3>3. StmtInv'
      BY <3>1, <3>2, StmtStays DEF Core
    <3> QED
      BY <1>1, <3>1, <3>3 DEF Flow, Refuses
  <2>5. CASE curr_token.token_type = "IDENTIFIER"
    <3>1. PICK set : set = SetRegister(curr_token.span, stmt.s.arg_1.a,
                                       DefaultRegister)
      OBVIOUS
    <3>2. /\ stmt' = WithArg1(stmt, set.reg)
          /\ IF set.status # 0 THEN FailHere(set.status)
             ELSE Await("ANTICIPATING_TERMINATING")
      BY <2>3, <2>5, <3>1 DEF FindingRegister, WithArg1
    <3>3. /\ set.status \in {0, 1} /\ set.reg \in RegisterType
          /\ set.reg.id # UNKNOWN_REG /\ set.reg.type = stmt.s.arg_1.a.type
      <4>1. curr_token.span \in Seq(STRING)
        BY TokenTypes DEF Core, InputTypes
      <4>2. stmt.s.arg_1.a \in RegisterType
        BY <1>2 DEF TwoRegisters
      <4>3. stmt.s.arg_1.a.type # UNKNOWN_TYPE
        BY <2>2 DEF OfOneType
      <4> QED
        BY <2>2, <3>1, <4>1, <4>2, <4>3, SetRegisterResults
    <3>4. /\ stmt' \in Stmt /\ stmt'.kind = "INSTRUCTION_STMT"
          /\ stmt'.s \in TwoRegisters /\ OfOneType(stmt'.s)
          /\ stmt'.s.mnemonic = "ADD"
      BY <1>2, <1>4, <2>2, <3>2, <3>3, RegisterSet
    <3>5. stmt'.s.arg_1.a.type = stmt'.s.arg_2.a.type
      BY <3>4 DEF OfOneType
    <3>6. CASE set.status = 1
      <4>1. FailHere(1)
        BY <3>2, <3>6
      <4>2. state' = "FINDING_ARGUMENT"
        BY <4>1 DEF FailHere, FailIn
      <4>3. StmtInv'
        BY <3>4, <4>2 DEF StmtInv, StmtOfState, RegisterAgrees
      <4> QED
        BY <1>1, <4>1, <4>3 DEF Flow, Refuses
    <3>7. CASE set.status = 0
      <4>1. Await("ANTICIPATING_TERMINATING")
        BY <3>2, <3>7
      <4>2. state' = "ANTICIPATING_TERMINATING"
        BY <4>1 DEF Await
      <4>3. StmtInv'
        BY <3>4, <3>5, <4>2 DEF StmtInv, StmtOfState, RegisterAgrees
      <4>4. ReadsRegister
        BY <1>1, <2>5, <3>4, <4>1 DEF ReadsRegister, Taken, Identifier
      <4> QED
        BY <4>3, <4>4 DEF Flow
    <3> QED
      BY <3>3, <3>6, <3>7
  <2> QED
    BY <2>4, <2>5
<1> QED
  BY <1>2, <1>3, <1>4

LEMMA NeedingSectionNameStep ==
  ASSUME Core, parser_pc = "loop", state = "NEEDING_SECTION_NAME", NeedingSectionName
  PROVE  Flow /\ StmtInv'
<1>1. stmt = [kind |-> "INSTRUCTION_STMT", s |-> init_instruction]
  BY StmtKinds DEF Core, StmtInv, StmtOfState
<1>2. CASE Identifier(curr_token)
  <2>1. PICK named : named = [kind |-> "INSTRUCTION_STMT",
                              s |-> [name |-> curr_token.span]]
    OBVIOUS
  <2>2. named = [stmt EXCEPT !.s = [name |-> curr_token.span]]
    BY <1>1, <2>1
  <2>3. /\ stmt' = named /\ Push(named)
        /\ Await("ANTICIPATING_TERMINATING")
    BY <1>2, <2>2 DEF NeedingSectionName, Identifier
  <2>4. state' = "ANTICIPATING_TERMINATING"
    BY <2>3 DEF Await
  <2>5. [name |-> curr_token.span] \in Named
    BY TokenTypes DEF Core, InputTypes, Named
  <2>6. StmtInv'
    BY <2>1, <2>3, <2>4, <2>5, StmtKinds
    DEF StmtInv, StmtOfState, RegisterAgrees
  <2>7. NamesSection
    BY <1>2, <2>1, <2>3 DEF NamesSection
  <2> QED
    BY <2>6, <2>7 DEF Flow
<1>3. CASE ~Identifier(curr_token)
  <2>1. Goto("NEEDING_SECTION_NAME") /\ UNCHANGED <<stmt, vector_vars>>
    BY <1>3 DEF NeedingSectionName, Identifier
  <2>2. UNCHANGED state
    BY <2>1 DEF Goto
  <2>3. StmtInv'
    BY <2>1, <2>2, StmtStays DEF Core
  <2> QED
    BY <2>1, <2>3 DEF Flow, Spins, Moved
<1> QED
  BY <1>2, <1>3

LEMMA DemandingSizeCommaStep ==
  ASSUME Core, parser_pc = "loop", state = "DEMANDING_SIZE_COMMA",
         Expect("COMMA", "REQUIRING_SIZE")
  PROVE  Flow /\ StmtInv'
<1>1. UNCHANGED <<stmt, vector_vars>>
  BY DEF Expect
<1>2. CASE curr_token.token_type = "COMMA"
  <2>1. Await("REQUIRING_SIZE")
    BY <1>2 DEF Expect
  <2>2. state' = "REQUIRING_SIZE"
    BY <2>1 DEF Await
  <2>3. StmtInv'
    BY <1>1, <2>2 DEF Core, StmtInv, StmtOfState, RegisterAgrees
  <2>4. ReadsComma
    BY <1>1, <1>2, <2>1 DEF ReadsComma, Taken
  <2> QED
    BY <2>3, <2>4 DEF Flow
<1>3. CASE curr_token.token_type # "COMMA"
  <2>1. FailHere(1)
    BY <1>3 DEF Expect
  <2>2. UNCHANGED state
    BY <2>1 DEF FailHere, FailIn
  <2>3. StmtInv'
    BY <1>1, <2>2, StmtStays DEF Core
  <2> QED
    BY <1>1, <2>1, <2>3 DEF Flow, Refuses
<1> QED
  BY <1>2, <1>3

LEMMA AnticipatingTerminatingStep ==
  ASSUME Core, parser_pc = "loop", state = "ANTICIPATING_TERMINATING",
         AnticipatingTerminating
  PROVE  Flow /\ StmtInv'
<1>1. UNCHANGED <<stmt, vector_vars>>
  BY DEF AnticipatingTerminating
<1>2. CASE Terminator(curr_token)
  <2>1. Await("DONE")
    BY <1>2 DEF AnticipatingTerminating, Terminator
  <2>2. state' = "DONE"
    BY <2>1 DEF Await
  <2>3. StmtInv'
    BY <1>1, <2>2 DEF Core, StmtInv, StmtOfState, RegisterAgrees
  <2>4. EndsLine
    BY <1>1, <1>2, <2>1 DEF EndsLine, Taken
  <2> QED
    BY <2>3, <2>4 DEF Flow
<1>3. CASE ~Terminator(curr_token)
  <2>1. FailHere(1)
    BY <1>3 DEF AnticipatingTerminating, Terminator
  <2>2. UNCHANGED state
    BY <2>1 DEF FailHere, FailIn
  <2>3. StmtInv'
    BY <1>1, <2>2, StmtStays DEF Core
  <2> QED
    BY <1>1, <2>1, <2>3 DEF Flow, Refuses
<1> QED
  BY <1>2, <1>3

LEMMA RequiringSizeStep ==
  ASSUME Core, parser_pc = "loop", state = "REQUIRING_SIZE", RequiringSize
  PROVE  Flow /\ StmtInv'
<1> DEFINE size == StrToUint64(curr_token.value)
           ds   == stmt.s
<1>1. UNCHANGED vector_vars
  BY DEF RequiringSize
<1>3. stmt \in Stmt /\ stmt.kind = "DATA_STMT" /\ DataRead(ds)
  BY DEF Core, StmtInv, StmtOfState
<1>2. \/ /\ curr_token.token_type = "INT" /\ ds.type = UNSIGNED_INT_TYPE
         /\ size \in {1, 2, 4, 8} /\ size >= ds.length
         /\ stmt' = [stmt EXCEPT !.s = [ds EXCEPT !.size = size]]
         /\ Await("ANTICIPATING_TERMINATING")
      \/ /\ curr_token.token_type = "INT" /\ ds.type = FLOAT_TYPE /\ size = 4
         /\ stmt' = [stmt EXCEPT !.s =
                       [ds EXCEPT !.size = size,
                                  !.data = DoubleToFloatBytes(@)]]
         /\ Await("ANTICIPATING_TERMINATING")
      \/ /\ curr_token.token_type = "INT" /\ ds.type = FLOAT_TYPE /\ size = 8
         /\ stmt' = [stmt EXCEPT !.s = [ds EXCEPT !.size = size]]
         /\ Await("ANTICIPATING_TERMINATING")
      \/ FailHere(1) /\ UNCHANGED stmt
  BY <1>3 DEF RequiringSize, DataRead, UNSIGNED_INT_TYPE, SIGNED_INT_TYPE, FLOAT_TYPE
<1>4. stmt \in [kind : {"DATA_STMT"}, s : DataStmt] /\ ds \in DataStmt
  BY <1>3 DEF Stmt
<1>5. curr_token.value \in Nat
  BY TokenTypes DEF Core, InputTypes
<1>6. size \in {1, 2, 4, 8} => curr_token.value = size
  BY <1>5, SmallNumber
<1> HIDE DEF size
<1>7. CASE FailHere(1) /\ UNCHANGED stmt
  <2>1. UNCHANGED state
    BY <1>7 DEF FailHere, FailIn
  <2>2. StmtInv'
    BY <1>7, <2>1, StmtStays DEF Core
  <2> QED
    BY <1>1, <1>7, <2>2 DEF Flow, Refuses
<1>8. CASE /\ curr_token.token_type = "INT" /\ ds.type = UNSIGNED_INT_TYPE
           /\ size \in {1, 2, 4, 8} /\ size >= ds.length
           /\ stmt' = [stmt EXCEPT !.s = [ds EXCEPT !.size = size]]
           /\ Await("ANTICIPATING_TERMINATING")
  <2>4. PICK new : new = [ds EXCEPT !.size = size]
    OBVIOUS
  <2>5. /\ stmt' = [kind |-> "DATA_STMT", s |-> new]
        /\ new \in DataStmt /\ new.data = ds.data /\ new.size = size
    BY <1>4, <1>8, <2>4 DEF DataStmt
  <2>6. state' = "ANTICIPATING_TERMINATING"
    BY <1>8 DEF Await
  <2>7. stmt' \in Stmt
    BY <2>5, StmtKinds
  <2>9. StmtInv'
    BY <2>5, <2>6, <2>7 DEF StmtInv, StmtOfState, RegisterAgrees
  <2>8. ds.length <= size
    BY <1>4, <1>8 DEF DataStmt
  <2>10. ReadsSize
    BY <1>1, <1>6, <1>8, <2>5, <2>8 DEF ReadsSize, Taken
  <2> QED
    BY <2>9, <2>10 DEF Flow
<1>9. CASE /\ curr_token.token_type = "INT" /\ ds.type = FLOAT_TYPE
           /\ \/ /\ size = 4
                 /\ stmt' = [stmt EXCEPT !.s =
                               [ds EXCEPT !.size = size,
                                          !.data = DoubleToFloatBytes(@)]]
              \/ /\ size = 8
                 /\ stmt' = [stmt EXCEPT !.s = [ds EXCEPT !.size = size]]
           /\ Await("ANTICIPATING_TERMINATING")
  <2>1. ds.data.form = "double"
    BY <1>3, <1>9 DEF DataRead, UNSIGNED_INT_TYPE, FLOAT_TYPE
  <2>2. ds.data \in Block
    BY <1>4, <2>1 DEF DataStmt, NullData
  <2>3. PICK b : b = IF size = 4 THEN DoubleToFloatBytes(ds.data) ELSE ds.data
    OBVIOUS
  <2>4. b \in Block /\ b.form = IF size = 4 THEN "float" ELSE "double"
    BY <2>1, <2>2, <2>3, BlockTypes
  <2>5. PICK new : new = [ds EXCEPT !.size = size, !.data = b]
    OBVIOUS
  <2>6. /\ new \in DataStmt /\ new.data = b /\ new.size = size
        /\ new = [data |-> b, length |-> ds.length, size |-> size,
                  type |-> ds.type]
    <3>1. size \in Nat
      BY <1>9
    <3>2. ds \in [data : Block \cup {NullData}, length : Nat, size : Nat,
                 type : Nat]
      BY <1>4 DEF DataStmt
    <3>3. new.data = b
      BY <2>5, <3>2
    <3>4. new.size = size
      BY <2>5, <3>2
    <3>5. new.length = ds.length /\ new.type = ds.type
      BY <2>5, <3>2
    <3>6. new = [data |-> new.data, length |-> new.length, size |-> new.size,
                 type |-> new.type]
      BY <2>5, <3>2
    <3> QED
      BY <2>4, <3>1, <3>2, <3>3, <3>4, <3>5, <3>6 DEF DataStmt
  <2>13. size = 4 => stmt' = [kind |-> "DATA_STMT", s |-> new]
    <3> HAVE size = 4
    <3>1. new = [ds EXCEPT !.size = size, !.data = DoubleToFloatBytes(@)]
      BY <1>4, <2>3, <2>5 DEF DataStmt
    <3> QED
      BY <1>4, <1>9, <3>1
  <2>14. size = 8 => stmt' = [kind |-> "DATA_STMT", s |-> new]
    <3> HAVE size = 8
    <3>1. new = [ds EXCEPT !.size = size]
      BY <1>4, <2>3, <2>6 DEF DataStmt
    <3> QED
      BY <1>4, <1>9, <3>1
  <2>7. stmt' = [kind |-> "DATA_STMT", s |-> new]
    BY <1>9, <2>13, <2>14
  <2>8. state' = "ANTICIPATING_TERMINATING"
    BY <1>9 DEF Await
  <2>9. stmt' \in Stmt
    BY <2>6, <2>7, StmtKinds
  <2>11. StmtInv'
    BY <2>7, <2>8, <2>9 DEF StmtInv, StmtOfState, RegisterAgrees
  <2>12. ReadsSize
    BY <1>1, <1>6, <1>9, <2>4, <2>6, <2>7 DEF ReadsSize, Taken
  <2> QED
    BY <2>11, <2>12 DEF Flow
<1> QED
  BY <1>2, <1>7, <1>8, <1>9

(* Every pass of the loop is one of the live flowchart.                    *)
LEMMA HandleStep ==
  ASSUME Core, Handle
  PROVE  Flow /\ StmtInv' /\ parser_pc = "loop" /\ UNCHANGED input_vars
<1>1. parser_pc = "loop" /\ UNCHANGED input_vars
  BY DEF Handle
<1>2. /\ state \in ParserState
      /\ state \notin {"AWAITING_ARG_COMMA", "EXPECTING_COLON", "INIT", "DONE"}
  BY <1>1 DEF Core, ControlTypes, ControlInv
<1>3. CASE state = "GETTING_INITIAL"
  BY <1>1, <1>3, GettingInitialStep DEF Handle
<1>4. CASE state = "DETECTING_TYPE"
  BY <1>1, <1>4, DetectingTypeStep DEF Handle
<1>5. CASE state = "SETTING_DATA"
  BY <1>1, <1>5, SettingDataStep DEF Handle
<1>6. CASE state = "FINDING_ARGUMENT"
  BY <1>1, <1>6, FindingArgumentStep DEF Handle
<1>7. CASE state = "NEEDING_SECTION_NAME"
  BY <1>1, <1>7, NeedingSectionNameStep DEF Handle
<1>8. CASE state = "DEMANDING_SIZE_COMMA"
  BY <1>1, <1>8, DemandingSizeCommaStep DEF Handle
<1>9. CASE state = "REQUIRING_SIZE"
  BY <1>1, <1>9, RequiringSizeStep DEF Handle
<1>10. CASE state = "ANTICIPATING_TERMINATING"
  BY <1>1, <1>10, AnticipatingTerminatingStep DEF Handle
<1> QED
  BY <1>1, <1>2, <1>3, <1>4, <1>5, <1>6, <1>7, <1>8, <1>9, <1>10 DEF ParserState

-----------------------------------------------------------------------------
(* Type correctness and the statement under construction                   *)

LEMMA CoreInit ==
  ASSUME ParserInit
  PROVE  Core
<1>1. InputTypes
  BY TokenTypes DEF ParserInit, InputTypes
<1>2. ControlTypes /\ ControlInv
  BY DEF ParserInit, ControlTypes, ControlInv, ParserState
<1>3. LineTypes
  BY DEF ParserInit, LineTypes
<1>4. VectorTypes
  BY DEF ParserInit, VectorTypes, Vector!Init, Vector!TypeOK
<1>5. StmtInv
  BY StmtKinds DEF ParserInit, StmtInv, StmtOfState, RegisterAgrees
<1> QED
  BY <1>1, <1>2, <1>3, <1>4, <1>5 DEF Core

LEMMA VectorStays ==
  ASSUME VectorTypes, UNCHANGED vector_vars
  PROVE  VectorTypes'
BY DEF VectorTypes, Vector!TypeOK, vector_vars

LEMMA CoreInput ==
  ASSUME Core, NEW t \in Tokens, ParseOneToken(t)
  PROVE  Core'
<1>1. InputTypes'
  <2>1. calls' \in 0 .. MaxTokens
    BY TokenTypes DEF Core, InputTypes, ParseOneToken
  <2>2. fed' \in InputToken \X InputToken
    BY TokenTypes DEF Core, InputTypes, ParseOneToken
  <2> QED
    BY <2>1, <2>2, TokenTypes DEF Core, InputTypes, ParseOneToken
<1>2. ControlTypes' /\ ControlInv'
  BY DEF Core, ControlTypes, ControlInv, ParseOneToken, ParserState
<1>3. LineTypes'
  BY DEF Core, LineTypes, ParseOneToken, history_vars
<1>4. VectorTypes'
  BY VectorStays DEF Core, ParseOneToken
<1>5. StmtInv'
  <2>1. stmt' = stmt /\ state' = IF state \in {"INIT", "DONE"}
                                 THEN "GETTING_INITIAL" ELSE state
    BY DEF ParseOneToken
  <2>2. CASE state \in {"INIT", "DONE"}
    BY <2>1, <2>2 DEF Core, StmtInv, StmtOfState, RegisterAgrees
  <2>3. CASE state \notin {"INIT", "DONE"}
    BY <2>1, <2>3, StmtStays DEF Core
  <2> QED
    BY <2>2, <2>3
<1> QED
  BY <1>1, <1>2, <1>3, <1>4, <1>5 DEF Core

(* What the passes have in common.                                         *)
LEMMA FlowKinds ==
  ASSUME Core, Flow
  PROVE  /\ \/ FailHere(1)
            \/ \E next \in ParserState \ {"AWAITING_ARG_COMMA", "EXPECTING_COLON",
                                          "GETTING_INITIAL", "SETTING_DATA",
                                          "FINDING_ARGUMENT"} : Await(next)
            \/ \E next \in ParserState \ {"AWAITING_ARG_COMMA", "EXPECTING_COLON",
                                          "INIT", "DONE"} : Goto(next)
         /\ \/ UNCHANGED vector_vars
            \/ \E s \in Stmt : Push(s)
<1>1. CASE Refuses
  BY <1>1 DEF Refuses
<1>2. CASE Spins \/ BeginsData \/ BeginsInstruction \/ SkipsArguments
  BY <1>2 DEF Spins, BeginsData, BeginsInstruction, SkipsArguments, Moved,
              ParserState
<1>3. CASE \/ BeginsSection \/ BeginsOther \/ ReadsNumber \/ ReadsComma
           \/ ReadsSize \/ ReadsRegister \/ EndsLine
  BY <1>3 DEF BeginsSection, BeginsOther, ReadsNumber, ReadsComma, ReadsSize,
              ReadsRegister, EndsLine, Taken, ParserState
<1>4. CASE MarksLabel
  <2>1. Symbol(prev_token) \in Stmt
    BY TokenTypes, StmtKinds DEF Core, InputTypes, Symbol, Named
  <2> QED
    BY <1>4, <2>1 DEF MarksLabel, ParserState
<1>5. CASE NamesSection
  <2>1. [kind |-> "INSTRUCTION_STMT", s |-> [name |-> curr_token.span]] \in Stmt
    BY TokenTypes, StmtKinds DEF Core, InputTypes, Named
  <2> QED
    BY <1>5, <2>1 DEF NamesSection, ParserState
<1> QED
  BY <1>1, <1>2, <1>3, <1>4, <1>5 DEF Flow

LEMMA CoreHandle ==
  ASSUME Core, Handle
  PROVE  Core'
<1>1. Flow /\ StmtInv' /\ parser_pc = "loop" /\ UNCHANGED input_vars
  BY HandleStep
<1>2. InputTypes'
  BY <1>1 DEF Core, InputTypes, input_vars
<1>3. ControlTypes' /\ LineTypes' /\ ControlInv'
  <2>1. ControlTypes /\ LineTypes /\ ControlInv /\ curr_token \in InputToken
    BY DEF Core, InputTypes
  <2>2. CASE FailHere(1)
    BY <1>1, <2>1, <2>2, FailStep
  <2>3. ASSUME NEW next \in ParserState \ {"AWAITING_ARG_COMMA",
                   "EXPECTING_COLON", "GETTING_INITIAL", "SETTING_DATA",
                   "FINDING_ARGUMENT"},
               Await(next)
        PROVE  ControlTypes' /\ LineTypes' /\ ControlInv'
    BY <1>1, <2>1, <2>3, AwaitStep
  <2>4. ASSUME NEW next \in ParserState \ {"AWAITING_ARG_COMMA",
                                           "EXPECTING_COLON", "INIT", "DONE"},
               Goto(next)
        PROVE  ControlTypes' /\ LineTypes' /\ ControlInv'
    BY <1>1, <2>1, <2>4, GotoStep
  <2> QED
    BY <1>1, <2>2, <2>3, <2>4, FlowKinds
<1>4. VectorTypes'
  BY <1>1, FlowKinds, VectorStays, PushStep DEF Core
<1> QED
  BY <1>1, <1>2, <1>3, <1>4 DEF Core

LEMMA CoreStutter ==
  ASSUME Core, UNCHANGED parser_vars
  PROVE  Core'
<1>1. /\ UNCHANGED input_vars /\ UNCHANGED vector_vars /\ UNCHANGED history_vars
      /\ UNCHANGED <<need_new_token, state, stmt, parser_pc, parser_status>>
  BY DEF parser_vars
<1>2. InputTypes' /\ ControlTypes' /\ ControlInv'
  BY <1>1 DEF Core, InputTypes, ControlTypes, ControlInv, input_vars
<1>3. LineTypes'
  BY <1>1 DEF Core, LineTypes, history_vars
<1>4. VectorTypes' /\ StmtInv'
  BY <1>1, VectorStays, StmtStays DEF Core
<1> QED
  BY <1>2, <1>3, <1>4 DEF Core

LEMMA CoreInvariant == ParserSpec => []Core
<1>1. ParserInit => Core
  BY CoreInit
<1>2. Core /\ [ParserNext]_parser_vars => Core'
  BY CoreInput, CoreHandle, CoreStutter DEF ParserNext
<1> QED
  BY <1>1, <1>2, PTL DEF ParserSpec

(* The variables have their types, and the statement under construction    *)
(* holds the member its handler reads.                                     *)
THEOREM ParserTypeCorrect == ParserSpec => []ParserTypeOK
<1>1. Core => ParserTypeOK
  BY StmtKinds
  DEF Core, InputTypes, ControlTypes, LineTypes, VectorTypes, StmtInv,
      StmtOfState, ParserTypeOK
<1> QED
  BY <1>1, CoreInvariant, PTL

(* _set_register: no typed instruction is completed with a register of     *)
(* another type, whatever was refused before.                              *)
THEOREM RegisterCorrect == ParserSpec => []RegisterAgrees
<1>1. Core => RegisterAgrees
  BY DEF Core, StmtInv
<1> QED
  BY <1>1, CoreInvariant, PTL

(* What of an argument is bound stays so over any pass of the loop.        *)
LEMMA BoundKept ==
  ASSUME Core, [ParserNext]_parser_vars
  PROVE  KeepsBound
<1>1. SUFFICES ASSUME state = "FINDING_ARGUMENT", parser_pc = "loop"
               PROVE  \/ stmt' = stmt
                      \/ /\ stmt'.s.arg_1.a.type = stmt.s.arg_1.a.type
                         /\ stmt.s.arg_1.a.size # UNKNOWN_SIZE =>
                              stmt'.s.arg_1.a.size = stmt.s.arg_1.a.size
  BY DEF KeepsBound
<1>2. CASE Handle
  <2>1. FindingArgument
    BY <1>1, <1>2 DEF Handle
  <2>2. /\ stmt \in Stmt /\ stmt.kind = "INSTRUCTION_STMT"
        /\ stmt.s \in TwoRegisters /\ stmt.s.mnemonic \in {"NOP", "ADD"}
        /\ stmt.s.mnemonic = "ADD" => OfOneType(stmt.s)
    BY <1>1 DEF Core, StmtInv, StmtOfState
  <2>3. CASE stmt.s.mnemonic = "NOP"
    BY <2>1, <2>3 DEF FindingArgument
  <2>4. CASE stmt.s.mnemonic = "ADD"
    <3>1. OfOneType(stmt.s) /\ stmt.s.arg_1.a.id # UNKNOWN_REG
      BY <2>2, <2>4 DEF OfOneType
    <3>2. FindingRegister("arg_1", "ANTICIPATING_TERMINATING")
      BY <2>1, <2>4, <3>1 DEF FindingArgument, FindingTwoRegisters
    <3>3. PICK set : set = SetRegister(curr_token.span, stmt.s.arg_1.a,
                                       DefaultRegister)
      OBVIOUS
    <3>4. UNCHANGED stmt \/ stmt' = WithArg1(stmt, set.reg)
      BY <3>2, <3>3 DEF FindingRegister, WithArg1
    <3>5. curr_token.span \in Seq(STRING)
      BY TokenTypes DEF Core, InputTypes
    <3>6. stmt.s.arg_1.a \in RegisterType
      BY <2>2 DEF TwoRegisters
    <3>7. stmt.s.arg_1.a.type # UNKNOWN_TYPE
      BY <3>1 DEF OfOneType
    <3>8. /\ set.reg \in RegisterType /\ set.reg.id # UNKNOWN_REG
          /\ set.reg.type = stmt.s.arg_1.a.type
          /\ stmt.s.arg_1.a.size # UNKNOWN_SIZE =>
               set.reg.size = stmt.s.arg_1.a.size
      BY <3>1, <3>3, <3>5, <3>6, <3>7, SetRegisterResults
    <3>9. ASSUME stmt' = WithArg1(stmt, set.reg)
          PROVE  stmt'.s.arg_1.a = set.reg
      BY <2>2, <3>1, <3>8, <3>9, RegisterSet
    <3> QED
      BY <3>4, <3>8, <3>9
  <2> QED
    BY <2>2, <2>3, <2>4
<1>3. CASE (\E t \in Tokens : ParseOneToken(t)) \/ UNCHANGED parser_vars
  BY <1>1, <1>3 DEF ParseOneToken, parser_vars
<1> QED
  BY <1>2, <1>3 DEF ParserNext

(* _set_register: the type and the size an argument has got, from its      *)
(* mnemonic or from a register before, no register changes, not one that   *)
(* is refused half-way either.                                             *)
THEOREM BindingCorrect == ParserSpec => MnemonicBinds
<1>1. Core /\ [ParserNext]_parser_vars => [KeepsBound]_parser_vars
  BY BoundKept
<1> QED
  BY <1>1, CoreInvariant, PTL DEF ParserSpec, MnemonicBinds

-----------------------------------------------------------------------------
(* What is accepted                                                        *)

SectionWord(l) == Identifier(l[1]) /\ l[1].span = section
FirstWord(l) == Identifier(l[1]) /\ l[1].span # section

(* How many tokens of a statement are accepted in a state, and what tells  *)
(* section directives from the rest.                                       *)
LineOfState ==
  /\ state \in {"INIT", "DONE", "GETTING_INITIAL"} => line = <<>> /\ clean
  /\ state = "NEEDING_SECTION_NAME" => Len(line) = 1 /\ SectionWord(line)
  /\ state \in {"DETECTING_TYPE", "SETTING_DATA", "FINDING_ARGUMENT"} =>
       Len(line) = 1 /\ FirstWord(line)
  /\ state = "DEMANDING_SIZE_COMMA" =>
       Len(line) = 2 /\ FirstWord(line) /\ NumberRead(line[2], stmt.s)
  /\ state = "REQUIRING_SIZE" =>
       Len(line) = 3 /\ FirstWord(line) /\ NumberRead(line[2], stmt.s)
  /\ state = "ANTICIPATING_TERMINATING" =>
       \/ Len(line) = 2 /\ SectionWord(line)
       \/ Len(line) = 1 /\ FirstWord(line)
       \/ Len(line) = 2 /\ FirstWord(line) /\ Identifier(line[2])
       \/ Len(line) = 4 /\ FirstWord(line)

(* A statement but for its terminator.                                     *)
Finished(l) ==
  \/ Len(l) = 2 /\ SectionWord(l) /\ Identifier(l[2])
  \/ /\ Len(l) = 4 /\ Identifier(l[1]) /\ l[1].span = data
     /\ l[3].token_type = "COMMA" /\ l[4].token_type = "INT"
     /\ \/ /\ l[2].token_type = "INT" /\ l[4].value \in {1, 2, 4, 8}
           /\ StrToUint64(l[2].value) < Power(l[4].value)
        \/ l[2].token_type = "FLOAT" /\ l[4].value \in {4, 8}
  \/ /\ Identifier(l[1]) /\ l[1].span \notin {section, data}
     /\ \/ Len(l) = 1
        \/ Len(l) = 2 /\ Identifier(l[2])

(* What the accepted tokens are, where none was refused in between.        *)
LineIfClean ==
  /\ state = "DETECTING_TYPE" =>
       line[1] = IF parser_pc = "loop" THEN prev_token ELSE curr_token
  /\ state = "SETTING_DATA" => line[1].span = data
  /\ state = "FINDING_ARGUMENT" => line[1].span # data
  /\ state = "DEMANDING_SIZE_COMMA" => line[1].span = data
  /\ state = "REQUIRING_SIZE" =>
       line[1].span = data /\ line[3].token_type = "COMMA"
  /\ state = "ANTICIPATING_TERMINATING" => Finished(line)

LineInv == LineOfState /\ (clean => LineIfClean) /\ SizeFitsNumber

(* SizeFitsNumber asks nothing of other states and other statements.       *)
LEMMA SizeElsewhere ==
  ASSUME state' # "ANTICIPATING_TERMINATING" \/ stmt'.kind # "DATA_STMT"
  PROVE  SizeFitsNumber'
BY DEF SizeFitsNumber

LEMMA SizeStays ==
  ASSUME SizeFitsNumber, UNCHANGED <<stmt, line>>,
         state' = state \/ state' # "ANTICIPATING_TERMINATING"
  PROVE  SizeFitsNumber'
BY DEF SizeFitsNumber

LEMMA LineGrows ==
  ASSUME Core, NEW next, Await(next), next \notin {"INIT", "DONE"}
  PROVE  /\ line' = Append(line, curr_token)
         /\ Len(line') = Len(line) + 1 /\ line'[Len(line) + 1] = curr_token
         /\ \A i \in 1 .. Len(line) : line'[i] = line[i]
         /\ Len(line) \in Nat
         /\ state' = next /\ parser_pc' = "idle" /\ clean' = clean /\ lines' = lines
<1>1. /\ line' = Append(line, curr_token) /\ clean' = clean /\ lines' = lines
      /\ state' = next /\ parser_pc' = "idle"
  BY DEF Await
<1>2. line \in Seq(InputToken) /\ curr_token \in InputToken
  BY DEF Core, LineTypes, InputTypes
<1> QED
  BY <1>1, <1>2, AppendProperties, LenProperties

LEMMA LineEnds ==
  ASSUME Core, NEW next, Await(next), next \in {"INIT", "DONE"}
  PROVE  /\ line' = <<>> /\ clean' = TRUE /\ state' = next
         /\ lines' = Append(lines, [tokens |-> Append(line, curr_token),
                                    clean |-> clean])
BY DEF Await

LEMMA LineInit ==
  ASSUME ParserInit
  PROVE  LineInv
BY DEF ParserInit, LineInv, LineOfState, LineIfClean, SizeFitsNumber

LEMMA LineInput ==
  ASSUME Core, LineInv, NEW t \in Tokens, ParseOneToken(t)
  PROVE  LineInv'
<1>1. /\ UNCHANGED history_vars /\ UNCHANGED stmt
      /\ prev_token' = curr_token /\ parser_pc = "idle" /\ parser_pc' = "loop"
      /\ state' = IF state \in {"INIT", "DONE"} THEN "GETTING_INITIAL" ELSE state
  BY DEF ParseOneToken
<1>2. line' = line /\ clean' = clean
  BY <1>1 DEF history_vars
<1>3. LineOfState'
  BY <1>1, <1>2 DEF LineInv, LineOfState, FirstWord, SectionWord, Identifier
<1>4. ASSUME clean PROVE LineIfClean'
  <2>1. LineIfClean
    BY <1>4 DEF LineInv
  <2>2. CASE state \in {"INIT", "DONE"}
    BY <1>1, <2>2 DEF LineIfClean
  <2>3. CASE state \notin {"INIT", "DONE"}
    BY <1>1, <1>2, <2>1, <2>3
    DEF LineIfClean, Finished, SectionWord, Identifier, NumberRead
  <2> QED
    BY <2>2, <2>3
<1>5. SizeFitsNumber'
  BY <1>1, <1>2, SizeStays DEF LineInv
<1> QED
  BY <1>2, <1>3, <1>4, <1>5 DEF LineInv

LEMMA LineFlow ==
  ASSUME Core, LineInv, Flow, parser_pc = "loop", UNCHANGED input_vars
  PROVE  LineInv'
<1>1. /\ LineOfState /\ (clean => LineIfClean) /\ SizeFitsNumber
      /\ prev_token' = prev_token /\ curr_token' = curr_token
  BY DEF LineInv, input_vars
<1>2. CASE Refuses
  <2>1. state' = state /\ line' = line /\ clean' = (line = <<>>)
    BY <1>2 DEF Refuses, FailHere, FailIn
  <2>5. state \in {"DEMANDING_SIZE_COMMA", "REQUIRING_SIZE"} => UNCHANGED stmt
    BY <1>2 DEF Refuses
  <2>2. LineOfState'
    BY <1>1, <2>1, <2>5
    DEF LineOfState, FirstWord, SectionWord, Identifier, NumberRead
  <2>3. ASSUME clean' PROVE LineIfClean'
    <3>1. line = <<>>
      BY <2>1, <2>3, Zenon
    <3>2. Len(line) = 0
      BY <3>1
    <3>3. state \in {"INIT", "DONE", "GETTING_INITIAL", "AWAITING_ARG_COMMA",
                     "EXPECTING_COLON"}
      BY <1>1, <3>2 DEF LineOfState, Core, ControlTypes, ParserState
    <3> QED
      BY <2>1, <3>3 DEF LineIfClean
  <2>4. SizeFitsNumber'
    <3>1. CASE state = "ANTICIPATING_TERMINATING"
      <4>1. UNCHANGED stmt
        BY <1>2, <3>1 DEF Refuses
      <4> QED
        BY <1>1, <2>1, <4>1, SizeStays
    <3>2. CASE state # "ANTICIPATING_TERMINATING"
      BY <2>1, <3>2, SizeElsewhere
    <3> QED
      BY <3>1, <3>2
  <2> QED
    BY <2>2, <2>3, <2>4 DEF LineInv
<1>3. CASE Spins
  <2>1. /\ state = "NEEDING_SECTION_NAME" /\ state' = state
        /\ line' = line /\ clean' = clean
    BY <1>3 DEF Spins, Moved, Goto, history_vars
  <2>2. SizeFitsNumber'
    BY <2>1, SizeElsewhere
  <2> QED
    BY <1>1, <2>1, <2>2 DEF LineInv, LineOfState, LineIfClean
<1>4. CASE BeginsSection
  <2>1. /\ Await("NEEDING_SECTION_NAME") /\ state = "GETTING_INITIAL"
        /\ Identifier(curr_token) /\ curr_token.span = section
    BY <1>4 DEF BeginsSection, Taken
  <2>2. Len(line) = 0
    BY <1>1, <2>1 DEF LineOfState
  <2>3. Len(line') = 1 /\ line'[1] = curr_token /\ state' = "NEEDING_SECTION_NAME"
    BY <2>1, <2>2, LineGrows
  <2>4. SizeFitsNumber'
    BY <2>3, SizeElsewhere
  <2> QED
    BY <2>1, <2>3, <2>4
    DEF LineInv, LineOfState, LineIfClean, SectionWord, Identifier
<1>5. CASE BeginsOther
  <2>1. /\ Await("DETECTING_TYPE") /\ state = "GETTING_INITIAL"
        /\ Identifier(curr_token) /\ curr_token.span # section
    BY <1>5 DEF BeginsOther, Taken
  <2>2. Len(line) = 0
    BY <1>1, <2>1 DEF LineOfState
  <2>3. /\ Len(line') = 1 /\ line'[1] = curr_token
        /\ state' = "DETECTING_TYPE" /\ parser_pc' = "idle"
    BY <2>1, <2>2, LineGrows
  <2>4. SizeFitsNumber'
    BY <2>3, SizeElsewhere
  <2> QED
    BY <1>1, <2>1, <2>3, <2>4
    DEF LineInv, LineOfState, LineIfClean, FirstWord, Identifier
<1>6. CASE BeginsData
  <2>1. /\ state = "DETECTING_TYPE" /\ state' = "SETTING_DATA"
        /\ line' = line /\ clean' = clean /\ prev_token.span = data
    BY <1>6 DEF BeginsData, Moved, Goto, history_vars
  <2>2. SizeFitsNumber'
    BY <2>1, SizeElsewhere
  <2> QED
    BY <1>1, <2>1, <2>2
    DEF LineInv, LineOfState, LineIfClean, FirstWord, Identifier
<1>7. CASE BeginsInstruction
  <2>1. /\ state = "DETECTING_TYPE" /\ state' = "FINDING_ARGUMENT"
        /\ line' = line /\ clean' = clean /\ prev_token.span # data
    BY <1>7 DEF BeginsInstruction, Moved, Goto, history_vars
  <2>2. SizeFitsNumber'
    BY <2>1, SizeElsewhere
  <2> QED
    BY <1>1, <2>1, <2>2
    DEF LineInv, LineOfState, LineIfClean, FirstWord, Identifier
<1>8. CASE MarksLabel
  <2>1. Await("INIT")
    BY <1>8 DEF MarksLabel
  <2>2. line' = <<>> /\ clean' = TRUE /\ state' = "INIT"
    BY <2>1, LineEnds
  <2>3. SizeFitsNumber'
    BY <2>2, SizeElsewhere
  <2> QED
    BY <2>2, <2>3 DEF LineInv, LineOfState, LineIfClean
<1>9. CASE NamesSection
  <2>1. /\ Await("ANTICIPATING_TERMINATING") /\ state = "NEEDING_SECTION_NAME"
        /\ Identifier(curr_token) /\ stmt'.kind # "DATA_STMT"
    BY <1>9 DEF NamesSection
  <2>2. Len(line) = 1 /\ SectionWord(line)
    BY <1>1, <2>1 DEF LineOfState
  <2>3. /\ Len(line') = 2 /\ line'[2] = curr_token /\ line'[1] = line[1]
        /\ state' = "ANTICIPATING_TERMINATING"
    BY <2>1, <2>2, LineGrows
  <2>4. Finished(line')
    BY <2>1, <2>2, <2>3 DEF Finished, SectionWord, Identifier
  <2>5. SizeFitsNumber'
    BY <2>1, SizeElsewhere
  <2> QED
    BY <2>2, <2>3, <2>4, <2>5
    DEF LineInv, LineOfState, LineIfClean, SectionWord, Identifier
<1>10. CASE ReadsNumber
  <2>1. /\ Await("DEMANDING_SIZE_COMMA") /\ state = "SETTING_DATA"
        /\ NumberRead(curr_token, stmt'.s)
    BY <1>10 DEF ReadsNumber, Taken
  <2>2. Len(line) = 1 /\ FirstWord(line) /\ (clean => line[1].span = data)
    BY <1>1, <2>1 DEF LineOfState, LineIfClean
  <2>3. /\ Len(line') = 2 /\ line'[2] = curr_token /\ line'[1] = line[1]
        /\ state' = "DEMANDING_SIZE_COMMA" /\ clean' = clean
    BY <2>1, <2>2, LineGrows
  <2>4. SizeFitsNumber'
    BY <2>3, SizeElsewhere
  <2> QED
    BY <2>1, <2>2, <2>3, <2>4
    DEF LineInv, LineOfState, LineIfClean, FirstWord, Identifier, NumberRead
<1>11. CASE ReadsComma
  <2>1. /\ Await("REQUIRING_SIZE") /\ state = "DEMANDING_SIZE_COMMA"
        /\ curr_token.token_type = "COMMA" /\ stmt' = stmt
    BY <1>11 DEF ReadsComma, Taken
  <2>2. /\ Len(line) = 2 /\ FirstWord(line) /\ NumberRead(line[2], stmt.s)
        /\ clean => line[1].span = data
    BY <1>1, <2>1 DEF LineOfState, LineIfClean
  <2>3. /\ Len(line') = 3 /\ line'[3] = curr_token
        /\ line'[1] = line[1] /\ line'[2] = line[2]
        /\ state' = "REQUIRING_SIZE" /\ clean' = clean
    BY <2>1, <2>2, LineGrows
  <2>4. SizeFitsNumber'
    BY <2>3, SizeElsewhere
  <2> QED
    BY <2>1, <2>2, <2>3, <2>4
    DEF LineInv, LineOfState, LineIfClean, FirstWord, Identifier, NumberRead
<1>12. CASE ReadsSize
  <2> DEFINE number == line[2]
             size   == curr_token.value
  <2>1. /\ Await("ANTICIPATING_TERMINATING") /\ state = "REQUIRING_SIZE"
        /\ curr_token.token_type = "INT"
        /\ \/ /\ stmt.s.type = UNSIGNED_INT_TYPE
              /\ size \in {1, 2, 4, 8} /\ stmt.s.length <= size
              /\ stmt'.s.data = stmt.s.data
           \/ /\ stmt.s.type = FLOAT_TYPE /\ size \in {4, 8}
              /\ stmt'.s.data.form = IF size = 4 THEN "float" ELSE "double"
        /\ stmt'.s.size = size
    BY <1>12 DEF ReadsSize, Taken
  <2>2. /\ Len(line) = 3 /\ FirstWord(line) /\ NumberRead(number, stmt.s)
        /\ clean => line[1].span = data /\ line[3].token_type = "COMMA"
    BY <1>1, <2>1 DEF LineOfState, LineIfClean
  <2>3. /\ Len(line') = 4 /\ line'[4] = curr_token
        /\ line'[1] = line[1] /\ line'[2] = number /\ line'[3] = line[3]
        /\ state' = "ANTICIPATING_TERMINATING" /\ clean' = clean
    BY <2>1, <2>2, LineGrows
  <2>4. \/ /\ number.token_type = "INT" /\ size \in {1, 2, 4, 8}
           /\ stmt'.s.data.form = "int"
           /\ LeIntWidth(StrToUint64(number.value), 0) <= size
        \/ /\ number.token_type = "FLOAT" /\ size \in {4, 8}
           /\ stmt'.s.data.form = IF size = 4 THEN "float" ELSE "double"
    BY <2>1, <2>2 DEF NumberRead, UNSIGNED_INT_TYPE, FLOAT_TYPE
  <2>5. ASSUME number.token_type = "INT", size \in {1, 2, 4, 8},
               LeIntWidth(StrToUint64(number.value), 0) <= size
        PROVE  StrToUint64(number.value) < Power(size)
    <3>1. line \in Seq(InputToken)
      BY DEF Core, LineTypes
    <3>10. 2 \in 1 .. Len(line)
      BY <2>2
    <3>2. number \in InputToken
      BY <3>1, <3>10, ElementOfSeq
    <3>3. number.value \in Nat
      BY <3>2, TokenTypes
    <3>4. PICK n : n = StrToUint64(number.value)
      OBVIOUS
    <3>5. n \in Nat
      BY <3>3, <3>4, Uint64Types
    <3>6. n <= UINT64_MAX
      BY <3>3, <3>4, Uint64Types
    <3>7. PICK k : k = size
      OBVIOUS
    <3>8. k \in {1, 2, 4, 8} /\ LeIntWidth(n, 0) <= k
      BY <2>5, <3>4, <3>7
    <3>9. n < Power(k)
      BY ONLY <3>5, <3>6, <3>8, WidthFits
    <3> QED
      BY <3>4, <3>7, <3>9
  <2>6. SizeFitsNumber'
    BY <2>1, <2>3, <2>4, <2>5 DEF SizeFitsNumber
  <2>7. ASSUME clean PROVE Finished(line')
    BY <2>1, <2>2, <2>3, <2>4, <2>5, <2>7 DEF Finished, FirstWord, Identifier
  <2> QED
    BY <2>2, <2>3, <2>6, <2>7
    DEF LineInv, LineOfState, LineIfClean, FirstWord, Identifier
<1>13. CASE SkipsArguments
  <2>1. /\ state = "FINDING_ARGUMENT" /\ state' = "ANTICIPATING_TERMINATING"
        /\ line' = line /\ clean' = clean /\ stmt'.kind # "DATA_STMT"
    BY <1>13 DEF SkipsArguments, Moved, Goto, history_vars
  <2>2. Len(line) = 1 /\ FirstWord(line)
    BY <1>1, <2>1 DEF LineOfState
  <2>3. ASSUME clean PROVE Finished(line)
    <3>1. line[1].span # data
      BY <1>1, <2>1, <2>3 DEF LineIfClean
    <3> QED
      BY <2>2, <3>1 DEF Finished, FirstWord
  <2>4. Finished(line') <=> Finished(line)
    BY <2>1 DEF Finished, SectionWord, Identifier
  <2>5. SizeFitsNumber'
    BY <2>1, SizeElsewhere
  <2> QED
    BY <2>1, <2>2, <2>3, <2>4, <2>5
    DEF LineInv, LineOfState, LineIfClean, FirstWord, Identifier
<1>14. CASE ReadsRegister
  <2>1. /\ Await("ANTICIPATING_TERMINATING") /\ state = "FINDING_ARGUMENT"
        /\ Identifier(curr_token) /\ stmt'.kind # "DATA_STMT"
    BY <1>14 DEF ReadsRegister, Taken
  <2>2. Len(line) = 1 /\ FirstWord(line)
    BY <1>1, <2>1 DEF LineOfState
  <2>3. /\ Len(line') = 2 /\ line'[2] = curr_token /\ line'[1] = line[1]
        /\ state' = "ANTICIPATING_TERMINATING" /\ clean' = clean
    BY <2>1, <2>2, LineGrows
  <2>4. ASSUME clean PROVE Finished(line')
    <3>1. line[1].span # data
      BY <1>1, <2>1, <2>4 DEF LineIfClean
    <3> QED
      BY <2>1, <2>2, <2>3, <3>1 DEF Finished, FirstWord, Identifier
  <2>5. SizeFitsNumber'
    BY <2>1, SizeElsewhere
  <2> QED
    BY <2>1, <2>2, <2>3, <2>4, <2>5
    DEF LineInv, LineOfState, LineIfClean, FirstWord, Identifier
<1>15. CASE EndsLine
  <2>1. Await("DONE")
    BY <1>15 DEF EndsLine, Taken
  <2>2. line' = <<>> /\ clean' = TRUE /\ state' = "DONE"
    BY <2>1, LineEnds
  <2>3. SizeFitsNumber'
    BY <2>2, SizeElsewhere
  <2> QED
    BY <2>2, <2>3 DEF LineInv, LineOfState, LineIfClean
<1> QED
  BY <1>2, <1>3, <1>4, <1>5, <1>6, <1>7, <1>8, <1>9, <1>10, <1>11, <1>12, <1>13,
     <1>14, <1>15 DEF Flow

LEMMA FinishedAccepted ==
  ASSUME NEW l \in Seq(InputToken), NEW t \in InputToken, Terminator(t), Finished(l),
         NEW m, m = Append(l, t)
  PROVE  IsSection(m) \/ IsData(m) \/ IsInstruction(m)
<1>1. /\ Len(m) = Len(l) + 1 /\ m[Len(l) + 1] = t
      /\ \A i \in 1 .. Len(l) : m[i] = l[i]
  BY AppendProperties, LenProperties
<1>2. CASE Len(l) = 2 /\ SectionWord(l) /\ Identifier(l[2])
  BY <1>1, <1>2 DEF IsSection, SectionWord
<1>3. CASE /\ Len(l) = 4 /\ Identifier(l[1]) /\ l[1].span = data
           /\ l[3].token_type = "COMMA" /\ l[4].token_type = "INT"
           /\ \/ /\ l[2].token_type = "INT" /\ l[4].value \in {1, 2, 4, 8}
                 /\ StrToUint64(l[2].value) < Power(l[4].value)
              \/ l[2].token_type = "FLOAT" /\ l[4].value \in {4, 8}
  BY <1>1, <1>3 DEF IsData
<1>4. CASE /\ Identifier(l[1]) /\ l[1].span \notin {section, data}
           /\ \/ Len(l) = 1
              \/ Len(l) = 2 /\ Identifier(l[2])
  BY <1>1, <1>4 DEF IsInstruction, Identifier
<1> QED
  BY <1>2, <1>3, <1>4 DEF Finished

LEMMA LinesKept ==
  ASSUME Core, Flow, ~MarksLabel, ~EndsLine
  PROVE  lines' = lines
<1>1. CASE Refuses
  BY <1>1 DEF Refuses, FailHere, FailIn
<1>2. CASE Spins \/ BeginsData \/ BeginsInstruction \/ SkipsArguments
  BY <1>2 DEF Spins, BeginsData, BeginsInstruction, SkipsArguments, Moved, Goto,
              history_vars
<1>3. CASE \/ BeginsSection \/ BeginsOther \/ NamesSection
           \/ ReadsNumber \/ ReadsComma \/ ReadsSize \/ ReadsRegister
  <2>1. \E next \in ParserState \ {"INIT", "DONE"} : Await(next)
    BY <1>3 DEF BeginsSection, BeginsOther, NamesSection, ReadsNumber, ReadsComma,
                ReadsSize, ReadsRegister, Taken, ParserState
  <2> QED
    BY <2>1, LineGrows
<1> QED
  BY <1>1, <1>2, <1>3 DEF Flow

AcceptedLine(l) == IsLabel(l) \/ IsSection(l) \/ IsData(l) \/ IsInstruction(l)

LEMMA AcceptedFlow ==
  ASSUME Core, LineInv, AcceptedStatements, Flow
  PROVE  AcceptedStatements'
<1>1. /\ line \in Seq(InputToken) /\ curr_token \in InputToken
      /\ lines \in Seq([tokens : Seq(InputToken), clean : BOOLEAN])
  BY DEF Core, LineTypes, InputTypes
<1>2. ASSUME NEW x, x = [tokens |-> Append(line, curr_token), clean |-> clean],
             lines' = Append(lines, x), clean => AcceptedLine(x.tokens)
      PROVE  AcceptedStatements'
  <2>1. x \in [tokens : Seq(InputToken), clean : BOOLEAN]
    BY <1>1, <1>2, AppendProperties DEF Core, LineTypes
  <2>2. /\ Len(lines') = Len(lines) + 1 /\ lines'[Len(lines) + 1] = x
        /\ \A i \in 1 .. Len(lines) : lines'[i] = lines[i]
        /\ Len(lines) \in Nat
    BY <1>1, <1>2, <2>1, AppendProperties, LenProperties
  <2>3. SUFFICES ASSUME NEW i \in 1 .. Len(lines'), lines'[i].clean
                 PROVE  AcceptedLine(lines'[i].tokens)
    BY DEF AcceptedStatements, AcceptedLine
  <2>4. CASE i = Len(lines) + 1
    BY <1>2, <2>2, <2>3, <2>4
  <2>5. CASE i # Len(lines) + 1
    <3>1. i \in 1 .. Len(lines) /\ lines'[i] = lines[i]
      BY <2>2, <2>5
    <3> QED
      BY <2>3, <3>1 DEF AcceptedStatements, AcceptedLine
  <2> QED
    BY <2>4, <2>5
<1>3. CASE MarksLabel
  <2>1. state = "DETECTING_TYPE" /\ curr_token.token_type = "COLON" /\ Await("INIT")
    BY <1>3 DEF MarksLabel
  <2>2. Len(line) = 1 /\ FirstWord(line)
    BY <2>1 DEF LineInv, LineOfState
  <2>3. IsLabel(Append(line, curr_token))
    <3>1. PICK m : m = Append(line, curr_token)
      OBVIOUS
    <3>2. /\ Len(m) = Len(line) + 1 /\ m[Len(line) + 1] = curr_token
          /\ \A i \in 1 .. Len(line) : m[i] = line[i]
      BY <1>1, <3>1, AppendProperties
    <3>3. Len(m) = 2 /\ m[1] = line[1] /\ m[2] = curr_token
      BY <2>2, <3>2
    <3>4. IsLabel(m)
      BY <2>1, <2>2, <3>3 DEF IsLabel, FirstWord
    <3> QED
      BY <3>1, <3>4
  <2> QED
    BY <1>2, <2>1, <2>3, LineEnds DEF AcceptedLine
<1>4. CASE EndsLine
  <2>1. /\ state = "ANTICIPATING_TERMINATING" /\ Terminator(curr_token)
        /\ Await("DONE")
    BY <1>4 DEF EndsLine, Taken
  <2>2. clean => Finished(line)
    BY <2>1 DEF LineInv, LineIfClean
  <2>3. clean => AcceptedLine(Append(line, curr_token))
    BY <1>1, <2>1, <2>2, FinishedAccepted DEF AcceptedLine
  <2> QED
    BY <1>2, <2>1, <2>3, LineEnds
<1>5. CASE ~MarksLabel /\ ~EndsLine
  BY <1>5, LinesKept DEF AcceptedStatements
<1> QED
  BY <1>3, <1>4, <1>5

LineCore == Core /\ LineInv

LEMMA LineCoreStep ==
  ASSUME LineCore, [ParserNext]_parser_vars
  PROVE  LineCore'
<1>1. CASE \E t \in Tokens : ParseOneToken(t)
  BY <1>1, CoreInput, LineInput DEF LineCore
<1>2. CASE Handle
  <2>1. Core'
    BY <1>2, CoreHandle DEF LineCore
  <2>2. LineInv'
    BY <1>2, HandleStep, LineFlow DEF LineCore
  <2> QED
    BY <2>1, <2>2 DEF LineCore
<1>3. CASE UNCHANGED parser_vars
  <2>1. Core'
    BY <1>3, CoreStutter DEF LineCore
  <2>2. LineInv'
    BY <1>3
    DEF LineCore, LineInv, LineOfState, LineIfClean, Finished, FirstWord,
        SectionWord, Identifier, NumberRead, SizeFitsNumber, parser_vars,
        input_vars, history_vars
  <2> QED
    BY <2>1, <2>2 DEF LineCore
<1> QED
  BY <1>1, <1>2, <1>3 DEF ParserNext

LEMMA LineCoreInvariant == ParserSpec => []LineCore
<1>1. ParserInit => LineCore
  BY CoreInit, LineInit DEF LineCore
<1> QED
  BY <1>1, LineCoreStep, PTL DEF ParserSpec

LEMMA AcceptedStep ==
  ASSUME LineCore, AcceptedStatements, [ParserNext]_parser_vars
  PROVE  AcceptedStatements'
<1>1. CASE Handle
  BY <1>1, HandleStep, AcceptedFlow DEF LineCore
<1>2. CASE (\E t \in Tokens : ParseOneToken(t)) \/ UNCHANGED parser_vars
  <2>1. lines' = lines
    BY <1>2 DEF ParseOneToken, parser_vars, history_vars
  <2> QED
    BY <2>1 DEF AcceptedStatements
<1> QED
  BY <1>1, <1>2 DEF ParserNext

(* requiring_size: whatever is refused on the way, the size accepted holds *)
(* the number of the line, and a float is converted once, for the size 4.  *)
THEOREM DataCorrect == ParserSpec => []SizeFitsNumber
<1>1. LineCore => SizeFitsNumber
  BY DEF LineCore, LineInv
<1> QED
  BY <1>1, LineCoreInvariant, PTL

(* What parse_one_token accepts without an error is a sequence of labels,  *)
(* section directives, data of a size that holds them and instructions,    *)
(* each ended by its colon, a newline or the end of the file.              *)
THEOREM AcceptedCorrect == ParserSpec => []AcceptedStatements
<1>1. ParserInit => AcceptedStatements
  BY DEF ParserInit, AcceptedStatements
<1> QED
  BY <1>1, AcceptedStep, LineCoreInvariant, PTL DEF ParserSpec

-----------------------------------------------------------------------------
(* What is pushed                                                          *)

(* The tokens at hand are those handed over last, and a section is named   *)
(* right after the word section.                                           *)
SourceInv ==
  /\ fed = <<prev_token, curr_token>>
  /\ state = "NEEDING_SECTION_NAME" =>
       (IF parser_pc = "loop" THEN prev_token ELSE curr_token).span = section
  /\ \A i \in 1 .. Len(pushed) :
       pushed[i].call <= calls /\ (parser_pc = "loop" => pushed[i].call < calls)
  /\ StatementsFromSource

(* The passes that push, and the rest.                                     *)
LEMMA VectorKept ==
  ASSUME Flow, ~MarksLabel, ~NamesSection
  PROVE  UNCHANGED vector_vars
BY DEF Flow, Refuses, Spins, BeginsSection, BeginsOther, BeginsData,
       BeginsInstruction, ReadsNumber, ReadsComma, ReadsSize, SkipsArguments,
       ReadsRegister, EndsLine, Moved, Taken

LEMMA SourceStays ==
  ASSUME StatementsFromSource, UNCHANGED vector_vars
  PROVE  StatementsFromSource'
<1>1. statements' = statements /\ pushed' = pushed
  BY DEF vector_vars
<1> QED
  BY <1>1 DEF StatementsFromSource, Identifier

LEMMA PushedTypes ==
  ASSUME Core
  PROVE  calls \in Nat /\ \A i \in 1 .. Len(pushed) : pushed[i].call \in Nat
<1>1. pushed \in Seq([call : Nat, fed : InputToken \X InputToken]) /\ calls \in Nat
  BY TokenTypes DEF Core, VectorTypes, InputTypes
<1>2. SUFFICES ASSUME NEW i \in 1 .. Len(pushed) PROVE pushed[i].call \in Nat
  BY <1>1
<1>3. pushed[i] \in [call : Nat, fed : InputToken \X InputToken]
  BY <1>1, ElementOfSeq
<1> QED
  BY <1>3

LEMMA SourceInput ==
  ASSUME Core, SourceInv, NEW t \in Tokens, ParseOneToken(t)
  PROVE  SourceInv'
<1>1. /\ prev_token' = curr_token /\ curr_token' = t /\ fed' = <<fed[2], t>>
      /\ parser_pc = "idle" /\ parser_pc' = "loop" /\ calls' = calls + 1
      /\ UNCHANGED vector_vars
      /\ state' = IF state \in {"INIT", "DONE"} THEN "GETTING_INITIAL" ELSE state
  BY DEF ParseOneToken
<1>2. fed' = <<prev_token', curr_token'>>
  BY <1>1 DEF SourceInv
<1>3. state' = "NEEDING_SECTION_NAME" => prev_token'.span = section
  BY <1>1 DEF SourceInv
<1>4. pushed' = pushed
  BY <1>1 DEF vector_vars
<1>5. ASSUME NEW i \in 1 .. Len(pushed) PROVE pushed[i].call < calls + 1
  <2>1. pushed[i].call \in Nat /\ calls \in Nat
    BY PushedTypes
  <2>2. pushed[i].call <= calls
    BY DEF SourceInv
  <2> QED
    BY <2>1, <2>2
<1>6. ASSUME NEW i \in 1 .. Len(pushed) PROVE pushed[i].call <= calls + 1
  <2>1. pushed[i].call \in Nat /\ calls \in Nat
    BY PushedTypes
  <2>2. pushed[i].call < calls + 1
    BY <1>5
  <2> QED
    BY <2>1, <2>2
<1>7. StatementsFromSource'
  BY <1>1, SourceStays DEF SourceInv
<1> QED
  BY <1>1, <1>2, <1>3, <1>4, <1>5, <1>6, <1>7 DEF SourceInv

(* A statement pushed joins the others, if there is memory for it.         *)
LEMMA SourcePush ==
  ASSUME Core, SourceInv, parser_pc = "loop", UNCHANGED input_vars,
         NEW s \in Stmt, Push(s), parser_pc' = "idle",
         \/ /\ s.kind = "SYMBOL_STMT" /\ fed[2].token_type = "COLON"
            /\ s.s.name = fed[1].span
         \/ /\ s.kind = "INSTRUCTION_STMT"
            /\ fed[1].span = section /\ Identifier(fed[2])
            /\ s.s.name = fed[2].span
  PROVE  /\ StatementsFromSource'
         /\ \A i \in 1 .. Len(pushed') : pushed'[i].call <= calls
<1> DEFINE entry == [call |-> calls, fed |-> fed]
<1>1. VectorTypes /\ InputTypes /\ calls \in Nat
  BY TokenTypes DEF Core, InputTypes
<1>2. /\ statements \in Seq(Stmt)
      /\ pushed \in Seq([call : Nat, fed : InputToken \X InputToken])
      /\ entry \in [call : Nat, fed : InputToken \X InputToken]
  BY <1>1 DEF VectorTypes, Vector!TypeOK, InputTypes
<1>3. /\ Len(pushed) = Len(statements) /\ Len(statements) \in Nat
      /\ \A i \in 1 .. Len(pushed) : pushed[i].call < calls
                                     /\ pushed[i].call <= calls
  <2>1. \A i \in 1 .. Len(pushed) : pushed[i].call \in Nat
    BY PushedTypes
  <2> QED
    BY <1>2, <2>1, LenProperties DEF SourceInv, StatementsFromSource
<1>4. CASE statements' = statements /\ pushed' = pushed
  BY <1>3, <1>4 DEF SourceInv, StatementsFromSource, Identifier
<1>5. CASE statements' = Append(statements, s) /\ pushed' = Append(pushed, entry)
  <2> DEFINE n == Len(statements) + 1
  <2>1. /\ Len(statements') = n /\ statements'[n] = s
        /\ \A i \in 1 .. Len(statements) : statements'[i] = statements[i]
    BY <1>2, <1>3, <1>5, AppendProperties
  <2>2. /\ Len(pushed') = n /\ pushed'[n] = entry
        /\ \A i \in 1 .. Len(statements) : pushed'[i] = pushed[i]
    BY <1>2, <1>3, <1>5, AppendProperties
  <2>3. n \in Nat /\ \A i \in 1 .. n : i = n \/ i \in 1 .. Len(statements)
    BY <1>3
  <2>4. entry.call = calls /\ entry.fed = fed
    OBVIOUS
  <2> HIDE DEF n, entry
  <2>5. \A i \in 1 .. Len(pushed') : pushed'[i].call <= calls
    BY <1>1, <1>3, <2>2, <2>3, <2>4
  <2>6. SUFFICES ASSUME NEW i \in 1 .. n
                 PROVE  /\ \A j \in 1 .. i - 1 : pushed'[j].call < pushed'[i].call
                        /\ \/ /\ statements'[i].kind = "SYMBOL_STMT"
                              /\ pushed'[i].fed[2].token_type = "COLON"
                              /\ statements'[i].s.name = pushed'[i].fed[1].span
                           \/ /\ statements'[i].kind = "INSTRUCTION_STMT"
                              /\ pushed'[i].fed[1].span = section
                              /\ Identifier(pushed'[i].fed[2])
                              /\ statements'[i].s.name = pushed'[i].fed[2].span
    BY <2>1, <2>2, <2>5 DEF StatementsFromSource, Identifier
  <2>7. CASE i = n
    <3>1. \A j \in 1 .. n - 1 : pushed'[j].call < pushed'[n].call
      BY <1>3, <2>2, <2>4 DEF n
    <3> QED
      BY <2>1, <2>2, <2>4, <2>7, <3>1
  <2>8. CASE i # n
    <3>1. i \in 1 .. Len(statements)
      BY <2>3, <2>8
    <3>2. \A j \in 1 .. i - 1 : j \in 1 .. Len(statements)
      BY <1>3, <3>1
    <3>3. statements'[i] = statements[i] /\ pushed'[i] = pushed[i]
      BY <2>1, <2>2, <3>1
    <3>4. \A j \in 1 .. i - 1 : pushed'[j].call < pushed'[i].call
      BY <2>2, <3>1, <3>2, <3>3 DEF SourceInv, StatementsFromSource
    <3> QED
      BY <3>1, <3>3, <3>4 DEF SourceInv, StatementsFromSource
  <2> QED
    BY <2>7, <2>8
<1> QED
  BY <1>1, <1>4, <1>5, PushStep

LEMMA SourceFlow ==
  ASSUME Core, SourceInv, Flow, parser_pc = "loop", UNCHANGED input_vars
  PROVE  SourceInv'
<1>1. /\ fed = <<prev_token, curr_token>>
      /\ fed' = <<prev_token', curr_token'>>
      /\ calls' = calls /\ prev_token' = prev_token /\ curr_token' = curr_token
  BY DEF SourceInv, input_vars
<1>2. CASE MarksLabel
  <2>1. /\ curr_token.token_type = "COLON"
        /\ Push(Symbol(prev_token)) /\ Await("INIT")
    BY <1>2 DEF MarksLabel
  <2>2. state' = "INIT" /\ parser_pc' = "idle"
    BY <2>1 DEF Await
  <2>3. /\ Symbol(prev_token) \in Stmt
        /\ Symbol(prev_token).kind = "SYMBOL_STMT"
        /\ Symbol(prev_token).s.name = prev_token.span
    BY TokenTypes, StmtKinds DEF Core, InputTypes, Symbol, Named
  <2>4. /\ StatementsFromSource'
        /\ \A i \in 1 .. Len(pushed') : pushed'[i].call <= calls
    BY <1>1, <2>1, <2>2, <2>3, SourcePush
  <2> QED
    BY <1>1, <2>2, <2>4 DEF SourceInv
<1>3. CASE NamesSection
  <2> DEFINE named == [kind |-> "INSTRUCTION_STMT",
                       s |-> [name |-> curr_token.span]]
  <2>1. /\ Identifier(curr_token) /\ state = "NEEDING_SECTION_NAME"
        /\ Push(named) /\ Await("ANTICIPATING_TERMINATING")
    BY <1>3 DEF NamesSection
  <2>2. state' = "ANTICIPATING_TERMINATING" /\ parser_pc' = "idle"
    BY <2>1 DEF Await
  <2>3. /\ named \in Stmt /\ named.s.name = curr_token.span
        /\ named.kind = "INSTRUCTION_STMT"
    BY TokenTypes, StmtKinds DEF Core, InputTypes, Named
  <2> HIDE DEF named
  <2>4. prev_token.span = section
    BY <2>1 DEF SourceInv
  <2>5. /\ StatementsFromSource'
        /\ \A i \in 1 .. Len(pushed') : pushed'[i].call <= calls
    BY <1>1, <2>1, <2>2, <2>3, <2>4, SourcePush
  <2> QED
    BY <1>1, <2>2, <2>5 DEF SourceInv
<1>4. CASE ~MarksLabel /\ ~NamesSection
  <2>1. UNCHANGED vector_vars
    BY <1>4, VectorKept
  <2>2. pushed' = pushed
    BY <2>1 DEF vector_vars
  <2>3. StatementsFromSource'
    BY <2>1, SourceStays DEF SourceInv
  <2>4. \A i \in 1 .. Len(pushed) : pushed[i].call <= calls /\ pushed[i].call < calls
    BY DEF SourceInv
  <2>5. state' = "NEEDING_SECTION_NAME" =>
          (IF parser_pc' = "loop" THEN prev_token ELSE curr_token).span = section
    <3>1. CASE Refuses
      BY <3>1 DEF Refuses, FailHere, FailIn, StatementsFromSource
    <3> QED
      BY <1>4, <3>1
      DEF Flow, Spins, BeginsSection, BeginsOther, BeginsData, BeginsInstruction,
          ReadsNumber, ReadsComma, ReadsSize, SkipsArguments, ReadsRegister,
          EndsLine, Moved, Taken, Goto, Await, SourceInv
  <2> QED
    BY <1>1, <2>2, <2>3, <2>4, <2>5 DEF SourceInv
<1> QED
  BY <1>2, <1>3, <1>4

LEMMA SourceStart ==
  ASSUME ParserInit
  PROVE  SourceInv
BY DEF ParserInit, Vector!Init, SourceInv, StatementsFromSource

LEMMA SourceStep ==
  ASSUME LineCore, SourceInv, [ParserNext]_parser_vars
  PROVE  SourceInv'
<1>1. CASE \E t \in Tokens : ParseOneToken(t)
  BY <1>1, SourceInput DEF LineCore
<1>2. CASE Handle
  BY <1>2, HandleStep, SourceFlow DEF LineCore
<1>3. CASE UNCHANGED parser_vars
  <2>1. StatementsFromSource'
    BY <1>3, SourceStays DEF SourceInv, parser_vars
  <2> QED
    BY <1>3, <2>1 DEF SourceInv, parser_vars, input_vars, vector_vars
<1> QED
  BY <1>1, <1>2, <1>3 DEF ParserNext

(* What a prebytecode_t holds comes from the source, in its order and once *)
(* each: a symbol is named by the token before a colon, a section by the   *)
(* identifier right after the word section.                                *)
THEOREM SourceCorrect == ParserSpec => []StatementsFromSource
<1>1. SourceInv => StatementsFromSource
  BY DEF SourceInv
<1> QED
  BY <1>1, SourceStart, SourceStep, LineCoreInvariant, PTL DEF ParserSpec

(* The statements due, by the lines accepted.                              *)
Due(ls) == {i \in 1 .. Len(ls) : Pushes(ls[i].tokens)}

LEMMA DueGrows ==
  ASSUME NEW S, NEW ls \in Seq(S), NEW x \in S
  PROVE  /\ Cardinality(Due(ls)) \in Nat
         /\ Cardinality(Due(Append(ls, x)))
              = Cardinality(Due(ls)) + IF Pushes(x.tokens) THEN 1 ELSE 0
<1> DEFINE n == Len(ls) + 1
<1>1. Len(ls) \in Nat
  BY LenProperties
<1>2. IsFiniteSet(Due(ls)) /\ Cardinality(Due(ls)) \in Nat
  <2>1. IsFiniteSet(1 .. Len(ls))
    BY <1>1, FS_Interval
  <2>2. Due(ls) \in SUBSET (1 .. Len(ls))
    BY DEF Due
  <2> QED
    BY <2>1, <2>2, FS_Subset, FS_CardinalityType
<1>3. PICK new : new = Append(ls, x)
  OBVIOUS
<1>4. /\ Len(new) = n /\ new[n] = x
      /\ \A i \in 1 .. Len(ls) : new[i] = ls[i]
  BY <1>3, AppendProperties
<1>5. n \notin Due(ls)
  BY <1>1 DEF Due
<1>6. CASE Pushes(x.tokens)
  <2>1. Due(new) = Due(ls) \cup {n}
    BY <1>1, <1>4, <1>6 DEF Due
  <2>2. Cardinality(Due(ls) \cup {n}) = Cardinality(Due(ls)) + 1
    BY <1>2, <1>5, FS_AddElement
  <2> QED
    BY <1>2, <1>3, <1>6, <2>1, <2>2
<1>7. CASE ~Pushes(x.tokens)
  <2>1. Due(new) = Due(ls)
    BY <1>1, <1>4, <1>7 DEF Due
  <2> QED
    BY <1>2, <1>3, <1>7, <2>1
<1> QED
  BY <1>6, <1>7

(* Of the statement under way, only a section that is named is pushed.     *)
LEMMA PushesLine ==
  ASSUME Core, LineInv
  PROVE  Pushes(line) <=> /\ state = "ANTICIPATING_TERMINATING"
                          /\ line[1].span = section
<1>1. LineOfState /\ state \in ParserState
      /\ state \notin {"AWAITING_ARG_COMMA", "EXPECTING_COLON"}
  BY DEF LineInv, Core, ControlTypes, ControlInv
<1>2. CASE state = "ANTICIPATING_TERMINATING"
  BY <1>1, <1>2 DEF LineOfState, FirstWord, SectionWord, Identifier, Pushes
<1>3. CASE state = "DEMANDING_SIZE_COMMA"
  BY <1>1, <1>3 DEF LineOfState, FirstWord, Identifier, NumberRead, Pushes
<1>4. CASE state = "REQUIRING_SIZE"
  BY <1>1, <1>4 DEF LineOfState, FirstWord, Identifier, Pushes
<1>5. CASE state \in {"NEEDING_SECTION_NAME", "DETECTING_TYPE", "SETTING_DATA",
                      "FINDING_ARGUMENT"}
  <2>1. Len(line) = 1
    BY <1>1, <1>5 DEF LineOfState
  <2> QED
    BY <1>5, <2>1 DEF Pushes
<1>6. CASE state \in {"INIT", "DONE", "GETTING_INITIAL"}
  <2>1. Len(line) = 0
    BY <1>1, <1>6 DEF LineOfState
  <2> QED
    BY <1>6, <2>1 DEF Pushes
<1> QED
  BY <1>1, <1>2, <1>3, <1>4, <1>5, <1>6 DEF ParserState

(* A pass that pushes nothing and ends no statement.                       *)
LEMMA PushesKept ==
  ASSUME Core, LineInv, Flow, ~MarksLabel, ~NamesSection, ~EndsLine
  PROVE  Pushes(line') <=> Pushes(line)
<1>1. LineOfState
  BY DEF LineInv
<1>2. CASE Refuses \/ Spins \/ BeginsData \/ BeginsInstruction \/ SkipsArguments
  <2>1. line' = line
    BY <1>2 DEF Refuses, FailHere, FailIn, Spins, BeginsData, BeginsInstruction,
                SkipsArguments, Moved, Goto, history_vars
  <2> QED
    BY <2>1
<1>3. CASE BeginsSection \/ BeginsOther
  <2>1. /\ state = "GETTING_INITIAL"
        /\ \E next \in ParserState \ {"INIT", "DONE"} : Await(next)
    BY <1>3 DEF BeginsSection, BeginsOther, Taken, ParserState
  <2>2. Len(line) = 0
    BY <1>1, <2>1 DEF LineOfState
  <2>3. Len(line') = 1
    BY <2>1, <2>2, LineGrows
  <2> QED
    BY <2>2, <2>3 DEF Pushes
<1>4. CASE ReadsNumber \/ ReadsComma \/ ReadsSize \/ ReadsRegister
  <2>1. /\ state \in {"SETTING_DATA", "DEMANDING_SIZE_COMMA", "REQUIRING_SIZE",
                      "FINDING_ARGUMENT"}
        /\ \E next \in ParserState \ {"INIT", "DONE"} : Await(next)
    BY <1>4 DEF ReadsNumber, ReadsComma, ReadsSize, ReadsRegister, Taken,
                ParserState
  <2>2. ~Pushes(line)
    BY <2>1, PushesLine
  <2>3. Len(line) \in 1 .. 3 /\ line[1].span # section
    BY <1>1, <2>1 DEF LineOfState, FirstWord
  <2>4. /\ Len(line') = Len(line) + 1 /\ line'[1] = line[1]
        /\ line'[Len(line) + 1] = curr_token
    BY <2>1, <2>3, LineGrows
  <2>5. CASE Len(line) = 1
    <3>1. state \in {"SETTING_DATA", "FINDING_ARGUMENT"}
      BY <1>1, <2>1, <2>5 DEF LineOfState
    <3>2. curr_token.token_type \in {"INT", "FLOAT", "IDENTIFIER"}
      BY <1>4, <3>1 DEF ReadsNumber, ReadsComma, ReadsSize, ReadsRegister, Taken,
                        NumberRead, Identifier
    <3> QED
      BY <2>2, <2>3, <2>4, <2>5, <3>2 DEF Pushes
  <2>6. CASE Len(line) # 1
    <3>1. Len(line') # 2 /\ line'[1].span # section
      BY <2>3, <2>4, <2>6
    <3>2. ~Pushes(line')
      BY <3>1 DEF Pushes
    <3> QED
      BY <2>2, <3>2
  <2> QED
    BY <2>5, <2>6
<1> QED
  BY <1>2, <1>3, <1>4 DEF Flow

LEMMA CompleteFlow ==
  ASSUME Core, LineInv, StatementsComplete, Flow
  PROVE  StatementsComplete'
<1> DEFINE m == Append(line, curr_token)
           new == [tokens |-> m, clean |-> clean]
           L == [tokens : Seq(InputToken), clean : BOOLEAN]
           One(l) == IF Pushes(l) THEN 1 ELSE 0
           C(ls) == Cardinality(Due(ls))
<1>1. /\ line \in Seq(InputToken) /\ curr_token \in InputToken /\ lines \in Seq(L)
      /\ m \in Seq(InputToken) /\ new \in L
  BY AppendProperties DEF Core, LineTypes, InputTypes
<1>2. /\ Len(statements) \in Nat /\ lost \in Nat
      /\ Len(statements) + lost = C(lines) + One(line)
  BY LenProperties
  DEF Core, VectorTypes, Vector!TypeOK, StatementsComplete, Due
<1>3. SUFFICES Len(statements') + lost' = C(lines') + One(line')
  BY DEF StatementsComplete, Due
<1>4. C(lines) \in Nat /\ C(Append(lines, new)) = C(lines) + One(m)
  <2>1. new.tokens = m
    OBVIOUS
  <2> HIDE DEF m, new, L
  <2>2. /\ Cardinality(Due(lines)) \in Nat
        /\ Cardinality(Due(Append(lines, new)))
             = Cardinality(Due(lines)) + IF Pushes(new.tokens) THEN 1 ELSE 0
    BY <1>1, DueGrows
  <2> QED
    BY <2>1, <2>2
<1>5. /\ Len(m) = Len(line) + 1 /\ m[Len(line) + 1] = curr_token
      /\ \A i \in 1 .. Len(line) : m[i] = line[i]
  BY <1>1, AppendProperties
<1>6. ASSUME NEW s \in Stmt, Push(s)
      PROVE  Len(statements') + lost' = Len(statements) + lost + 1
  <2>1. \/ statements' = Append(statements, s) /\ lost' = lost
        \/ statements' = statements /\ lost' = lost + 1
    BY <1>6, PushStep DEF Core
  <2>2. Len(Append(statements, s)) = Len(statements) + 1
    BY AppendProperties DEF Core, VectorTypes, Vector!TypeOK
  <2> QED
    BY <1>2, <2>1, <2>2
<1>7. LineOfState
  BY DEF LineInv
<1>8. ~Pushes(<<>>)
  BY DEF Pushes
<1> HIDE DEF m, new, L, C
<1>9. CASE MarksLabel
  <2>1. /\ state = "DETECTING_TYPE" /\ curr_token.token_type = "COLON"
        /\ Push(Symbol(prev_token)) /\ Await("INIT")
    BY <1>9 DEF MarksLabel
  <2>2. Symbol(prev_token) \in Stmt
    BY TokenTypes, StmtKinds DEF Core, InputTypes, Symbol, Named
  <2>3. line' = <<>> /\ lines' = Append(lines, new)
    BY <2>1, LineEnds DEF m, new
  <2>4. Len(line) = 1
    BY <1>7, <2>1 DEF LineOfState
  <2>5. Pushes(m)
    BY <1>5, <2>1, <2>4 DEF Pushes
  <2>6. ~Pushes(line)
    BY <2>1, PushesLine
  <2>7. Len(statements') + lost' = Len(statements) + lost + 1
    BY <1>6, <2>1, <2>2
  <2>8. C(lines') = C(lines) + 1
    BY <1>4, <2>3, <2>5
  <2> QED
    BY <1>2, <1>4, <1>8, <2>3, <2>6, <2>7, <2>8
<1>10. CASE NamesSection
  <2>1. /\ state = "NEEDING_SECTION_NAME"
        /\ Push([kind |-> "INSTRUCTION_STMT", s |-> [name |-> curr_token.span]])
        /\ Await("ANTICIPATING_TERMINATING")
    BY <1>10 DEF NamesSection
  <2>2. [kind |-> "INSTRUCTION_STMT", s |-> [name |-> curr_token.span]] \in Stmt
    BY TokenTypes, StmtKinds DEF Core, InputTypes, Named
  <2>3. lines' = lines /\ line' = m
    BY <2>1, LineGrows DEF m
  <2>4. Len(line) = 1 /\ line[1].span = section
    BY <1>7, <2>1 DEF LineOfState, SectionWord
  <2>5. Pushes(line')
    BY <1>5, <2>3, <2>4 DEF Pushes
  <2>6. ~Pushes(line)
    BY <2>1, PushesLine
  <2>7. Len(statements') + lost' = Len(statements) + lost + 1
    BY <1>6, <2>1, <2>2
  <2>8. C(lines') = C(lines)
    BY <2>3
  <2> QED
    BY <1>2, <1>4, <2>5, <2>6, <2>7, <2>8
<1>11. CASE EndsLine
  <2>1. /\ state = "ANTICIPATING_TERMINATING" /\ Terminator(curr_token)
        /\ Await("DONE") /\ UNCHANGED vector_vars
    BY <1>11 DEF EndsLine, Taken
  <2>2. statements' = statements /\ lost' = lost
    BY <2>1 DEF vector_vars
  <2>3. line' = <<>> /\ lines' = Append(lines, new)
    BY <2>1, LineEnds DEF m, new
  <2>4. Pushes(m) <=> Pushes(line)
    <3>1. /\ Len(line) \in {1, 2, 4}
          /\ line[1].span = section => Len(line) = 2
      BY <1>7, <2>1 DEF LineOfState, FirstWord, SectionWord
    <3>2. m[1] = line[1] /\ (Len(line) = 1 => m[2] = curr_token)
      BY <1>5, <3>1
    <3>3. Pushes(line) <=> line[1].span = section
      BY <2>1, PushesLine
    <3>4. Pushes(m) <=> line[1].span = section
      BY <1>5, <2>1, <3>1, <3>2 DEF Pushes, Terminator
    <3> QED
      BY <3>3, <3>4
  <2>5. C(lines') = C(lines) + One(m)
    BY <1>4, <2>3
  <2> QED
    BY <1>2, <1>4, <1>8, <2>2, <2>3, <2>4, <2>5
<1>12. CASE ~MarksLabel /\ ~NamesSection /\ ~EndsLine
  <2>1. statements' = statements /\ lost' = lost
    BY <1>12, VectorKept DEF vector_vars
  <2>2. lines' = lines
    BY <1>12, LinesKept
  <2>3. Pushes(line') <=> Pushes(line)
    BY <1>12, PushesKept
  <2>4. C(lines') = C(lines)
    BY <2>2
  <2> QED
    BY <1>2, <2>1, <2>3, <2>4
<1> QED
  BY <1>9, <1>10, <1>11, <1>12

(* Every label and every section directive that was accepted is in the     *)
(* prebytecode_t, also when a later token of its line is refused, but for  *)
(* those there was no memory for.                                          *)
THEOREM CompleteCorrect == ParserSpec => []StatementsComplete
<1>1. ParserInit => StatementsComplete
  <2>1. SUFFICES ASSUME ParserInit PROVE StatementsComplete
    OBVIOUS
  <2>2. /\ statements = <<>> /\ lost = 0 /\ lines = <<>> /\ line = <<>>
    BY <2>1 DEF ParserInit, Vector!Init
  <2>3. {i \in 1 .. Len(lines) : Pushes(lines[i].tokens)} = {}
    BY <2>2
  <2>4. Cardinality({i \in 1 .. Len(lines) : Pushes(lines[i].tokens)}) = 0
    BY <2>3, FS_EmptySet
  <2>5. ~Pushes(line)
    BY <2>2 DEF Pushes
  <2> QED
    BY <2>2, <2>4, <2>5 DEF StatementsComplete
<1>2. LineCore /\ StatementsComplete /\ [ParserNext]_parser_vars => StatementsComplete'
  <2>1. SUFFICES ASSUME LineCore, StatementsComplete, [ParserNext]_parser_vars
                 PROVE  StatementsComplete'
    OBVIOUS
  <2>2. CASE (\E t \in Tokens : ParseOneToken(t)) \/ UNCHANGED parser_vars
    <3>1. /\ lines' = lines /\ line' = line /\ statements' = statements
          /\ lost' = lost
      BY <2>2 DEF ParseOneToken, parser_vars, history_vars, vector_vars
    <3> QED
      BY <2>1, <3>1 DEF StatementsComplete, Pushes
  <2>3. CASE Handle
    BY <2>1, <2>3, HandleStep, CompleteFlow DEF LineCore
  <2> QED
    BY <2>1, <2>2, <2>3 DEF ParserNext
<1> QED
  BY <1>1, <1>2, LineCoreInvariant, PTL DEF ParserSpec

=============================================================================
