---------------------------- MODULE Prebytecode ----------------------------
(***************************************************************************)
(* The statements of an assembly program before they are encoded, and the  *)
(* parsing of register names and mnemonics (src/minias/prebytecode.c), as  *)
(* operators. A name is the sequence of its characters.                    *)
(***************************************************************************)
EXTENDS Integers, Sequences

CONSTANT UINT_MAX   \* the largest unsigned int: 2^32 - 1

ASSUME UintMaxAssumption == UINT_MAX \in Nat /\ UINT_MAX >= 257

(* None of the enums has a negative constant, so the build makes them      *)
(* unsigned int: -1 becomes UINT_MAX, and `r.id < 0` is never true.        *)
Enum(n) == n % (UINT_MAX + 1)

UNKNOWN_REG  == 255
UNKNOWN_TYPE == 255
UNKNOWN_SIZE == 255

IsDigit(c) == c \in {"0", "1", "2", "3", "4", "5", "6", "7", "8", "9"}

DigitValue(c) ==
  CHOOSE n \in 0 .. 9 :
    <<"0", "1", "2", "3", "4", "5", "6", "7", "8", "9">>[n + 1] = c

NUL == "nul"

(* s[i] of a C string, for i up to its terminator.                         *)
CharAt(s, i) == IF i < Len(s) THEN s[i + 1] ELSE NUL

StartsWith(s, prefix) ==
  Len(s) >= Len(prefix) /\ SubSeq(s, 1, Len(prefix)) = prefix

-----------------------------------------------------------------------------
(* Registers                                                               *)

init_register_arg == [id |-> Enum(-1), type |-> UNKNOWN_TYPE,
                      size |-> UNKNOWN_SIZE]

rbp == <<"r", "b", "p">>
rsp == <<"r", "s", "p">>
rip == <<"r", "i", "p">>
flg == <<"f", "l", "g">>

(* Mutant: the second digit is not held to 0 and 1.                        *)
parse_register_id_any_digit(s) ==
  IF Len(s) < 2 THEN Enum(-1)
  ELSE IF StartsWith(s, rbp) THEN 12
  ELSE IF StartsWith(s, rsp) THEN 13
  ELSE IF StartsWith(s, rip) THEN 14
  ELSE IF StartsWith(s, flg) THEN 15
  ELSE IF s[1] # "r" THEN Enum(-1)
  ELSE IF IsDigit(CharAt(s, 1)) /\ ~IsDigit(CharAt(s, 2))
       THEN DigitValue(CharAt(s, 1))
  ELSE IF CharAt(s, 1) = "1" /\ IsDigit(CharAt(s, 2))
       THEN DigitValue(CharAt(s, 2)) + 10
  ELSE Enum(-2)

parse_register_id(s) ==
  IF Len(s) < 2 THEN Enum(-1)
  ELSE IF StartsWith(s, rbp) THEN 12
  ELSE IF StartsWith(s, rsp) THEN 13
  ELSE IF StartsWith(s, rip) THEN 14
  ELSE IF StartsWith(s, flg) THEN 15
  ELSE IF s[1] # "r" THEN Enum(-1)
  ELSE IF IsDigit(CharAt(s, 1)) /\ ~IsDigit(CharAt(s, 2))
       THEN DigitValue(CharAt(s, 1))
  ELSE IF CharAt(s, 1) = "1" /\ CharAt(s, 2) \in {"0", "1"}
       THEN DigitValue(CharAt(s, 2)) + 10
  ELSE Enum(-2)

TypeChar == [u |-> 0, i |-> 1, f |-> 2]
SizeChar == [b |-> 0, w |-> 1, d |-> 2, q |-> 3]

(* What may follow the name of a register: a type, a size or both.         *)
IsSuffix(t) ==
  \/ t = <<>>
  \/ Len(t) = 1 /\ t[1] \in DOMAIN TypeChar \cup DOMAIN SizeChar
  \/ Len(t) = 2 /\ t[1] \in DOMAIN TypeChar /\ t[2] \in DOMAIN SizeChar

(* reg with the type and the size a suffix names.                          *)
WithSuffix(reg, t) ==
  [reg EXCEPT
     !.type = IF t # <<>> /\ t[1] \in DOMAIN TypeChar THEN TypeChar[t[1]]
                                                      ELSE @,
     !.size = IF t # <<>> /\ t[Len(t)] \in DOMAIN SizeChar
              THEN SizeChar[t[Len(t)]] ELSE @]

(* Mutant: `<` for `<=` where the length of the name is found.             *)
SuffixShifted(s) ==
  SubSeq(s, (IF parse_register_id(s) < 9 THEN 2 ELSE 3) + 1, Len(s))

(* What follows the name: the name itself is two characters long for r0 to *)
(* r9 and three for the others, the invalid ones included.                 *)
Suffix(s) == SubSeq(s, (IF parse_register_id(s) <= 9 THEN 2 ELSE 3) + 1, Len(s))

(* Mutant: the register is written before the name has been checked.       *)
parse_register_early(s, reg) ==
  IF IsSuffix(Suffix(s))
  THEN [status |-> 0,
        reg |-> WithSuffix([reg EXCEPT !.id = parse_register_id(s)], Suffix(s))]
  ELSE [status |-> 1, reg |-> [reg EXCEPT !.id = parse_register_id(s)]]

(* The status and what is in *reg, which held reg before.                  *)
parse_register(s, reg) ==
  IF IsSuffix(Suffix(s))
  THEN [status |-> 0,
        reg |-> WithSuffix([reg EXCEPT !.id = parse_register_id(s)], Suffix(s))]
  ELSE [status |-> 1, reg |-> reg]

-----------------------------------------------------------------------------
(* Instructions and the other statements                                   *)

UNSIGNED_INT_TYPE == 0
SIGNED_INT_TYPE == 1
FLOAT_TYPE == 2
BYTE_SIZE == 0
DWORD_SIZE == 2
QWORD_SIZE == 3

(* An argument is its kind and the member of the union a written last.     *)
init_argument == [kind |-> "REGISTER_ARG", a |-> init_register_arg]

value_arg(value, type, size) ==
  [kind |-> "VALUE_ARG", a |-> [value |-> value, type |-> type, size |-> size]]

(* A name comes from a span, which is never longer than name may be.       *)
symbol_arg(name) == [kind |-> "SYMBOL_ARG", a |-> [name |-> name]]

init_instruction == [mnemonic |-> "INVALID", arg_1 |-> init_argument,
                     arg_2 |-> init_argument]

Spelling ==
  [NOP |-> <<"n", "o", "p">>, ADD |-> <<"a", "d", "d">>, SUB |-> <<"s", "u", "b">>,
   MUL |-> <<"m", "u", "l">>, DIV |-> <<"d", "i", "v">>, AND |-> <<"a", "n", "d">>,
   IOR |-> <<"i", "o", "r">>, XOR |-> <<"x", "o", "r">>, NOT |-> <<"n", "o", "t">>,
   SHL |-> <<"s", "h", "l">>, SHR |-> <<"s", "h", "r">>, SAL |-> <<"s", "a", "l">>,
   SAR |-> <<"s", "a", "r">>, ROL |-> <<"r", "o", "l">>, ROR |-> <<"r", "o", "r">>,
   SET |-> <<"s", "e", "t">>, MOV |-> <<"m", "o", "v">>, LDR |-> <<"l", "d", "r">>,
   STR |-> <<"s", "t", "r">>, PSH |-> <<"p", "s", "h">>, POP |-> <<"p", "o", "p">>,
   XCG |-> <<"x", "c", "g">>, CVT |-> <<"c", "v", "t">>, CMP |-> <<"c", "m", "p">>,
   JZR |-> <<"j", "z", "r">>, JNZ |-> <<"j", "n", "z">>, JEQ |-> <<"j", "e", "q">>,
   JNE |-> <<"j", "n", "e">>, JLT |-> <<"j", "l", "t">>, JLE |-> <<"j", "l", "e">>,
   JGT |-> <<"j", "g", "t">>, JGE |-> <<"j", "g", "e">>, INT |-> <<"i", "n", "t">>,
   HLT |-> <<"h", "l", "t">>]

(* The mnemonics in the order parse_instruction_mnemonic tries them, and   *)
(* those that a type or a size may follow.                                 *)
Mnemonics ==
  <<"NOP", "ADD", "SUB", "MUL", "DIV", "AND", "IOR", "XOR", "NOT", "SHL", "SHR",
    "SAL", "SAR", "ROL", "ROR", "SET", "MOV", "LDR", "STR", "PSH", "POP", "XCG",
    "CVT", "CMP", "JZR", "JNZ", "JEQ", "JNE", "JLT", "JLE", "JGT", "JGE", "INT",
    "HLT">>

AcceptsType == {"ADD", "SUB", "MUL", "DIV", "SET", "CVT", "CMP", "JZR", "JNZ"}
AcceptsSize == DOMAIN Spelling \ {"NOP", "JEQ", "JNE", "JLT", "JLE", "JGT", "JGE",
                                  "INT", "HLT"}

(* What s[i] may read. Behind the terminator of a token's span stands what *)
(* an earlier, longer token of the same token_t left there.                *)
StaleChar == {NUL, "u", "i", "f", "b", "w", "d", "q", "x"}
ReadChar(s, i) == IF i <= Len(s) THEN {CharAt(s, i)} ELSE StaleChar

MnemonicType(c) == IF c = NUL THEN UNSIGNED_INT_TYPE ELSE TypeChar[c]
MnemonicSize(c) == IF c = NUL THEN QWORD_SIZE ELSE SizeChar[c]

(* strncmp is 0 where s starts with the mnemonic, and that is where        *)
(* match_mnemonic says there is no match.                                  *)
Matches(s, mnemonic) == ~StartsWith(s, Spelling[mnemonic])

(* What becomes of an instruction when the characters behind the mnemonic  *)
(* are tchar and schar. The second assignment that should set the size of  *)
(* arg_2 sets that of arg_1 again.                                         *)
Matched(mnemonic, tchar, schar, i) ==
  LET accepts_type == mnemonic \in AcceptsType
      accepts_size == mnemonic \in AcceptsSize
  IN  IF /\ tchar \in DOMAIN TypeChar \cup {NUL}
         /\ schar \in DOMAIN SizeChar \cup {NUL}
      THEN [status |-> 0,
            i |-> [i EXCEPT
                     !.mnemonic = mnemonic,
                     !.arg_1.a.type = IF accepts_type THEN MnemonicType(tchar) ELSE @,
                     !.arg_2.a.type = IF accepts_type THEN MnemonicType(tchar) ELSE @,
                     !.arg_1.a.size = IF accepts_size THEN MnemonicSize(schar) ELSE @]]
      ELSE [status |-> 1, i |-> i]

(* The results of match_mnemonic for one mnemonic.                         *)
match_mnemonic(s, mnemonic, i) ==
  LET m_len == Len(Spelling[mnemonic])
      size_at == IF mnemonic \in AcceptsType THEN m_len + 1 ELSE m_len
      tchars == IF mnemonic \in AcceptsType THEN ReadChar(s, m_len) ELSE {NUL}
      schars == IF mnemonic \in AcceptsSize THEN ReadChar(s, size_at) ELSE {NUL}
  IN  IF ~Matches(s, mnemonic)
      THEN {[status |-> -1, i |-> i]}
      ELSE {Matched(mnemonic, tchar, schar, i) : tchar \in tchars, schar \in schars}

(* The results of parse_instruction_mnemonic on an instruction in any      *)
(* state: those of the first mnemonic that matches.                        *)
parse_instruction_mnemonic(s, i) ==
  LET reset == [i EXCEPT !.arg_1 = init_argument, !.arg_2 = init_argument]
      IsFirst(k) == /\ Matches(s, Mnemonics[k])
                    /\ \A j \in 1 .. k - 1 : ~Matches(s, Mnemonics[j])
      first == {k \in 1 .. Len(Mnemonics) : IsFirst(k)}
  IN  IF first = {} THEN {[status |-> -1, i |-> reset]}
      ELSE UNION {match_mnemonic(s, Mnemonics[k], reset) : k \in first}

(* A statement is its kind and the member of the union s written last.     *)
init_statement == [kind |-> "INSTRUCTION_STMT", s |-> init_instruction]

(* Mutant: the member of the union still holds the instruction.            *)
init_data_stmt_skipped == init_instruction

NullData == [form |-> "null", value |-> 0]

(* data is the block ds->data points to, NULL before it is set.            *)
init_data_stmt == [data |-> NullData, length |-> 0, size |-> 0,
                   type |-> UNKNOWN_TYPE]
=============================================================================
