---------------------------- MODULE ObjectNames ----------------------------
(***************************************************************************)
(* The name buffers of sections and symbols (src/miniisa/section.c and     *)
(* symbol.c): MAX_LEN characters and a last one meant for the NUL, written *)
(* by strncpy, which adds a NUL only to what is shorter than its limit.    *)
(***************************************************************************)
EXTENDS Integers, Sequences

CONSTANTS
  MAX_LEN,   \* MINIISA_SECTION_NAME_MAX_LEN and MINIISA_SYMBOL_NAME_MAX_LEN
  Character, \* what names are made of
  Names      \* the names a client sets

ASSUME NamesAssumption ==
  /\ MAX_LEN \in Nat \ {0}
  /\ Names \subseteq Seq(Character)

NUL == "nul"
ASSUME NulAssumption == NUL \notin Character

VARIABLES
  section,    \* section->name
  symbol,     \* symbol->name
  set         \* history: the name set last, or <<>> after the init

names_vars == <<section, symbol, set>>

Buffer == [0 .. MAX_LEN -> Character \cup {NUL}]

(* Mutant: the buffer is not cleared but for its first character.          *)
ClearedFirst(buf, n) == [buf EXCEPT ![0] = NUL]

(* memset: the first n characters become NUL.                              *)
Cleared(buf, n) == [i \in 0 .. MAX_LEN |-> IF i < n THEN NUL ELSE buf[i]]

(* strncpy, external: n characters are written, NUL behind a shorter name. *)
Strncpy(buf, name, n) ==
  [i \in 0 .. MAX_LEN |->
     IF i >= n THEN buf[i] ELSE IF i < Len(name) THEN name[i + 1] ELSE NUL]

(* The two structs lie in memory that held anything before their inits.    *)
NamesInit ==
  /\ \E garbage \in Buffer :
       /\ section = Cleared(garbage, MAX_LEN)
       /\ symbol = Cleared(garbage, MAX_LEN + 1)
  /\ set = <<>>

(* miniisa_section_init and miniisa_symbol_init on structs in use.         *)
InitAgain ==
  /\ section' = Cleared(section, MAX_LEN)
  /\ symbol' = Cleared(symbol, MAX_LEN + 1)
  /\ set' = <<>>

(* Mutant: memcpy of the name without the padding of strncpy.              *)
SetNameMemcpy(name) ==
  LET Memcpy(buf) == [i \in 0 .. MAX_LEN |-> IF i < Len(name) /\ i < MAX_LEN
                                             THEN name[i + 1] ELSE buf[i]]
  IN  section' = Memcpy(section) /\ symbol' = Memcpy(symbol) /\ set' = name

(* Mutant: a NUL is put behind the buffer.                                 *)
SetNameBeyond(name) ==
  LET Terminated(buf) == [i \in 0 .. MAX_LEN + 1 |->
                            IF i <= MAX_LEN THEN buf[i] ELSE NUL]
  IN  /\ section' = Strncpy(section, name, MAX_LEN)
      /\ symbol' = Terminated(Strncpy(symbol, name, MAX_LEN))
      /\ set' = name

(* miniisa_section_set_name and miniisa_symbol_set_name.                   *)
SetName(name) ==
  /\ section' = Strncpy(section, name, MAX_LEN)
  /\ symbol' = Strncpy(symbol, name, MAX_LEN)
  /\ set' = name

NamesNext == InitAgain \/ \E name \in Names : SetName(name)

NamesSpec == NamesInit /\ [][NamesNext]_names_vars

-----------------------------------------------------------------------------
NamesTypeOK ==
  /\ section \in Buffer /\ symbol \in Buffer
  /\ set \in Names \cup {<<>>}

(* What the buffer reads as a C string, where it has a NUL.                *)
Reads(buf, name) ==
  /\ \A i \in 1 .. Len(name) : buf[i - 1] = name[i]
  /\ Len(name) <= MAX_LEN /\ buf[Len(name)] = NUL

Truncated(name) ==
  IF Len(name) <= MAX_LEN THEN name ELSE SubSeq(name, 1, MAX_LEN)

(* symbol.h: a symbol's name reads as the name set last, "truncated to 255 *)
(* bytes plus null byte", whatever longer name stood there before.         *)
SymbolNameReads == Reads(symbol, Truncated(set))

(* So does a section's up to one character less. (section_init leaves the  *)
(* last character as it was: a longer name may have no NUL behind it.)     *)
SectionNameReads == Len(set) < MAX_LEN => Reads(section, set)
=============================================================================
