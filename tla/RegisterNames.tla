--------------------------- MODULE RegisterNames ---------------------------
(***************************************************************************)
(* parse_register (src/minias/prebytecode.c) on every name, against the    *)
(* names of the registers as the file NOTES gives them: r0 to r11, rbp,    *)
(* rsp, rip and flg, then at most one type letter and one size letter.     *)
(***************************************************************************)
EXTENDS Prebytecode

CONSTANT Names   \* the names to parse

ASSUME NamesAssumption == \A s \in Names : s \in Seq(STRING)

VARIABLES
  name,    \* the argument s
  def,     \* what *reg held before the call
  reg,     \* *reg
  status,  \* what the call returned
  pc       \* "call" before the call, "done" after it

vars == <<name, def, reg, status, pc>>

(* finding_argument calls with a 64-bit unsigned register of no id.        *)
Default == [id |-> UNKNOWN_REG, type |-> 0, size |-> 3]

Init ==
  /\ name \in Names
  /\ def \in {Default, init_register_arg}
  /\ reg = def
  /\ status = 0
  /\ pc = "call"

ParseRegister ==
  /\ pc = "call"
  /\ status' = parse_register(name, reg).status
  /\ reg' = parse_register(name, reg).reg
  /\ pc' = "done"
  /\ UNCHANGED <<name, def>>

Next == ParseRegister

Spec == Init /\ [][Next]_vars

-----------------------------------------------------------------------------
RegisterName(id) ==
  CASE id \in 0 .. 9 -> <<"r", CHOOSE c \in {"0", "1", "2", "3", "4", "5", "6",
                                             "7", "8", "9"} : DigitValue(c) = id>>
    [] id = 10 -> <<"r", "1", "0">>
    [] id = 11 -> <<"r", "1", "1">>
    [] id = 12 -> <<"r", "b", "p">>
    [] id = 13 -> <<"r", "s", "p">>
    [] id = 14 -> <<"r", "i", "p">>
    [] id = 15 -> <<"f", "l", "g">>

Types == {"u", "i", "f"}
Sizes == {"b", "w", "d", "q"}
Optional(S) == {<<>>} \cup {<<c>> : c \in S}

Spells(s, id, t, z) == s = RegisterName(id) \o t \o z

IsRegister(s) == \E id \in 0 .. 15, t \in Optional(Types), z \in Optional(Sizes) :
                   Spells(s, id, t, z)

(* Every register of the machine is recognised under every name it has,    *)
(* with its number, and keeps the caller's type and size exactly where the *)
(* name gives none.                                                        *)
RegistersRecognised ==
  pc = "done" =>
    \A id \in 0 .. 15, t \in Optional(Types), z \in Optional(Sizes) :
      Spells(name, id, t, z) =>
        /\ status = 0
        /\ reg = [id   |-> id,
                  type |-> IF t = <<>> THEN def.type ELSE TypeChar[t[1]],
                  size |-> IF z = <<>> THEN def.size ELSE SizeChar[z[1]]]

(* A name that is no register's is refused or gets an id no register has:  *)
(* a misspelt register never stands for another one.                       *)
NoOtherRegister ==
  (pc = "done" /\ status = 0 /\ ~IsRegister(name)) => reg.id \notin 0 .. 15

(* A call that fails leaves the caller's default as it was.                *)
FailureKeepsDefault ==
  status # 0 => reg = def
=============================================================================
