------------------------------ MODULE MCParser ------------------------------
(***************************************************************************)
(* The parser on every short sequence of a few tokens.                     *)
(***************************************************************************)
EXTENDS Parser

Word(s) == [token_type |-> "IDENTIFIER", span |-> s, value |-> 0]
Number(s, n) == [token_type |-> "INT", span |-> s, value |-> n]
Mark(type) == [token_type |-> type, span |-> <<type>>, value |-> 0]

(* One name of each sort the handlers tell apart: "nop" reads stale bytes, *)
(* "nopx" has a bad type, "nopi" is of another type than the register r1b, *)
(* "main" is no register.                                                  *)
Words == {Word(section), Word(data), Word(Spelling["NOP"]),
          Word(<<"n", "o", "p", "x">>), Word(<<"n", "o", "p", "i">>),
          Word(<<"m", "a", "i", "n">>), Word(<<"r", "1", "b">>)}

(* Sizes, a number of three bytes of eight values each, which is none, and *)
(* a float.                                                                *)
SomeNumbers ==
  {Number(<<"2">>, 2), Number(<<"4">>, 4), Number(<<"8">>, 8),
   Number(<<"2", "5", "6">>, 256),
   [token_type |-> "FLOAT", span |-> <<"1", ".", "5">>, value |-> 0]}

Marks == {Mark("COMMA"), Mark("COLON"), Mark("NEWLINE"), EofToken}

AllTokens == Words \cup SomeNumbers \cup Marks \cup {NoToken}

(* The tokens of labels, sections and short instructions.                  *)
LineTokens == {Word(section), Word(Spelling["NOP"]), Word(<<"m", "a", "i", "n">>),
               Mark("COLON"), Mark("NEWLINE")}
=============================================================================
