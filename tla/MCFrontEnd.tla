----------------------------- MODULE MCFrontEnd -----------------------------
(***************************************************************************)
(* Tokenizer and parser on every short file put together from a few        *)
(* pieces.                                                                 *)
(***************************************************************************)
EXTENDS FrontEnd

SeqExt == INSTANCE SequencesExt

CONSTANT MaxPieces  \* bound on the pieces of a file

(* A word or a number may stand apart or, the word, be glued to what is    *)
(* before it, which makes it longer or an error.                           *)
Pieces == {<<"alpha">>, <<"space", "alpha">>, <<"space", "digit">>,
           <<"comma">>, <<"colon">>, <<"cr">>, <<"lf">>, <<"semi">>}

ShortFiles ==
  {SeqExt!FlattenSeq(s) : s \in UNION {[1 .. n -> Pieces] : n \in 0 .. MaxPieces}}

(* r1 is a register, a label or the name of a section.                     *)
SomeTokens ==
  {[token_type |-> "IDENTIFIER", span |-> w, value |-> 0] :
     w \in {section, data, <<"n", "o", "p", "u", "q">>, <<"r", "1">>}}
  \cup {[token_type |-> "INT", span |-> <<"1">>, value |-> 1], EofToken}
  \cup {[token_type |-> type, span |-> <<type>>, value |-> 0] :
          type \in {"FLOAT", "COMMA", "NEWLINE", "COLON"}}
=============================================================================
