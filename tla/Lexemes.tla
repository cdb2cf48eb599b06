------------------------------ MODULE Lexemes ------------------------------
(***************************************************************************)
(* The words of the assembly language, as operators on sequences of        *)
(* character classes. A text is such a sequence, and what is left of it a  *)
(* sequence of positions in it.                                            *)
(***************************************************************************)
EXTENDS Integers, Sequences

Newlines   == {"cr", "lf"}
Delimiters == Newlines \cup {"space", "semi", "comma", "colon"}

AllIn(w, S) == \A i \in 1 .. Len(w) : w[i] \in S

(* The type of the token that w, a sequence of classes, spells.            *)
Kind(w) ==
  CASE w = <<>> -> "none"
    [] w # <<>> /\ w[1] = "alpha" /\ AllIn(w, {"alpha", "digit"}) -> "IDENTIFIER"
    [] w # <<>> /\ AllIn(w, {"digit"}) -> "INT"
    [] \E d \in 2 .. Len(w) :
         w[d] = "dot" /\ \A i \in (1 .. Len(w)) \ {d} : w[i] = "digit" -> "FLOAT"
    [] w = <<"comma">> -> "COMMA"
    [] w = <<"colon">> -> "COLON"
    [] w \in {<<"cr">>, <<"lf">>, <<"cr", "lf">>} -> "NEWLINE"
    [] OTHER -> "none"

(* A comment runs from a semicolon to the next CR or LF.                   *)
InComment(text, p) ==
  \E q \in 1 .. p : text[q] = "semi" /\ \A r \in q .. p : text[r] \notin Newlines

(* A character is passed over if it is white space or in a comment.        *)
PassedOver(text, p) == text[p] = "space" \/ InComment(text, p)

(* What is left, from the first character that is not passed over or that  *)
(* reads as the end of the file.                                           *)
Skip(text, left, EofChars) ==
  LET from == {i \in 1 .. Len(left) : \/ text[left[i]] \in EofChars
                                      \/ ~PassedOver(text, left[i])}
  IN  IF from = {} THEN <<>>
      ELSE SubSeq(left, CHOOSE i \in from : \A j \in from : i <= j, Len(left))
=============================================================================
