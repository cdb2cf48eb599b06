------------------------------- MODULE Lexer -------------------------------
(***************************************************************************)
(* What get_next_token promises, without its buffer, its loop and the      *)
(* character it puts back: each call cuts the longest token off what is    *)
(* left of the text, or removes the one character that no token can take,  *)
(* or finds the end.                                                       *)
(***************************************************************************)
EXTENDS Lexemes

CONSTANTS
  MaxTokenLen,  \* characters a token may hold
  EofChars      \* the classes that read as the end of the file

VARIABLES
  text,      \* the characters of the files opened so far
  left,      \* the positions still to be cut into tokens
  tokens,    \* the tokens handed out
  outcome    \* of the latest call: "token", "end" or "error"

vars == <<text, left, tokens, outcome>>

Init == text = <<>> /\ left = <<>> /\ tokens = <<>> /\ outcome = "token"

Spelling(k) == [i \in 1 .. k |-> text[left[i]]]

(* Every beginning of a token is a token, so the longest is the last one.  *)
LongestToken ==
  LET lengths == {k \in 1 .. Len(left) : k <= MaxTokenLen
                                         /\ Kind(Spelling(k)) # "none"}
  IN  IF lengths = {} THEN 0 ELSE CHOOSE k \in lengths : \A j \in lengths : j <= k

SkipFrom(k) == Skip(text, SubSeq(left, k, Len(left)), EofChars)

(* A word or a number ends at a delimiter; it and a newline of one         *)
(* character are complete only when the next character has been looked at, *)
(* which is gone if it read as the end of the file.                        *)
TakeToken ==
  LET k    == LongestToken
      kind == Kind(Spelling(k))
      next == IF k < Len(left) THEN text[left[k + 1]] ELSE "end"
      looks_ahead == kind \notin {"COMMA", "COLON"} /\ Spelling(k) # <<"cr", "lf">>
  IN  /\ k > 0
      /\ kind \in {"IDENTIFIER", "INT", "FLOAT"} =>
           next \in Delimiters \cup EofChars \cup {"end"}
      /\ tokens' = Append(tokens, [token_type |-> kind, span |-> SubSeq(left, 1, k)])
      /\ left' = SkipFrom(IF looks_ahead /\ next \in EofChars THEN k + 2 ELSE k + 1)
      /\ outcome' = "token"
      /\ UNCHANGED text

RejectCharacter ==
  LET k == LongestToken
  IN  /\ k < Len(left)
      /\ text[left[k + 1]] \notin EofChars
      /\ k = 0 \/ /\ Kind(Spelling(k)) \in {"IDENTIFIER", "INT", "FLOAT"}
                  /\ text[left[k + 1]] \notin Delimiters
      /\ left' = Skip(text, SubSeq(left, 1, k) \o SubSeq(left, k + 2, Len(left)),
                      EofChars)
      /\ outcome' = "error"
      /\ UNCHANGED <<text, tokens>>

FindEnd ==
  /\ left = <<>> \/ text[left[1]] \in EofChars
  /\ left' = IF left = <<>> THEN left ELSE SkipFrom(2)
  /\ outcome' = "end"
  /\ UNCHANGED <<text, tokens>>

(* Another file takes the place of the unread rest of the old one, what is *)
(* behind the first n characters: nothing of that rest was dealt with,     *)
(* beyond what is passed over, and the first k positions left stay.        *)
ChangeFile ==
  /\ \E n \in 0 .. Len(text) : \E k \in 0 .. Len(left) :
       /\ n <= Len(text') /\ SubSeq(text', 1, n) = SubSeq(text, 1, n)
       /\ \A p \in n + 1 .. Len(text) :
            PassedOver(text, p) \/ \E i \in 1 .. Len(left) : left[i] = p
       /\ \A i \in 1 .. Len(left) : left[i] <= n <=> i <= k
       /\ left' = Skip(text', SubSeq(left, 1, k) \o [i \in 1 .. Len(text') - n |-> n + i],
                       EofChars)
  /\ UNCHANGED <<tokens, outcome>>

Next == TakeToken \/ RejectCharacter \/ FindEnd \/ ChangeFile

Spec == Init /\ [][Next]_vars
=============================================================================
