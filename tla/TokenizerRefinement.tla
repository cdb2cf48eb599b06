------------------------ MODULE TokenizerRefinement ------------------------
(***************************************************************************)
(* The tokenizer implements the Lexer, where fread does not fail.          *)
(***************************************************************************)
EXTENDS Tokenizer, Lexemes

EofChars == IF CharSigned THEN {"xff"} ELSE {}

(* Between two calls and within one: the unfinished token, the character   *)
(* put back, the one in hand (buf_len is 0 where fread returned nothing)   *)
(* and those that have not left the buffer or the file.                    *)
Left ==
  LET put_back == IF last_char = NO_LAST_CHAR THEN <<>> ELSE <<last_char>>
      in_hand  == IF pc = "dispatch" /\ (cur # EOF \/ buf_len > 0)
                  THEN <<Consumed>> ELSE <<>>
      unread   == [i \in 1 .. Len(input) - Consumed |-> Consumed + i]
  IN  token \o put_back \o in_hand \o unread

L == INSTANCE Lexer
       WITH text <- input,
            left <- Skip(input, Left, EofChars),
            tokens <- [i \in 1 .. Len(returned) |->
                         [token_type |-> returned[i].token_type,
                          span |-> returned[i].span]],
            outcome <- CASE status = 0   -> "token"
                         [] status = EOF -> "end"
                         [] OTHER        -> "error"

(* Each call of get_next_token does what one step of the Lexer does, and   *)
(* nothing else shows: tokens are cut by the longest match over the whole  *)
(* text, wherever the buffer ended, a character was put back, an error was *)
(* returned or the byte 0xFF stood.                                        *)
ImplementsLexer == L!Spec
=============================================================================
