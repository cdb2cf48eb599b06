----------------------------- MODULE Tokenizer -----------------------------
(***************************************************************************)
(* The tokenizer of minias (src/minias/tokenizer.c): get_next_token reads  *)
(* characters from infile through a buffer filled by fread and hands out   *)
(* one token per call.                                                     *)
(*                                                                         *)
(* One step of the model is one character fetched (grab_next_char, with    *)
(* the refill grab_buffer makes when the buffer is used up) or one pass    *)
(* through the body of get_next_token's loop for the character fetched.    *)
(*                                                                         *)
(* A character is abstracted to the class the code tests for, and a span   *)
(* to the POSITIONS in the input of the characters it holds, so that       *)
(* properties can say which characters of the file became which token.     *)
(*                                                                         *)
(* `returned`, `rejected` and `eof_at` are history variables.              *)
(***************************************************************************)
EXTENDS Integers, Sequences

CONSTANTS
  MaxTokenLen,   \* MAX_TOKEN_LEN: characters a token may hold
  MaxBufferLen,  \* MAX_BUFFER_LEN: characters fread is asked for
  Files,         \* contents of the files the client may open
  MaxFiles,      \* bound on the calls of set_tokenizer_file
  CharSigned,    \* whether the build's plain char is signed
  ShortReads     \* whether fread may fail and return less than there is

(* The classes get_next_token tells apart. "alpha" holds the letters and   *)
(* '_', "space" what isspace accepts except CR and LF, "xff" is the byte   *)
(* 0xFF, "other" everything else.                                          *)
Char == {"alpha", "digit", "dot", "space", "cr", "lf", "semi", "comma",
         "colon", "other", "xff"}

ASSUME LimitsAssumption ==
  /\ MaxTokenLen \in Nat /\ MaxTokenLen >= 2
  /\ MaxBufferLen \in Nat \ {0}
  /\ MaxFiles \in Nat
  /\ CharSigned \in BOOLEAN
  /\ ShortReads \in BOOLEAN
ASSUME FilesAssumption == Files \subseteq Seq(Char)

TokenType == {"UNKNOWN", "IDENTIFIER", "INT", "FLOAT", "COMMA", "NEWLINE",
              "COLON"}

EOF == -1
NO_LAST_CHAR == -255

TOKENIZER_ERR_TOO_LONG == 1
TOKENIZER_ERR_BAD_CHAR_IN_NUM == 3
TOKENIZER_ERR_BAD_CHAR_IN_IDENTIFIER == 4
TOKENIZER_ERR_TOO_MANY_DOTS == 5
TOKENIZER_ERR_UNRECOGNIZED_SEQUENCE == 7
TOKENIZER_ERR_INVALID_START_CHAR == 8
TOKENIZER_ERR_BAD_NEWLINE_SEQUENCE == 9
ERR_IMPOSSIBLE_TYPE == 255   \* the literal in the switch's default case

VARIABLES
  input,       \* every character of the files opened that was or can be read
  fread_pos,   \* how many of them fread has handed over
  files_set,   \* calls of set_tokenizer_file so far; 0 when infile is NULL
  token,       \* t->token[0 .. t->token_len-1], as positions in input
  line_no,     \* t->line_no
  col_no,      \* t->col_no
  buf_len,     \* t->buf_len
  buf_idx,     \* t->buf_idx
  last_char,   \* t->last_char: a position, or NO_LAST_CHAR
  detected_token_type,
  is_comment,
  pc,          \* "idle" outside get_next_token, else "fetch" or "dispatch"
  cur,         \* the local last_char: a position, or EOF
  status,      \* what the latest get_next_token returned
  returned,    \* history: the tokens handed to the client
  rejected,    \* history: the characters dropped by an error return
  eof_at       \* history: where in the input fread returned nothing

stream_vars == <<input, files_set, line_no, col_no>>
buffer_vars == <<fread_pos, buf_len, buf_idx, eof_at>>
token_vars  == <<token, detected_token_type>>
result_vars == <<status, returned, rejected>>
vars == <<stream_vars, buffer_vars, token_vars, result_vars,
          last_char, is_comment, pc, cur>>

Least(a, b) == IF a <= b THEN a ELSE b

(* The buffer holds the last buf_len characters fread handed over;         *)
(* buffer[i] is the character at this position of the input.               *)
BufferPos(i) == fread_pos - buf_len + i + 1

(* How many characters have left the buffer.                               *)
Consumed == IF buf_idx < buf_len THEN fread_pos - buf_len + buf_idx
                                 ELSE fread_pos

-----------------------------------------------------------------------------
(* init_tokenizer                                                          *)

Init ==
  /\ input = <<>>
  /\ fread_pos = 0
  /\ files_set = 0
  /\ token = <<>>
  /\ line_no = 1
  /\ col_no = 1
  /\ buf_len = 0
  /\ buf_idx = MaxBufferLen     \* so that the first fetch refills
  /\ last_char = NO_LAST_CHAR
  /\ detected_token_type = "UNKNOWN"
  /\ is_comment = FALSE
  /\ pc = "idle"
  /\ cur = EOF
  /\ status = 0
  /\ returned = <<>>
  /\ rejected = {}
  /\ eof_at = {}

(* Mutant: the character put back is forgotten with the old file.          *)
SetTokenizerFileForgets ==
  /\ pc = "idle"
  /\ files_set < MaxFiles
  /\ \E f \in Files : input' = SubSeq(input, 1, fread_pos) \o f
  /\ files_set' = files_set + 1
  /\ line_no' = 1
  /\ col_no' = 1
  /\ last_char' = NO_LAST_CHAR
  /\ UNCHANGED <<buffer_vars, token_vars, result_vars, is_comment, pc, cur>>

(* set_tokenizer_file: the unread rest of the old file is given up, but    *)
(* what is in the buffer, in last_char and in token stays.                 *)
SetTokenizerFile ==
  /\ pc = "idle"
  /\ files_set < MaxFiles
  /\ \E f \in Files : input' = SubSeq(input, 1, fread_pos) \o f
  /\ files_set' = files_set + 1
  /\ line_no' = 1
  /\ col_no' = 1
  /\ UNCHANGED <<buffer_vars, token_vars, result_vars, last_char, is_comment,
                 pc, cur>>

(* A client calls get_next_token, after an error or an EOF as well.        *)
CallGetNextToken ==
  /\ pc = "idle"
  /\ files_set > 0
  /\ pc' = "fetch"
  /\ UNCHANGED <<stream_vars, buffer_vars, token_vars, result_vars, last_char,
                 is_comment, cur>>

-----------------------------------------------------------------------------
(* The start of the loop: the next character into the local last_char.     *)

(* `char cur_char; return (int) cur_char`: where char is signed the byte   *)
(* 0xFF becomes -1, which is EOF.                                          *)
CharToInt(p) == IF CharSigned /\ input[p] = "xff" THEN EOF ELSE p

(* Mutant: the character put back is never marked as taken.                *)
TakeLastCharAgain ==
  /\ pc = "fetch"
  /\ last_char # NO_LAST_CHAR
  /\ cur' = last_char
  /\ pc' = "dispatch"
  /\ UNCHANGED <<stream_vars, buffer_vars, token_vars, result_vars, last_char,
                 is_comment>>

TakeLastChar ==
  /\ pc = "fetch"
  /\ last_char # NO_LAST_CHAR
  /\ cur' = last_char
  /\ last_char' = NO_LAST_CHAR
  /\ pc' = "dispatch"
  /\ UNCHANGED <<stream_vars, buffer_vars, token_vars, result_vars, is_comment>>

TakeBuffered ==
  /\ pc = "fetch"
  /\ last_char = NO_LAST_CHAR
  /\ buf_idx < buf_len
  /\ cur' = CharToInt(BufferPos(buf_idx))
  /\ buf_idx' = buf_idx + 1
  /\ pc' = "dispatch"
  /\ UNCHANGED <<stream_vars, fread_pos, buf_len, eof_at, token_vars,
                 result_vars, last_char, is_comment>>

(* fread, external: all it was asked for or all that is left, unless a     *)
(* read error cuts it short.                                               *)
FreadCounts ==
  LET all == Least(MaxBufferLen, Len(input) - fread_pos)
  IN  IF ShortReads THEN 0 .. all ELSE {all}

GrabBuffer ==
  /\ pc = "fetch"
  /\ last_char = NO_LAST_CHAR
  /\ buf_idx >= buf_len
  /\ \E n \in FreadCounts :
       /\ fread_pos' = fread_pos + n
       /\ buf_len' = n
       /\ \/ /\ n = 0
             /\ buf_idx' = 0
             /\ cur' = EOF
             /\ eof_at' = eof_at \cup {fread_pos}
          \/ /\ n > 0
             /\ buf_idx' = 1
             /\ cur' = CharToInt(fread_pos + 1)
             /\ UNCHANGED eof_at
  /\ pc' = "dispatch"
  /\ UNCHANGED <<stream_vars, token_vars, result_vars, last_char, is_comment>>

-----------------------------------------------------------------------------
(* The body of the loop, for the character fetched. Each operator up to    *)
(* Fail is one of the ways a pass through the body ends.                   *)

(* Mutants: return_token without one of its two resets.                    *)
ReturnTokenKeepsType(type, span) ==
  /\ returned' = Append(returned, [token_type |-> type, span |-> span,
                                   line_no |-> line_no, col_no |-> col_no])
  /\ token' = <<>>
  /\ status' = 0
  /\ pc' = "idle"
  /\ UNCHANGED <<rejected, detected_token_type>>

ReturnTokenKeepsLength(type, span) ==
  /\ returned' = Append(returned, [token_type |-> type, span |-> span,
                                   line_no |-> line_no, col_no |-> col_no])
  /\ detected_token_type' = "UNKNOWN"
  /\ status' = 0
  /\ pc' = "idle"
  /\ UNCHANGED <<rejected, token>>

(* return_token, then `return 0`.                                          *)
ReturnToken(type, span) ==
  /\ returned' = Append(returned, [token_type |-> type, span |-> span,
                                   line_no |-> line_no, col_no |-> col_no])
  /\ token' = <<>>
  /\ detected_token_type' = "UNKNOWN"
  /\ status' = 0
  /\ pc' = "idle"
  /\ UNCHANGED rejected

NextCharacter ==
  /\ pc' = "fetch"
  /\ UNCHANGED <<token_vars, result_vars>>

(* An error return leaves the token under construction as it is: the next  *)
(* call goes on with it, without the character in hand.                    *)
Fail(code) ==
  /\ status' = code
  /\ rejected' = rejected \cup {cur}
  /\ pc' = "idle"
  /\ UNCHANGED <<token_vars, returned>>

(* Mutant: `>` for `>=` in grow_token's check.                             *)
GrowTokenOffByOne(type) ==
  IF Len(token) > MaxTokenLen
  THEN Fail(TOKENIZER_ERR_TOO_LONG)
  ELSE /\ token' = Append(token, cur)
       /\ detected_token_type' = type
       /\ pc' = "fetch"
       /\ UNCHANGED result_vars

(* grow_token under _GROW_TOKEN_CHECKED.                                   *)
GrowToken(type) ==
  IF Len(token) >= MaxTokenLen
  THEN Fail(TOKENIZER_ERR_TOO_LONG)
  ELSE /\ token' = Append(token, cur)
       /\ detected_token_type' = type
       /\ pc' = "fetch"
       /\ UNCHANGED result_vars

(* _RET_TOKEN_IF_NOT_EMPTY_ELSE_CONTINUE                                   *)
ReturnIfNotEmpty ==
  IF token # <<>> THEN ReturnToken(detected_token_type, token)
                  ELSE NextCharacter

IsNewline(c) == c \in {"cr", "lf"}
IsIdentifierInitial(c) == c = "alpha"
IsIdentifierMedial(c) == c \in {"alpha", "digit"}

(* The if-else chain ahead of the switch, in its order.                    *)

(* Mutant: EOF is returned without the token it ends.                      *)
AtEofDropsToken ==
  /\ pc = "dispatch"
  /\ cur = EOF
  /\ status' = EOF
  /\ pc' = "idle"
  /\ UNCHANGED <<token_vars, returned, rejected>>
  /\ UNCHANGED <<stream_vars, buffer_vars, last_char, is_comment, cur>>

AtEof ==
  /\ pc = "dispatch"
  /\ cur = EOF
  /\ IF token # <<>>
     THEN ReturnToken(detected_token_type, token)
     ELSE /\ status' = EOF
          /\ pc' = "idle"
          /\ UNCHANGED <<token_vars, returned, rejected>>
  /\ UNCHANGED <<stream_vars, buffer_vars, last_char, is_comment, cur>>

(* Mutant: the newline that ends a comment does not reset is_comment.      *)
SkipCommentForever ==
  /\ pc = "dispatch"
  /\ cur # EOF
  /\ is_comment
  /\ last_char' = IF IsNewline(input[cur]) THEN cur ELSE last_char
  /\ NextCharacter
  /\ UNCHANGED <<stream_vars, buffer_vars, is_comment, cur>>

(* Mutant: the newline that ends a comment is part of it.                  *)
SkipCommentAndNewline ==
  /\ pc = "dispatch"
  /\ cur # EOF
  /\ is_comment
  /\ is_comment' = ~IsNewline(input[cur])
  /\ NextCharacter
  /\ UNCHANGED <<stream_vars, buffer_vars, last_char, cur>>

SkipComment ==
  /\ pc = "dispatch"
  /\ cur # EOF
  /\ is_comment
  /\ IF IsNewline(input[cur])
     THEN is_comment' = FALSE /\ last_char' = cur
     ELSE UNCHANGED <<is_comment, last_char>>
  /\ NextCharacter
  /\ UNCHANGED <<stream_vars, buffer_vars, cur>>

InCode == pc = "dispatch" /\ cur # EOF /\ ~is_comment

NewlineEndsToken ==
  /\ InCode
  /\ IsNewline(input[cur])
  /\ token # <<>> /\ detected_token_type # "NEWLINE"
  /\ last_char' = cur
  /\ ReturnToken(detected_token_type, token)
  /\ UNCHANGED <<stream_vars, buffer_vars, is_comment, cur>>

Space ==
  /\ InCode
  /\ input[cur] = "space"
  /\ ReturnIfNotEmpty
  /\ UNCHANGED <<stream_vars, buffer_vars, last_char, is_comment, cur>>

BeginComment ==
  /\ InCode
  /\ input[cur] = "semi"
  /\ is_comment' = TRUE
  /\ ReturnIfNotEmpty
  /\ UNCHANGED <<stream_vars, buffer_vars, last_char, cur>>

(* Mutant: the separator after a token is not put back.                    *)
SeparatorLost ==
  /\ InCode
  /\ input[cur] \in {"comma", "colon"}
  /\ IF token # <<>>
     THEN ReturnToken(detected_token_type, token)
     ELSE ReturnToken(IF input[cur] = "comma" THEN "COMMA" ELSE "COLON",
                      <<cur>>)
  /\ UNCHANGED <<stream_vars, buffer_vars, last_char, is_comment, cur>>

(* A comma or a colon ends the token before it and comes back through      *)
(* last_char as a token of its own.                                        *)
Separator ==
  /\ InCode
  /\ input[cur] \in {"comma", "colon"}
  /\ IF token # <<>>
     THEN last_char' = cur /\ ReturnToken(detected_token_type, token)
     ELSE /\ UNCHANGED last_char
          /\ ReturnToken(IF input[cur] = "comma" THEN "COMMA" ELSE "COLON",
                         <<cur>>)
  /\ UNCHANGED <<stream_vars, buffer_vars, is_comment, cur>>

(* The cases of the switch on detected_token_type.                         *)

StartToken ==
  /\ UNCHANGED last_char
  /\ LET Start(type) == /\ token' = Append(token, cur)
                        /\ detected_token_type' = type
                        /\ pc' = "fetch"
                        /\ UNCHANGED result_vars
     IN  IF token # <<>> THEN Fail(TOKENIZER_ERR_UNRECOGNIZED_SEQUENCE)
         ELSE CASE IsIdentifierInitial(input[cur]) -> Start("IDENTIFIER")
                [] input[cur] = "digit"            -> Start("INT")
                [] IsNewline(input[cur])           -> Start("NEWLINE")
                [] OTHER -> Fail(TOKENIZER_ERR_INVALID_START_CHAR)

GrowIdentifier ==
  /\ UNCHANGED last_char
  /\ IF IsIdentifierMedial(input[cur])
     THEN GrowToken("IDENTIFIER")
     ELSE Fail(TOKENIZER_ERR_BAD_CHAR_IN_IDENTIFIER)

(* Mutant: the type is not changed at the decimal point.                   *)
GrowIntThroughDot ==
  /\ UNCHANGED last_char
  /\ IF input[cur] \in {"digit", "dot"}
     THEN GrowToken("INT")
     ELSE Fail(TOKENIZER_ERR_BAD_CHAR_IN_NUM)

GrowInt ==
  /\ UNCHANGED last_char
  /\ CASE input[cur] = "digit" -> GrowToken("INT")
       [] input[cur] = "dot"   -> GrowToken("FLOAT")
       [] OTHER                -> Fail(TOKENIZER_ERR_BAD_CHAR_IN_NUM)

GrowFloat ==
  /\ UNCHANGED last_char
  /\ CASE input[cur] = "digit" -> GrowToken("FLOAT")
       [] input[cur] = "dot"   -> Fail(TOKENIZER_ERR_TOO_MANY_DOTS)
       [] OTHER                -> Fail(TOKENIZER_ERR_BAD_CHAR_IN_NUM)

(* Mutant: CR and LF are a token each.                                     *)
EndNewlineAtCR == last_char' = cur /\ ReturnToken("NEWLINE", token)

(* CR LF is one token; any other character ends the newline token and      *)
(* waits in last_char. (One character is in the token, so the checked      *)
(* grow_token of the code cannot fail: MaxTokenLen >= 2.)                  *)
EndNewline ==
  IF Len(token) > 1
  THEN UNCHANGED last_char /\ Fail(TOKENIZER_ERR_BAD_NEWLINE_SEQUENCE)
  ELSE IF input[cur] = "lf" /\ input[token[1]] = "cr"
       THEN UNCHANGED last_char /\ ReturnToken("NEWLINE", Append(token, cur))
       ELSE last_char' = cur /\ ReturnToken("NEWLINE", token)

SwitchOnType ==
  /\ InCode
  /\ input[cur] \notin {"space", "semi", "comma", "colon"}
  /\ ~(IsNewline(input[cur]) /\ token # <<>> /\ detected_token_type # "NEWLINE")
  /\ CASE detected_token_type = "UNKNOWN"    -> StartToken
       [] detected_token_type = "IDENTIFIER" -> GrowIdentifier
       [] detected_token_type = "INT"        -> GrowInt
       [] detected_token_type = "FLOAT"      -> GrowFloat
       [] detected_token_type = "NEWLINE"    -> EndNewline
       [] OTHER -> UNCHANGED last_char /\ Fail(ERR_IMPOSSIBLE_TYPE)
  /\ UNCHANGED <<stream_vars, buffer_vars, is_comment, cur>>

-----------------------------------------------------------------------------
Fetch == TakeLastChar \/ TakeBuffered \/ GrabBuffer

Dispatch == \/ AtEof \/ SkipComment \/ NewlineEndsToken \/ Space
            \/ BeginComment \/ Separator \/ SwitchOnType

Next == SetTokenizerFile \/ CallGetNextToken \/ Fetch \/ Dispatch

(* The loop of get_next_token runs on; when to call is up to the client.   *)
Fairness == WF_vars(Fetch \/ Dispatch)

Spec == Init /\ [][Next]_vars /\ Fairness

-----------------------------------------------------------------------------
(* Properties                                                              *)

Position == Nat \ {0}
Token == [token_type : TokenType, span : Seq(Position),
          line_no : Nat, col_no : Nat]

(* The type invariant: the indices of the buffer and of the token array    *)
(* stay within the arrays of tokenizer_t, and last_char and cur name       *)
(* characters that were really read.                                       *)
TypeOK ==
  /\ input \in Seq(Char)
  /\ fread_pos \in 0 .. Len(input)
  /\ files_set \in 0 .. MaxFiles
  /\ token \in Seq(Position) /\ Len(token) <= MaxTokenLen
  /\ line_no \in Nat /\ col_no \in Nat
  /\ buf_len \in 0 .. Least(MaxBufferLen, fread_pos)
  /\ buf_idx \in 0 .. MaxBufferLen
  /\ last_char \in {NO_LAST_CHAR} \cup 1 .. fread_pos
  /\ detected_token_type \in TokenType
  /\ is_comment \in BOOLEAN
  /\ pc \in {"idle", "fetch", "dispatch"}
  /\ cur \in {EOF} \cup 1 .. fread_pos
  /\ status \in {0, EOF} \cup 1 .. 255
  /\ returned \in Seq(Token)
  /\ rejected \subseteq 1 .. fread_pos
  /\ eof_at \subseteq 0 .. fread_pos

(* Between any two steps detected_token_type tells what is in the token    *)
(* array: no type for an empty one, and a newline token is one character   *)
(* that no error and no comment ever finds there.                          *)
TokenStateOK ==
  /\ (detected_token_type = "UNKNOWN") <=> (token = <<>>)
  /\ detected_token_type \notin {"COMMA", "COLON"}
  /\ detected_token_type = "NEWLINE" => Len(token) = 1 /\ pc # "idle"
  /\ is_comment => token = <<>>

(* Three of the errors get_next_token is written to return cannot occur,   *)
(* also when the client goes on calling after other errors and changes     *)
(* files in mid-token: TOKENIZER_ERR_UNRECOGNIZED_SEQUENCE,                *)
(* TOKENIZER_ERR_BAD_NEWLINE_SEQUENCE and the 255 of the default case.     *)
NoImpossibleError ==
  status \notin {TOKENIZER_ERR_UNRECOGNIZED_SEQUENCE,
                 TOKENIZER_ERR_BAD_NEWLINE_SEQUENCE, ERR_IMPOSSIBLE_TYPE}

Elements(s) == {s[i] : i \in 1 .. Len(s)}

(* Nothing is handed out twice or out of order: the characters of the      *)
(* tokens returned, then those of the token under construction, then the   *)
(* one put back in last_char, stand in the order of the input, and the one *)
(* put back is the last that left the buffer.                              *)
TextInOrder ==
  LET Increasing(s) == \A i \in 1 .. Len(s) : \A j \in 1 .. i - 1 : s[j] < s[i]
      AllBefore(S, T) == \A p \in S : \A q \in T : p < q
      Pending == {last_char} \ {NO_LAST_CHAR}
  IN  /\ Increasing(token)
      /\ \A i \in 1 .. Len(returned) :
           /\ Increasing(returned[i].span)
           /\ AllBefore(Elements(returned[i].span), Elements(token) \cup Pending)
           /\ \A k \in 1 .. i - 1 :
                AllBefore(Elements(returned[k].span), Elements(returned[i].span))
      /\ AllBefore(Elements(token), Pending)
      /\ Pending \subseteq {Consumed}

(* What the language says is not text: a comment runs from a semicolon to  *)
(* the next CR or LF, wherever the file, the buffer or a call ended; a     *)
(* blank is white space or, where it reads as EOF, the byte 0xFF.          *)
Commented(p) == \E q \in 1 .. p : /\ input[q] = "semi"
                                  /\ \A r \in q .. p : ~IsNewline(input[r])
Blank(p) == input[p] = "space" \/ (CharSigned /\ input[p] = "xff")

(* Nothing is lost and nothing is invented: a character that was read and  *)
(* dealt with is in a token exactly if it is neither blank, nor in a       *)
(* comment, nor the character an error return dropped.                     *)
TextAccountedFor ==
  LET Kept == Elements(token) \cup
              UNION {Elements(returned[i].span) : i \in 1 .. Len(returned)}
      Undecided == {last_char, IF pc = "dispatch" THEN cur ELSE EOF}
  IN  \A p \in (1 .. Consumed) \ Undecided :
        (p \in Kept) <=> ~(Blank(p) \/ Commented(p) \/ p \in rejected)

(* Every token handed out is as long as it can be, whatever the boundaries *)
(* of the buffer: a word or number is followed by a delimiter, by the      *)
(* point where fread ran dry or by a character that was rejected, and a CR *)
(* followed by a LF is not a newline of its own.                           *)
TokensMaximal ==
  \A i \in 1 .. Len(returned) :
    LET t == returned[i]
        last == t.span[Len(t.span)]
        next == input[last + 1]
    IN  last \in eof_at \cup {p - 1 : p \in rejected} \/
        CASE t.token_type \in {"IDENTIFIER", "INT", "FLOAT"} ->
               /\ last < Len(input)
               /\ \/ next \in {"space", "semi", "cr", "lf", "comma", "colon"}
                  \/ CharSigned /\ next = "xff"
          [] t.token_type = "NEWLINE" ->
               (last < Len(input) /\ input[last] = "cr") => next # "lf"
          [] OTHER -> TRUE

(* get_next_token returns EOF only when nothing is left: no character of   *)
(* the file, no token under construction, none in last_char. (Except at    *)
(* the byte 0xFF where char is signed, and not when fread fails.)          *)
EofMeansEnd ==
  [][pc = "dispatch" /\ pc' = "idle" /\ status' = EOF =>
       /\ token' = <<>>
       /\ last_char' = NO_LAST_CHAR
       /\ \/ Consumed = Len(input)
          \/ CharSigned /\ input[Consumed] = "xff"]_vars

(* Every call of get_next_token returns, whatever is in the file.          *)
CallReturns == (pc # "idle") ~> (pc = "idle")
=============================================================================
