-------------------------- MODULE TokenizerProofs --------------------------
(***************************************************************************)
(* Proofs about the tokenizer, for every token and buffer length, every    *)
(* set of files, signed and unsigned char, and any failures of fread.      *)
(***************************************************************************)
EXTENDS Tokenizer, SequenceTheorems, TLAPS

-----------------------------------------------------------------------------
(* What a pass through the loop body may do to the variables that the      *)
(* leaves of the body assign, whatever case it takes.                      *)

LoopTypes ==
  /\ token' \in Seq(Position) /\ Len(token') <= MaxTokenLen
  /\ detected_token_type' \in TokenType
  /\ pc' \in {"idle", "fetch", "dispatch"}
  /\ status' \in {0, EOF} \cup 1 .. 255
  /\ returned' \in Seq(Token)
  /\ rejected' \subseteq 1 .. fread_pos

(* Each leaf of the loop body (return_token, grow_token, an error return,  *)
(* the next character) keeps the types of what it assigns.                 *)
LEMMA ReturnTokenTypes ==
  ASSUME TypeOK, NEW type \in TokenType, NEW span \in Seq(Position),
         ReturnToken(type, span)
  PROVE  LoopTypes
<1>1. [token_type |-> type, span |-> span, line_no |-> line_no,
       col_no |-> col_no] \in Token
  BY DEF TypeOK, Token
<1>2. returned' \in Seq(Token)
  BY <1>1, AppendProperties DEF TypeOK, ReturnToken
<1>3. token' \in Seq(Position) /\ Len(token') <= MaxTokenLen
  BY LimitsAssumption DEF ReturnToken
<1> QED
  BY <1>2, <1>3 DEF TypeOK, ReturnToken, LoopTypes, TokenType

LEMMA NextCharacterTypes ==
  ASSUME TypeOK, NextCharacter
  PROVE  LoopTypes
BY DEF TypeOK, NextCharacter, LoopTypes, token_vars, result_vars

LEMMA FailTypes ==
  ASSUME TypeOK, NEW code \in 1 .. 255, cur # EOF, Fail(code)
  PROVE  LoopTypes
BY DEF TypeOK, Fail, LoopTypes, token_vars

LEMMA GrowTokenTypes ==
  ASSUME TypeOK, NEW type \in TokenType, cur # EOF, GrowToken(type)
  PROVE  LoopTypes
<1>1. CASE Len(token) >= MaxTokenLen
  BY <1>1, FailTypes DEF GrowToken, TOKENIZER_ERR_TOO_LONG
<1>2. CASE ~(Len(token) >= MaxTokenLen)
  <2>1. cur \in Position
    BY DEF TypeOK, Position
  <2>2. token' = Append(token, cur)
    BY <1>2 DEF GrowToken
  <2>3. token' \in Seq(Position) /\ Len(token') = Len(token) + 1
    BY <2>1, <2>2, AppendProperties DEF TypeOK
  <2>4. Len(token') <= MaxTokenLen
    BY <1>2, <2>3, LimitsAssumption DEF TypeOK
  <2> QED
    BY <1>2, <2>3, <2>4 DEF TypeOK, GrowToken, LoopTypes, result_vars
<1> QED
  BY <1>1, <1>2

LEMMA ReturnIfNotEmptyTypes ==
  ASSUME TypeOK, ReturnIfNotEmpty
  PROVE  LoopTypes
BY ReturnTokenTypes, NextCharacterTypes DEF TypeOK, ReturnIfNotEmpty

LEMMA SwitchTypes ==
  ASSUME TypeOK, SwitchOnType
  PROVE  LoopTypes /\ last_char' \in {last_char, cur}
<1> DEFINE type == detected_token_type
<1>1. cur # EOF /\ cur \in Position
  BY DEF SwitchOnType, InCode, TypeOK, Position
<1>2. CASE type = "UNKNOWN" /\ StartToken
  <2>1. CASE token # <<>>
    BY <1>1, <1>2, <2>1, FailTypes DEF StartToken,
       TOKENIZER_ERR_UNRECOGNIZED_SEQUENCE
  <2>2. CASE token = <<>>
    <3>1. ASSUME NEW t \in TokenType, token' = Append(token, cur),
                 detected_token_type' = t, pc' = "fetch",
                 UNCHANGED result_vars
          PROVE  LoopTypes
      <4>1. token' \in Seq(Position) /\ Len(token') = 1
        BY <1>1, <2>2, <3>1, AppendProperties DEF TypeOK
      <4> QED
        BY <3>1, <4>1, LimitsAssumption DEF LoopTypes, TypeOK, result_vars
    <3>2. "IDENTIFIER" \in TokenType /\ "INT" \in TokenType
          /\ "NEWLINE" \in TokenType
      BY DEF TokenType
    <3>3. CASE IsIdentifierInitial(input[cur])
      BY <1>2, <2>2, <3>1, <3>2, <3>3 DEF StartToken, IsIdentifierInitial
    <3>4. CASE input[cur] = "digit"
      BY <1>2, <2>2, <3>1, <3>2, <3>4 DEF StartToken, IsIdentifierInitial
    <3>5. CASE IsNewline(input[cur])
      BY <1>2, <2>2, <3>1, <3>2, <3>5
      DEF StartToken, IsIdentifierInitial, IsNewline
    <3>6. CASE /\ ~IsIdentifierInitial(input[cur])
               /\ input[cur] # "digit"
               /\ ~IsNewline(input[cur])
      BY <1>1, <1>2, <2>2, <3>6, FailTypes
      DEF StartToken, TOKENIZER_ERR_INVALID_START_CHAR
    <3> QED
      BY <1>2, <3>3, <3>4, <3>5, <3>6 DEF StartToken
  <2> QED
    BY <1>2, <2>1, <2>2 DEF StartToken
<1>3. CASE type = "IDENTIFIER" /\ GrowIdentifier
  BY <1>1, <1>3, FailTypes, GrowTokenTypes
  DEF GrowIdentifier, TokenType, TOKENIZER_ERR_BAD_CHAR_IN_IDENTIFIER
<1>4. CASE type = "INT" /\ GrowInt
  BY <1>1, <1>4, FailTypes, GrowTokenTypes
  DEF GrowInt, TokenType, TOKENIZER_ERR_BAD_CHAR_IN_NUM
<1>5. CASE type = "FLOAT" /\ GrowFloat
  BY <1>1, <1>5, FailTypes, GrowTokenTypes
  DEF GrowFloat, TokenType, TOKENIZER_ERR_BAD_CHAR_IN_NUM,
      TOKENIZER_ERR_TOO_MANY_DOTS
<1>6. CASE type = "NEWLINE" /\ EndNewline
  <2>1. token \in Seq(Position) /\ Append(token, cur) \in Seq(Position)
    BY <1>1, AppendProperties DEF TypeOK
  <2>2. CASE UNCHANGED last_char /\ Fail(TOKENIZER_ERR_BAD_NEWLINE_SEQUENCE)
    BY <1>1, <2>2, FailTypes DEF TOKENIZER_ERR_BAD_NEWLINE_SEQUENCE
  <2>3. ASSUME NEW span \in Seq(Position), ReturnToken("NEWLINE", span)
        PROVE  LoopTypes
    BY <2>3, ReturnTokenTypes DEF TokenType
  <2> QED
    BY <1>6, <2>1, <2>2, <2>3 DEF EndNewline
<1>7. CASE /\ type \notin {"UNKNOWN", "IDENTIFIER", "INT", "FLOAT", "NEWLINE"}
           /\ UNCHANGED last_char
           /\ Fail(ERR_IMPOSSIBLE_TYPE)
  BY <1>1, <1>7, FailTypes DEF ERR_IMPOSSIBLE_TYPE
<1> QED
  BY <1>2, <1>3, <1>4, <1>5, <1>6, <1>7 DEF SwitchOnType

(* Every pass through the loop body keeps the types and reads no           *)
(* character.                                                              *)
LEMMA DispatchTypes ==
  ASSUME TypeOK, Dispatch
  PROVE  /\ LoopTypes
         /\ last_char' \in {last_char} \cup 1 .. fread_pos
         /\ is_comment' \in BOOLEAN
         /\ UNCHANGED <<stream_vars, buffer_vars, cur>>
<1> USE DEF TypeOK
<1>1. CASE AtEof
  <2>1. LoopTypes
    <3>1. CASE token # <<>>
      BY <1>1, <3>1, ReturnTokenTypes DEF AtEof
    <3>2. CASE token = <<>>
      BY <1>1, <3>2 DEF AtEof, LoopTypes, token_vars
    <3> QED
      BY <3>1, <3>2
  <2> QED
    BY <1>1, <2>1 DEF AtEof
<1>2. CASE SkipComment
  BY <1>2, NextCharacterTypes DEF SkipComment
<1>3. CASE NewlineEndsToken
  BY <1>3, ReturnTokenTypes DEF NewlineEndsToken, InCode
<1>4. CASE Space
  BY <1>4, ReturnIfNotEmptyTypes DEF Space
<1>5. CASE BeginComment
  BY <1>5, ReturnIfNotEmptyTypes DEF BeginComment
<1>6. CASE Separator
  <2>1. <<cur>> \in Seq(Position)
    BY <1>6 DEF Separator, InCode, Position
  <2> QED
    BY <1>6, <2>1, ReturnTokenTypes DEF Separator, InCode, TokenType
<1>7. CASE SwitchOnType
  BY <1>7, SwitchTypes DEF SwitchOnType, InCode
<1> QED
  BY <1>1, <1>2, <1>3, <1>4, <1>5, <1>6, <1>7 DEF Dispatch

(* A fetch leaves a character that was read, or EOF, in cur, and the       *)
(* indices within the buffer.                                              *)
LEMMA FetchTypes ==
  ASSUME TypeOK, Fetch
  PROVE  TypeOK'
<1> USE LimitsAssumption DEF Least, stream_vars, token_vars, result_vars
<1>1. CASE TakeLastChar
  BY <1>1 DEF TypeOK, TakeLastChar, buffer_vars, NO_LAST_CHAR, EOF
<1>2. CASE TakeBuffered
  <2>1. BufferPos(buf_idx) \in 1 .. fread_pos
    BY <1>2 DEF TypeOK, TakeBuffered, BufferPos
  <2> QED
    BY <1>2, <2>1 DEF TypeOK, TakeBuffered, CharToInt
<1>3. CASE GrabBuffer
  <2>1. PICK n \in FreadCounts :
          /\ fread_pos' = fread_pos + n
          /\ buf_len' = n
          /\ \/ /\ n = 0
                /\ buf_idx' = 0
                /\ cur' = EOF
                /\ eof_at' = eof_at \cup {fread_pos}
             \/ /\ n > 0
                /\ buf_idx' = 1
                /\ cur' = CharToInt(fread_pos + 1)
                /\ UNCHANGED eof_at
    BY <1>3 DEF GrabBuffer
  <2>2. n \in 0 .. MaxBufferLen /\ fread_pos + n <= Len(input)
    BY LenProperties DEF TypeOK, FreadCounts
  <2>3. fread_pos' \in 0 .. Len(input) /\ fread_pos <= fread_pos'
    BY <2>1, <2>2 DEF TypeOK
  <2>4. cur' \in {EOF} \cup 1 .. fread_pos'
    BY <2>1, <2>2 DEF TypeOK, CharToInt
  <2>5. buf_len' \in 0 .. Least(MaxBufferLen, fread_pos')
        /\ buf_idx' \in 0 .. MaxBufferLen
    BY <2>1, <2>2 DEF TypeOK
  <2>6. eof_at' \subseteq 0 .. fread_pos' /\ rejected' \subseteq 1 .. fread_pos'
    <3>1. eof_at' \subseteq eof_at \cup {fread_pos} /\ rejected' = rejected
      BY <1>3, <2>1 DEF GrabBuffer
    <3> QED
      BY <2>3, <3>1 DEF TypeOK
  <2>7. last_char' \in {NO_LAST_CHAR} \cup 1 .. fread_pos'
    BY <1>3, <2>3 DEF TypeOK, GrabBuffer
  <2> QED
    BY <1>3, <2>3, <2>4, <2>5, <2>6, <2>7 DEF TypeOK, GrabBuffer
<1> QED
  BY <1>1, <1>2, <1>3 DEF Fetch

(* The types hold initially, and every step keeps them.                    *)
LEMMA TypeInit ==
  ASSUME Init
  PROVE  TypeOK
<1>1. <<>> \in Seq(Char) /\ <<>> \in Seq(Position) /\ <<>> \in Seq(Token)
      /\ Len(<<>>) = 0
  BY EmptySeq
<1>2. /\ input \in Seq(Char) /\ token \in Seq(Position)
      /\ returned \in Seq(Token)
      /\ Len(input) = 0 /\ Len(token) = 0
  BY <1>1 DEF Init
<1>3. /\ fread_pos \in 0 .. Len(input)
      /\ files_set \in 0 .. MaxFiles
      /\ buf_len \in 0 .. Least(MaxBufferLen, fread_pos)
      /\ buf_idx \in 0 .. MaxBufferLen
      /\ Len(token) <= MaxTokenLen
  BY <1>2, LimitsAssumption DEF Init, Least
<1>4. line_no \in Nat /\ col_no \in Nat
      /\ status \in {0, EOF} \cup 1 .. 255
  BY DEF Init
<1> QED
  BY <1>2, <1>3, <1>4 DEF Init, TypeOK, TokenType

LEMMA TypeStep ==
  ASSUME TypeOK, [Next]_vars
  PROVE  TypeOK'
<1>1. CASE SetTokenizerFile
  <2>1. PICK f \in Files : input' = SubSeq(input, 1, fread_pos) \o f
    BY <1>1 DEF SetTokenizerFile
  <2>2. f \in Seq(Char)
    BY FilesAssumption
  <2>3. SubSeq(input, 1, fread_pos) \in Seq(Char)
        /\ Len(SubSeq(input, 1, fread_pos)) = fread_pos
    BY LenProperties, SubSeqProperties DEF TypeOK
  <2>4. input' \in Seq(Char) /\ fread_pos <= Len(input')
    BY <2>1, <2>2, <2>3, ConcatProperties, LenProperties DEF TypeOK
  <2> QED
    BY <1>1, <2>4, LimitsAssumption, LenProperties
    DEF SetTokenizerFile, TypeOK, buffer_vars, token_vars, result_vars
<1>2. CASE CallGetNextToken
  BY <1>2 DEF CallGetNextToken, TypeOK, stream_vars, buffer_vars,
              token_vars, result_vars
<1>3. CASE Fetch
  BY <1>3, FetchTypes
<1>4. CASE Dispatch
  BY <1>4, DispatchTypes DEF TypeOK, LoopTypes, stream_vars, buffer_vars
<1>5. CASE UNCHANGED vars
  BY <1>5 DEF TypeOK, vars, stream_vars, buffer_vars, token_vars, result_vars
<1> QED
  BY <1>1, <1>2, <1>3, <1>4, <1>5 DEF Next

(* Type correctness: the arrays of tokenizer_t are never indexed beyond    *)
(* their length, whatever the files and the client do.                     *)
THEOREM TypeCorrect == Spec => []TypeOK
BY TypeInit, TypeStep, PTL DEF Spec

-----------------------------------------------------------------------------
(* The type of the token under construction always tells its shape.        *)

LEMMA ReturnTokenState ==
  ASSUME NEW type, NEW span, ReturnToken(type, span)
  PROVE  token' = <<>> /\ detected_token_type' = "UNKNOWN" /\ status' = 0
BY DEF ReturnToken

LEMMA SwitchState ==
  ASSUME TypeOK, TokenStateOK, NoImpossibleError, SwitchOnType
  PROVE  TokenStateOK' /\ NoImpossibleError'
<1> USE DEF TokenStateOK, NoImpossibleError
<1>1. ~is_comment /\ ~is_comment' /\ cur # EOF /\ cur \in Position
      /\ pc = "dispatch"
  BY DEF SwitchOnType, InCode, TypeOK, Position
<1>2. Append(token, cur) # <<>> /\ Len(Append(token, cur)) = Len(token) + 1
  BY <1>1, AppendProperties DEF TypeOK
<1>3. ASSUME NEW type \in {"IDENTIFIER", "INT", "FLOAT"}, token # <<>>,
             detected_token_type # "NEWLINE", GrowToken(type)
      PROVE  TokenStateOK' /\ NoImpossibleError'
  BY <1>1, <1>2, <1>3
  DEF GrowToken, Fail, token_vars, result_vars, TOKENIZER_ERR_TOO_LONG,
      TOKENIZER_ERR_UNRECOGNIZED_SEQUENCE, TOKENIZER_ERR_BAD_NEWLINE_SEQUENCE,
      ERR_IMPOSSIBLE_TYPE
<1>4. ASSUME NEW code \in {TOKENIZER_ERR_BAD_CHAR_IN_NUM,
                           TOKENIZER_ERR_BAD_CHAR_IN_IDENTIFIER,
                           TOKENIZER_ERR_TOO_MANY_DOTS,
                           TOKENIZER_ERR_INVALID_START_CHAR},
             detected_token_type # "NEWLINE", Fail(code)
      PROVE  TokenStateOK' /\ NoImpossibleError'
  BY <1>1, <1>4
  DEF Fail, token_vars, TOKENIZER_ERR_BAD_CHAR_IN_NUM,
      TOKENIZER_ERR_BAD_CHAR_IN_IDENTIFIER, TOKENIZER_ERR_TOO_MANY_DOTS,
      TOKENIZER_ERR_INVALID_START_CHAR, TOKENIZER_ERR_UNRECOGNIZED_SEQUENCE,
      TOKENIZER_ERR_BAD_NEWLINE_SEQUENCE, ERR_IMPOSSIBLE_TYPE
<1>5. ASSUME NEW span, ReturnToken("NEWLINE", span)
      PROVE  TokenStateOK' /\ NoImpossibleError'
  BY <1>1, <1>5, ReturnTokenState
  DEF TOKENIZER_ERR_UNRECOGNIZED_SEQUENCE, TOKENIZER_ERR_BAD_NEWLINE_SEQUENCE,
      ERR_IMPOSSIBLE_TYPE
<1>6. CASE detected_token_type = "UNKNOWN" /\ StartToken
  <2>1. token = <<>>
    BY <1>6
  <2>2. Len(token) = 0
    BY <2>1, EmptySeq
  <2>3. ASSUME NEW t \in {"IDENTIFIER", "INT", "NEWLINE"},
               token' = Append(token, cur), detected_token_type' = t,
               pc' = "fetch", UNCHANGED result_vars
        PROVE  TokenStateOK' /\ NoImpossibleError'
    BY <1>1, <1>2, <2>2, <2>3 DEF result_vars
  <2> QED
    BY <1>4, <1>6, <2>1, <2>3
    DEF StartToken, IsIdentifierInitial, IsNewline
<1>7. CASE detected_token_type = "IDENTIFIER" /\ GrowIdentifier
  BY <1>3, <1>4, <1>7 DEF GrowIdentifier
<1>8. CASE detected_token_type = "INT" /\ GrowInt
  BY <1>3, <1>4, <1>8 DEF GrowInt
<1>9. CASE detected_token_type = "FLOAT" /\ GrowFloat
  BY <1>3, <1>4, <1>9 DEF GrowFloat
<1>10. CASE detected_token_type = "NEWLINE" /\ EndNewline
  <2>1. Len(token) = 1
    BY <1>10
  <2>2. \/ ReturnToken("NEWLINE", Append(token, cur))
        \/ ReturnToken("NEWLINE", token)
    BY <1>10, <2>1 DEF EndNewline
  <2>3. CASE ReturnToken("NEWLINE", Append(token, cur))
    BY ONLY <1>5, <2>3
  <2>4. CASE ReturnToken("NEWLINE", token)
    BY ONLY <1>5, <2>4
  <2> QED
    BY ONLY <2>2, <2>3, <2>4
<1> QED
  BY <1>6, <1>7, <1>8, <1>9, <1>10 DEF SwitchOnType, TypeOK, TokenType

LEMMA DispatchState ==
  ASSUME TypeOK, TokenStateOK, NoImpossibleError, Dispatch
  PROVE  TokenStateOK' /\ NoImpossibleError'
<1> USE DEF TokenStateOK, NoImpossibleError, TOKENIZER_ERR_UNRECOGNIZED_SEQUENCE,
            TOKENIZER_ERR_BAD_NEWLINE_SEQUENCE, ERR_IMPOSSIBLE_TYPE
<1>1. CASE AtEof
  BY <1>1, ReturnTokenState DEF AtEof, token_vars, EOF
<1>2. CASE SkipComment
  BY <1>2 DEF SkipComment, NextCharacter, token_vars, result_vars
<1>3. CASE NewlineEndsToken
  BY <1>3, ReturnTokenState DEF NewlineEndsToken, InCode
<1>4. ASSUME ReturnIfNotEmpty
      PROVE  /\ token' = <<>> /\ detected_token_type' = "UNKNOWN"
             /\ status' \in {0, status}
  BY <1>4, ReturnTokenState
  DEF ReturnIfNotEmpty, NextCharacter, token_vars, result_vars
<1>5. CASE Space
  BY <1>4, <1>5 DEF Space, InCode
<1>6. CASE BeginComment
  BY <1>4, <1>6 DEF BeginComment, InCode
<1>7. CASE Separator
  BY <1>7, ReturnTokenState DEF Separator, InCode
<1>8. CASE SwitchOnType
  BY <1>8, SwitchState
<1> QED
  BY <1>1, <1>2, <1>3, <1>5, <1>6, <1>7, <1>8 DEF Dispatch

(* The state of the token is sound initially, and every step keeps it so.  *)
LEMMA TokenStateInit ==
  ASSUME Init
  PROVE  TokenStateOK /\ NoImpossibleError
BY DEF Init, TokenStateOK, NoImpossibleError,
       TOKENIZER_ERR_UNRECOGNIZED_SEQUENCE,
       TOKENIZER_ERR_BAD_NEWLINE_SEQUENCE, ERR_IMPOSSIBLE_TYPE

LEMMA TokenStateStep ==
  ASSUME TypeOK, TokenStateOK, NoImpossibleError, [Next]_vars
  PROVE  TokenStateOK' /\ NoImpossibleError'
<1> USE DEF TokenStateOK, NoImpossibleError, token_vars, result_vars
<1>1. CASE SetTokenizerFile
  BY <1>1 DEF SetTokenizerFile
<1>2. CASE CallGetNextToken
  BY <1>2 DEF CallGetNextToken
<1>3. CASE Fetch
  BY <1>3 DEF Fetch, TakeLastChar, TakeBuffered, GrabBuffer
<1>4. CASE Dispatch
  BY <1>4, DispatchState
<1>5. CASE UNCHANGED vars
  BY <1>5 DEF vars
<1> QED
  BY <1>1, <1>2, <1>3, <1>4, <1>5 DEF Next

(* The state of the token under construction is sound between any two      *)
(* steps, and with it three of the error returns are dead code.            *)
THEOREM TokenStateCorrect == Spec => [](TokenStateOK /\ NoImpossibleError)
<1> DEFINE Inv == TokenStateOK /\ NoImpossibleError
<1>1. Init => Inv
  BY TokenStateInit
<1>2. TypeOK /\ Inv /\ [Next]_vars => Inv'
  BY TokenStateStep
<1> QED
  BY <1>1, <1>2, TypeCorrect, PTL DEF Spec

(* The three errors themselves: none of them is ever returned.             *)
THEOREM NoImpossibleErrorCorrect == Spec => []NoImpossibleError
<1>1. TokenStateOK /\ NoImpossibleError => NoImpossibleError
  OBVIOUS
<1> QED
  BY <1>1, TokenStateCorrect, PTL

-----------------------------------------------------------------------------
(* The text: the inductive invariant behind TextInOrder, TextAccountedFor  *)
(* and TokensMaximal.                                                      *)

(* How much of the input is decided on: all that left the buffer, but for  *)
(* the character in last_char or in hand.                                  *)
Settled ==
  IF last_char # NO_LAST_CHAR \/ (pc = "dispatch" /\ cur # EOF)
  THEN Consumed - 1 ELSE Consumed

(* There is at most one character in last_char or in hand, the last that   *)
(* left the buffer, and none that reads as EOF.                            *)
HandOK ==
  /\ last_char \in {NO_LAST_CHAR, Consumed}
  /\ pc = "dispatch" => last_char = NO_LAST_CHAR /\ cur \in {EOF, Consumed}
  /\ Settled < Consumed => Settled \in Nat /\ ~(CharSigned /\ input[Consumed] = "xff")

Increasing(s) == \A i \in 1 .. Len(s) : \A j \in 1 .. i - 1 : s[j] < s[i]
AllBefore(S, T) == \A p \in S : \A q \in T : p < q
Within(S, n) == \A p \in S : p <= n

(* rs are the tokens returned, tk is the text after them, and neither goes *)
(* beyond n.                                                               *)
Ordered(rs, tk, n) ==
  /\ Increasing(tk)
  /\ Within(Elements(tk), n)
  /\ \A i \in 1 .. Len(rs) :
       /\ Increasing(rs[i].span)
       /\ Within(Elements(rs[i].span), n)
       /\ AllBefore(Elements(rs[i].span), Elements(tk))
       /\ \A k \in 1 .. i - 1 :
            AllBefore(Elements(rs[k].span), Elements(rs[i].span))

(* Text in order: returned before under construction, and both settled.    *)
InOrder == Ordered(returned, token, Settled)

(* is_comment tells whether the text settled ends in a comment, but that a *)
(* newline put back is seen to end it before it is settled.                *)
CommentOK ==
  /\ is_comment => Commented(Settled)
  /\ Commented(Settled) =>
       is_comment \/ (Settled < Consumed /\ IsNewline(input[Consumed]))

(* A settled character is in a token or known to be in none, and what was  *)
(* rejected is settled.                                                    *)
Kept == Elements(token) \cup
        UNION {Elements(returned[i].span) : i \in 1 .. Len(returned)}

Accounted ==
  /\ Within(rejected, Settled)
  /\ \A p \in 1 .. Settled :
       p \in Kept <=> ~(Blank(p) \/ Commented(p) \/ p \in rejected)

(* The token under construction ends where the text settled ends, unless   *)
(* the character behind it was rejected or fread ran dry there; and when   *)
(* the next character reads as EOF, right before that one.                 *)
Last(span) == span[Len(span)]
DryOrRejected(p) == p \in eof_at \/ p + 1 \in rejected
ReadsAsEof(p) == CharSigned /\ input[p] = "xff"

TokenEnds ==
  token # <<>> =>
    \/ DryOrRejected(Last(token))
    \/ IF pc = "dispatch" /\ cur = EOF
       THEN Last(token) + 1 = Consumed /\ ReadsAsEof(Consumed)
       ELSE Last(token) = Settled

(* A token of a type may end here: TokensMaximal, with every character it  *)
(* speaks of read already, so that another file cannot change it.          *)
EndsMaximal(type, last) ==
  \/ DryOrRejected(last)
  \/ /\ type \in {"IDENTIFIER", "INT", "FLOAT"} =>
          /\ last < Consumed
          /\ \/ input[last + 1] \in {"space", "semi", "cr", "lf", "comma", "colon"}
             \/ ReadsAsEof(last + 1)
     /\ type = "NEWLINE" /\ input[last] = "cr" =>
          last < Consumed /\ input[last + 1] # "lf"

ReturnedMaximal(i) ==
  /\ returned[i].span # <<>>
  /\ EndsMaximal(returned[i].token_type, Last(returned[i].span))

Maximal == TokenEnds /\ \A i \in 1 .. Len(returned) : ReturnedMaximal(i)

(* EOF in hand: fread found nothing left, or the character reads as EOF.   *)
EndReached ==
  (pc = "dispatch" /\ cur = EOF) =>
     \/ Consumed \in eof_at /\ (ShortReads \/ Consumed = Len(input))
     \/ Consumed >= 1 /\ ReadsAsEof(Consumed)

TextInv == HandOK /\ InOrder /\ CommentOK /\ Accounted /\ Maximal /\ EndReached

-----------------------------------------------------------------------------
(* The two halves of the text kept: what is returned, what is in token.    *)
ReturnedText == UNION {Elements(returned[i].span) : i \in 1 .. Len(returned)}

(* A sequence of positions and one more.                                   *)
LEMMA ElementsAppend ==
  ASSUME NEW s \in Seq(Position), NEW x \in Position
  PROVE  Elements(Append(s, x)) = Elements(s) \cup {x}
<1>1. /\ Len(Append(s, x)) = Len(s) + 1 /\ Len(s) \in Nat
      /\ Append(s, x)[Len(s) + 1] = x
      /\ \A i \in 1 .. Len(s) : Append(s, x)[i] = s[i]
  BY AppendProperties, LenProperties
<1> QED
  BY <1>1 DEF Elements

LEMMA IncreasingAppend ==
  ASSUME NEW s \in Seq(Position), NEW x \in Position,
         Increasing(s), \A p \in Elements(s) : p < x
  PROVE  Increasing(Append(s, x))
<1>1. /\ Len(Append(s, x)) = Len(s) + 1 /\ Len(s) \in Nat
      /\ Append(s, x)[Len(s) + 1] = x
      /\ \A i \in 1 .. Len(s) : Append(s, x)[i] = s[i]
  BY AppendProperties, LenProperties
<1>2. \A i \in 1 .. Len(s) : s[i] < x
  BY DEF Elements
<1> QED
  BY <1>1, <1>2 DEF Increasing

(* return_token makes one token more of the span it is given.              *)
LEMMA ReturnTokenExtends ==
  ASSUME TypeOK, NEW type \in TokenType, NEW span \in Seq(Position),
         ReturnToken(type, span)
  PROVE  /\ Len(returned) \in Nat /\ Len(returned') = Len(returned) + 1
         /\ returned'[Len(returned) + 1].span = span
         /\ returned'[Len(returned) + 1].token_type = type
         /\ \A i \in 1 .. Len(returned) : returned'[i] = returned[i]
         /\ ReturnedText' = ReturnedText \cup Elements(span)
         /\ Elements(token') = {}
<1> DEFINE t == [token_type |-> type, span |-> span, line_no |-> line_no,
                 col_no |-> col_no]
<1>1. t \in Token /\ t.span = span /\ t.token_type = type
  BY DEF TypeOK, Token
<1>2. returned' = Append(returned, t) /\ returned \in Seq(Token)
  BY DEF ReturnToken, TypeOK
<1> HIDE DEF t
<1>3. /\ Len(returned') = Len(returned) + 1 /\ Len(returned) \in Nat
      /\ returned'[Len(returned) + 1] = t
      /\ \A i \in 1 .. Len(returned) : returned'[i] = returned[i]
  BY <1>1, <1>2, AppendProperties, LenProperties
<1>4. 1 .. Len(returned') = (1 .. Len(returned)) \cup {Len(returned) + 1}
  BY <1>3
<1>5. ReturnedText' = ReturnedText \cup Elements(span)
  <2>1. \A i \in 1 .. Len(returned) :
          Elements(returned'[i].span) = Elements(returned[i].span)
    BY <1>3
  <2>2. Elements(returned'[Len(returned) + 1].span) = Elements(span)
    BY <1>1, <1>3
  <2>3. ReturnedText' = UNION {Elements(returned'[i].span) : i \in 1 .. Len(returned')}
    BY DEF ReturnedText, Elements
  <2> QED
    BY ONLY <1>4, <2>1, <2>2, <2>3 DEF ReturnedText
<1>6. Elements(token') = {}
  <2>1. token' = <<>> /\ Len(<<>>) = 0
    BY EmptySeq DEF ReturnToken
  <2> QED
    BY <2>1 DEF Elements
<1> QED
  BY <1>1, <1>3, <1>5, <1>6

-----------------------------------------------------------------------------
(* What a fetch does, to the text: it takes the next character in hand; or *)
(* the next character reads as EOF; or there is none.                      *)
Took ==
  /\ last_char' = NO_LAST_CHAR /\ pc' = "dispatch" /\ pc = "fetch"
  /\ UNCHANGED <<input, token, detected_token_type, returned, rejected,
                 is_comment, status>>
  /\ eof_at \subseteq eof_at'
  /\ \/ /\ cur' # EOF /\ cur' = Consumed' /\ Consumed' = Settled + 1
        /\ Settled' = Settled
        /\ ~(CharSigned /\ input[Consumed'] = "xff")
     \/ /\ cur' = EOF /\ Consumed' = Settled + 1 /\ Settled = Consumed
        /\ Settled' = Consumed'
        /\ CharSigned /\ input[Consumed'] = "xff"
     \/ /\ cur' = EOF /\ Settled' = Settled /\ Settled = Consumed
        /\ Consumed' = Consumed
        /\ Consumed \in eof_at' /\ (ShortReads \/ Consumed = Len(input))

(* No more has left the buffer than fread handed over.                     *)
LEMMA ConsumedType ==
  ASSUME TypeOK
  PROVE  Consumed \in 0 .. fread_pos /\ fread_pos \in Nat
BY LenProperties, LimitsAssumption DEF TypeOK, Consumed, Least

(* Each of the three fetches is one of the three cases, and whichever of   *)
(* last_char, the buffer and fread it takes the character from, it is the  *)
(* one behind the text settled.                                            *)
LEMMA FetchTakes ==
  ASSUME TypeOK, HandOK, Fetch
  PROVE  Took
<1>1. Consumed \in 0 .. fread_pos /\ fread_pos \in Nat /\ pc = "fetch"
  BY ConsumedType DEF Fetch, TakeLastChar, TakeBuffered, GrabBuffer
<1>2. CASE TakeLastChar
  <2>1. last_char = Consumed /\ Settled = Consumed - 1 /\ Settled \in Nat
        /\ ~(CharSigned /\ input[Consumed] = "xff")
    BY <1>1, <1>2 DEF TakeLastChar, HandOK, Settled
  <2>2. Consumed' = Consumed /\ Settled' = Settled /\ cur' = Consumed /\ cur' # EOF
    BY <1>1, <1>2, <2>1
    DEF TakeLastChar, buffer_vars, Consumed, Settled, EOF, NO_LAST_CHAR
  <2> QED
    BY <1>1, <1>2, <2>1, <2>2
    DEF Took, TakeLastChar, stream_vars, token_vars, result_vars, buffer_vars
<1>3. CASE TakeBuffered
  <2>1. Settled = Consumed /\ BufferPos(buf_idx) = Consumed + 1
    BY <1>3 DEF TakeBuffered, Settled, Consumed, BufferPos, TypeOK
  <2>2. Consumed' = Consumed + 1
    BY <1>3 DEF TakeBuffered, Consumed, TypeOK, Least
  <2>3. cur' = CharToInt(Consumed + 1) /\ Settled' = IF cur' = EOF THEN Consumed + 1
                                                               ELSE Consumed
    BY <1>1, <1>3, <2>1, <2>2 DEF TakeBuffered, Settled
  <2> QED
    BY <1>1, <1>3, <2>1, <2>2, <2>3
    DEF Took, TakeBuffered, stream_vars, token_vars, result_vars, CharToInt, EOF
<1>4. CASE GrabBuffer
  <2>1. PICK n \in FreadCounts :
          /\ fread_pos' = fread_pos + n
          /\ buf_len' = n
          /\ \/ /\ n = 0
                /\ buf_idx' = 0
                /\ cur' = EOF
                /\ eof_at' = eof_at \cup {fread_pos}
             \/ /\ n > 0
                /\ buf_idx' = 1
                /\ cur' = CharToInt(fread_pos + 1)
                /\ UNCHANGED eof_at
    BY <1>4 DEF GrabBuffer
  <2>2. /\ n \in 0 .. MaxBufferLen /\ fread_pos + n <= Len(input)
        /\ Len(input) \in Nat /\ fread_pos <= Len(input)
        /\ n = 0 => ShortReads \/ fread_pos = Len(input)
    BY LenProperties, LimitsAssumption DEF TypeOK, FreadCounts, Least
  <2>3. Settled = Consumed /\ Consumed = fread_pos
    BY <1>4 DEF GrabBuffer, Settled, Consumed, TypeOK
  <2>4. Consumed' = IF n = 0 THEN fread_pos ELSE fread_pos + 1
    BY <1>1, <2>1, <2>2 DEF Consumed
  <2>5. last_char' = NO_LAST_CHAR /\ pc' = "dispatch"
    BY <1>4 DEF GrabBuffer
  <2>6. Settled' = IF cur' = EOF THEN Consumed' ELSE Consumed' - 1
    BY <2>5 DEF Settled
  <2>7. /\ UNCHANGED <<input, token, detected_token_type, returned, rejected,
                       is_comment, status>>
    BY <1>4 DEF GrabBuffer, stream_vars, token_vars, result_vars
  <2>8. CASE n = 0
    BY <1>1, <2>1, <2>2, <2>3, <2>4, <2>5, <2>6, <2>7, <2>8 DEF Took
  <2>9. CASE n > 0
    <3>1. cur' = CharToInt(fread_pos + 1) /\ eof_at' = eof_at
      BY <2>1, <2>9
    <3>2. Consumed' = fread_pos + 1
      BY <2>4, <2>9
    <3> QED
      BY <1>1, <2>3, <2>5, <2>6, <2>7, <3>1, <3>2 DEF Took, CharToInt, EOF
  <2> QED
    BY <2>2, <2>8, <2>9
<1> QED
  BY <1>2, <1>3, <1>4 DEF Fetch

(* How the switch goes on: the type of a token that begins with class c,   *)
(* and of one that had type s before c was added.                          *)
Begins(c, type) ==
  \/ c = "alpha" /\ type = "IDENTIFIER"
  \/ c = "digit" /\ type = "INT"
  \/ IsNewline(c) /\ type = "NEWLINE"

Grows(s, c, type) ==
  \/ s = "IDENTIFIER" /\ c \in {"alpha", "digit"} /\ type = "IDENTIFIER"
  \/ s = "INT" /\ c = "digit" /\ type = "INT"
  \/ s = "INT" /\ c = "dot" /\ type = "FLOAT"
  \/ s = "FLOAT" /\ c = "digit" /\ type = "FLOAT"

(* What a pass through the loop body does to the text.                     *)
(* The token ends at EOF; the character is passed over, put back, kept in  *)
(* the token, kept in the token returned or rejected.                      *)
Returns == token # <<>> /\ ReturnToken(detected_token_type, token)
EmptyStays == token = <<>> /\ UNCHANGED <<token_vars, returned>>

EndsAtEof ==
  /\ cur = EOF /\ pc' = "idle"
  /\ UNCHANGED <<last_char, is_comment, rejected>>
  /\ Returns \/ (EmptyStays /\ status' = EOF)

Skips ==
  /\ UNCHANGED <<last_char, rejected>>
  /\ \/ ~is_comment /\ Returns
     \/ EmptyStays /\ UNCHANGED status
  /\ \/ is_comment /\ is_comment' /\ ~IsNewline(input[cur])
     \/ ~is_comment /\ ~is_comment' /\ input[cur] = "space"
     \/ ~is_comment /\ is_comment' /\ input[cur] = "semi"

PutsBack ==
  /\ last_char' = cur
  /\ ~is_comment'
  /\ UNCHANGED rejected
  /\ \/ is_comment /\ IsNewline(input[cur]) /\ EmptyStays /\ UNCHANGED status
     \/ /\ ~is_comment
        /\ Returns
        /\ detected_token_type # "NEWLINE" =>
              input[cur] \in {"cr", "lf", "comma", "colon"}
        /\ detected_token_type = "NEWLINE" =>
              ~(input[cur] = "lf" /\ input[token[1]] = "cr")

TextInHand == ~is_comment /\ input[cur] \notin {"space", "semi"}

Keeps ==
  /\ TextInHand
  /\ UNCHANGED <<last_char, is_comment, result_vars>>
  /\ token' = Append(token, cur)
  /\ IF token = <<>> THEN Begins(input[cur], detected_token_type')
                     ELSE Grows(detected_token_type, input[cur], detected_token_type')

(* The characters of the tokens that end with the character in hand.       *)
Completes(type) ==
  \/ token = <<>> /\ type = "COMMA" /\ input[cur] = "comma"
  \/ token = <<>> /\ type = "COLON" /\ input[cur] = "colon"
  \/ /\ type = "NEWLINE" /\ Len(token) = 1
     /\ input[token[1]] = "cr" /\ input[cur] = "lf"

Joins ==
  /\ TextInHand
  /\ UNCHANGED <<last_char, is_comment, rejected>>
  /\ \E type \in {"COMMA", "COLON", "NEWLINE"} :
       ReturnToken(type, Append(token, cur)) /\ Completes(type)

Rejects ==
  /\ TextInHand
  /\ UNCHANGED <<last_char, is_comment, token_vars, returned>>
  /\ rejected' = rejected \cup {cur}
  /\ status' \in 1 .. 255
  /\ input[cur] \notin {"cr", "lf", "comma", "colon"}
  /\ IF token = <<>>
     THEN \A type : ~Begins(input[cur], type)
     ELSE /\ detected_token_type \in {"IDENTIFIER", "INT", "FLOAT"}
          /\ \/ Len(token) >= MaxTokenLen
             \/ \A type : ~Grows(detected_token_type, input[cur], type)

Dispatched ==
  /\ pc = "dispatch" /\ pc' \in {"idle", "fetch"}
  /\ UNCHANGED <<stream_vars, buffer_vars, cur>>
  /\ \/ EndsAtEof
     \/ cur # EOF /\ (Skips \/ PutsBack \/ Keeps \/ Joins \/ Rejects)

(* The cases of the switch and of the if-else chain are no others.         *)
LEMMA SwitchShape ==
  ASSUME TypeOK, TokenStateOK, SwitchOnType
  PROVE  /\ cur # EOF /\ pc' \in {"idle", "fetch"}
         /\ PutsBack \/ Keeps \/ Joins \/ Rejects
<1> DEFINE type == detected_token_type
           c == input[cur]
           Goal == /\ pc' \in {"idle", "fetch"}
                   /\ PutsBack \/ Keeps \/ Joins \/ Rejects
<1>1. /\ ~is_comment /\ ~is_comment' /\ cur # EOF /\ is_comment' = is_comment
      /\ c \notin {"space", "semi", "comma", "colon"}
      /\ IsNewline(c) => token = <<>> \/ type = "NEWLINE"
      /\ type = "UNKNOWN" <=> token = <<>>
  BY DEF SwitchOnType, InCode, TypeOK, TokenStateOK
<1> SUFFICES Goal
  BY <1>1
<1>2. ASSUME NEW code \in 1 .. 255, UNCHANGED last_char, Fail(code), ~IsNewline(c),
             IF token = <<>>
             THEN \A t : ~Begins(c, t)
             ELSE /\ type \in {"IDENTIFIER", "INT", "FLOAT"}
                  /\ Len(token) >= MaxTokenLen \/ \A t : ~Grows(type, c, t)
      PROVE  Goal
  BY <1>1, <1>2 DEF Fail, Rejects, TextInHand, IsNewline
<1>3. ASSUME NEW t, UNCHANGED last_char, GrowToken(t), Grows(type, c, t), ~IsNewline(c),
             type \in {"IDENTIFIER", "INT", "FLOAT"}
      PROVE  Goal
  <2>1. CASE Len(token) >= MaxTokenLen
    BY <1>1, <1>2, <1>3, <2>1 DEF GrowToken, TOKENIZER_ERR_TOO_LONG
  <2>2. CASE ~(Len(token) >= MaxTokenLen)
    BY <1>1, <1>3, <2>2 DEF GrowToken, Keeps, TextInHand
  <2> QED
    BY <2>1, <2>2
<1>4. CASE type = "UNKNOWN" /\ StartToken
  <2>1. token = <<>> /\ UNCHANGED last_char
    BY <1>1, <1>4 DEF StartToken
  <2>2. ASSUME NEW t, Begins(c, t), token' = Append(token, cur),
               detected_token_type' = t, pc' = "fetch", UNCHANGED result_vars
        PROVE  Goal
    BY <1>1, <2>1, <2>2 DEF Keeps, TextInHand
  <2>3. CASE Fail(TOKENIZER_ERR_INVALID_START_CHAR) /\ \A t : ~Begins(c, t)
    BY <1>2, <2>1, <2>3 DEF Begins, TOKENIZER_ERR_INVALID_START_CHAR
  <2> QED
    BY <1>4, <2>1, <2>2, <2>3
    DEF StartToken, IsIdentifierInitial, IsNewline, Begins
<1>5. CASE type = "IDENTIFIER" /\ GrowIdentifier
  BY <1>1, <1>2, <1>3, <1>5
  DEF GrowIdentifier, IsIdentifierMedial, Grows,
      TOKENIZER_ERR_BAD_CHAR_IN_IDENTIFIER
<1>6. CASE type = "INT" /\ GrowInt
  <2>1. token # <<>> /\ UNCHANGED last_char /\ ~IsNewline(c)
    BY <1>1, <1>6 DEF GrowInt
  <2>2. CASE c \in {"digit", "dot"}
    BY <1>3, <1>6, <2>1, <2>2 DEF GrowInt, Grows
  <2>3. CASE c \notin {"digit", "dot"}
    BY <1>2, <1>6, <2>1, <2>3 DEF GrowInt, Grows, TOKENIZER_ERR_BAD_CHAR_IN_NUM
  <2> QED
    BY <2>2, <2>3
<1>7. CASE type = "FLOAT" /\ GrowFloat
  <2>1. token # <<>> /\ UNCHANGED last_char /\ ~IsNewline(c)
    BY <1>1, <1>7 DEF GrowFloat
  <2>2. CASE c = "digit"
    BY <1>3, <1>7, <2>1, <2>2 DEF GrowFloat, Grows
  <2>3. CASE c # "digit"
    BY <1>2, <1>7, <2>1, <2>3
    DEF GrowFloat, Grows, TOKENIZER_ERR_BAD_CHAR_IN_NUM,
        TOKENIZER_ERR_TOO_MANY_DOTS
  <2> QED
    BY <2>2, <2>3
<1>8. CASE type = "NEWLINE" /\ EndNewline
  <2>1. Len(token) = 1 /\ token # <<>>
    BY <1>8 DEF TokenStateOK
  <2>2. CASE c = "lf" /\ input[token[1]] = "cr"
    <3>1. UNCHANGED last_char /\ ReturnToken("NEWLINE", Append(token, cur))
      BY <1>8, <2>1, <2>2 DEF EndNewline
    <3>2. pc' = "idle" /\ UNCHANGED rejected /\ Completes("NEWLINE")
      BY <2>1, <2>2, <3>1 DEF ReturnToken, Completes
    <3>3. Joins
      BY <1>1, <2>2, <3>1, <3>2 DEF Joins, TextInHand
    <3> QED
      BY <3>2, <3>3
  <2>3. CASE ~(c = "lf" /\ input[token[1]] = "cr")
    <3>1. last_char' = cur /\ ReturnToken(type, token)
      BY <1>8, <2>1, <2>3 DEF EndNewline
    <3>2. pc' = "idle" /\ UNCHANGED rejected
      BY <3>1 DEF ReturnToken
    <3>3. PutsBack
      BY <1>1, <1>8, <2>1, <2>3, <3>1, <3>2 DEF PutsBack, Returns
    <3> QED
      BY <3>2, <3>3
  <2> QED
    BY <2>2, <2>3
<1>9. type \in {"UNKNOWN", "IDENTIFIER", "INT", "FLOAT", "NEWLINE"}
  BY DEF TypeOK, TokenType, TokenStateOK
<1> QED
  BY <1>4, <1>5, <1>6, <1>7, <1>8, <1>9 DEF SwitchOnType

LEMMA DispatchShape ==
  ASSUME TypeOK, TokenStateOK, Dispatch
  PROVE  Dispatched
<1>1. UNCHANGED <<stream_vars, buffer_vars, cur>> /\ pc = "dispatch"
  BY DispatchTypes
  DEF Dispatch, AtEof, SkipComment, NewlineEndsToken, Space, BeginComment,
      Separator, SwitchOnType, InCode
<1>2. ASSUME NEW span, NEW type, ReturnToken(type, span)
      PROVE  pc' = "idle" /\ UNCHANGED rejected
  BY <1>2 DEF ReturnToken
<1>3. CASE AtEof
  BY <1>1, <1>2, <1>3 DEF AtEof, Dispatched, EndsAtEof, Returns, EmptyStays
<1>4. CASE SkipComment
  <2>1. /\ EmptyStays /\ UNCHANGED <<rejected, status>> /\ pc' = "fetch"
        /\ cur # EOF /\ is_comment
    BY <1>4 DEF SkipComment, NextCharacter, TokenStateOK, EmptyStays, result_vars
  <2> QED
    BY <1>1, <1>4, <2>1 DEF SkipComment, Dispatched, Skips, PutsBack, TypeOK
<1>5. CASE NewlineEndsToken
  BY <1>1, <1>2, <1>5
  DEF NewlineEndsToken, InCode, Dispatched, PutsBack, Returns, IsNewline
<1>6. ASSUME ReturnIfNotEmpty
      PROVE  /\ pc' \in {"idle", "fetch"} /\ UNCHANGED rejected
             /\ Returns \/ (EmptyStays /\ UNCHANGED status)
  BY <1>2, <1>6
  DEF ReturnIfNotEmpty, NextCharacter, Returns, EmptyStays, result_vars
<1>7. CASE Space
  BY <1>1, <1>6, <1>7 DEF Space, InCode, Dispatched, Skips
<1>8. CASE BeginComment
  BY <1>1, <1>6, <1>8 DEF BeginComment, InCode, Dispatched, Skips
<1>9. CASE Separator
  <2>1. cur # EOF /\ ~is_comment /\ is_comment' = is_comment
        /\ input[cur] \in {"comma", "colon"}
    BY <1>9 DEF Separator, InCode
  <2>2. CASE token # <<>>
    BY <1>1, <1>2, <1>9, <2>1, <2>2 DEF Separator, Dispatched, PutsBack, Returns
  <2>3. CASE token = <<>>
    <3>1. <<cur>> = Append(token, cur)
      BY <2>3
    <3>2. PICK type \in {"COMMA", "COLON"} :
            ReturnToken(type, <<cur>>) /\ Completes(type)
      BY <1>9, <2>1, <2>3 DEF Separator, Completes
    <3>3. UNCHANGED last_char /\ UNCHANGED rejected /\ pc' = "idle"
      BY <1>2, <1>9, <2>3, <3>2 DEF Separator
    <3>4. ReturnToken(type, Append(token, cur)) /\ Completes(type)
      BY <3>1, <3>2
    <3>5. Joins
      BY <2>1, <3>3, <3>4 DEF Joins, TextInHand
    <3> QED
      BY <1>1, <2>1, <3>3, <3>5 DEF Dispatched
  <2> QED
    BY <2>2, <2>3
<1>10. CASE SwitchOnType
  BY <1>1, <1>10, SwitchShape DEF Dispatched
<1> QED
  BY <1>3, <1>4, <1>5, <1>7, <1>8, <1>9, <1>10 DEF Dispatch

(* What the client does between two calls: the characters read stay.       *)
Waits ==
  /\ pc # "dispatch" /\ pc' # "dispatch"
  /\ UNCHANGED <<buffer_vars, token, detected_token_type, returned, rejected,
                 last_char, is_comment, cur, status>>
  /\ \A p \in 1 .. fread_pos : input'[p] = input[p]

(* A new file changes what follows in the input, never what was read.      *)
LEMMA ClientWaits ==
  ASSUME TypeOK, SetTokenizerFile \/ CallGetNextToken \/ UNCHANGED vars,
         ~(UNCHANGED vars)
  PROVE  Waits
<1>1. CASE SetTokenizerFile
  <2>1. PICK f \in Files : input' = SubSeq(input, 1, fread_pos) \o f
    BY <1>1 DEF SetTokenizerFile
  <2>2. f \in Seq(Char) /\ input \in Seq(Char) /\ fread_pos \in 0 .. Len(input)
        /\ Len(input) \in Nat
    BY FilesAssumption, LenProperties DEF TypeOK
  <2>3. /\ SubSeq(input, 1, fread_pos) \in Seq(Char)
        /\ Len(SubSeq(input, 1, fread_pos)) = fread_pos
        /\ \A p \in 1 .. fread_pos : SubSeq(input, 1, fread_pos)[p] = input[p]
    BY <2>2, SubSeqProperties
  <2>4. \A p \in 1 .. fread_pos : input'[p] = input[p]
    BY <2>1, <2>2, <2>3, ConcatProperties
  <2> QED
    BY <1>1, <2>4 DEF SetTokenizerFile, Waits, token_vars, result_vars
<1>2. CASE CallGetNextToken
  BY <1>2 DEF CallGetNextToken, Waits, stream_vars, token_vars, result_vars
<1> QED
  BY <1>1, <1>2

(* A step of the tokenizer, as far as the text is concerned.               *)
TokenizerStep == Waits \/ Took \/ Dispatched

-----------------------------------------------------------------------------
(* How far the text is settled, before and after each kind of step.        *)
LEMMA SettledType ==
  ASSUME TypeOK, HandOK
  PROVE  /\ Settled \in Nat /\ Consumed \in Nat /\ Consumed <= fread_pos
         /\ fread_pos \in Nat /\ Settled \in {Consumed, Consumed - 1}
BY ConsumedType DEF HandOK, Settled

LEMMA WaitsSettled ==
  ASSUME Waits
  PROVE  Consumed' = Consumed /\ Settled' = Settled /\ fread_pos' = fread_pos
BY DEF Waits, Consumed, Settled, buffer_vars

LEMMA DispatchSettled ==
  ASSUME TypeOK, HandOK, Dispatched
  PROVE  /\ Consumed' = Consumed /\ input' = input /\ eof_at' = eof_at
         /\ cur' = cur /\ last_char = NO_LAST_CHAR
         /\ cur \in {EOF, Consumed}
         /\ Settled = IF cur = EOF THEN Consumed ELSE Consumed - 1
         /\ Settled' = IF last_char' = NO_LAST_CHAR THEN Consumed ELSE Consumed - 1
BY ConsumedType
DEF Dispatched, HandOK, Settled, Consumed, stream_vars, buffer_vars

(* At most one character is in hand, in every step.                        *)
LEMMA HandStep ==
  ASSUME TypeOK, HandOK, TokenizerStep
  PROVE  HandOK'
<1>1. CASE Waits
  BY <1>1, WaitsSettled, SettledType DEF HandOK, Waits
<1>2. CASE Took
  BY <1>2, SettledType DEF Took, HandOK
<1>3. CASE Dispatched
  <2>1. CASE cur = EOF
    BY <1>3, <2>1, DispatchSettled, SettledType
    DEF Dispatched, EndsAtEof, HandOK, Returns, EmptyStays, token_vars
  <2>2. CASE cur # EOF
    <3>1. last_char' \in {NO_LAST_CHAR, cur}
      BY <1>3, <2>2, DispatchSettled
      DEF Dispatched, EndsAtEof, Skips, PutsBack, Keeps, Joins, Rejects,
          Returns, EmptyStays, token_vars, result_vars
    <3> QED
      BY <1>3, <2>2, <3>1, DispatchSettled, SettledType DEF Dispatched, HandOK
  <2> QED
    BY <2>1, <2>2
<1> QED
  BY <1>1, <1>2, <1>3 DEF TokenizerStep

-----------------------------------------------------------------------------
(* A comment runs on through a character, or begins with it.               *)
LEMMA CommentedNext ==
  ASSUME NEW p \in Nat
  PROVE  Commented(p + 1) <=> /\ Commented(p) \/ input[p + 1] = "semi"
                             /\ ~IsNewline(input[p + 1])
<1>1. 1 .. p + 1 = (1 .. p) \cup {p + 1}
  OBVIOUS
<1>2. \A q \in 1 .. p : q .. p + 1 = (q .. p) \cup {p + 1}
  OBVIOUS
<1>3. (p + 1) .. (p + 1) = {p + 1}
  OBVIOUS
<1> QED
  BY <1>1, <1>2, <1>3 DEF Commented, IsNewline

(* What is blank and what is commented depends on what was read alone.     *)
LEMMA WaitsCommented ==
  ASSUME Waits, fread_pos \in Nat, NEW p \in Nat, p <= fread_pos
  PROVE  /\ Commented(p)' <=> Commented(p)
         /\ p # 0 => (Blank(p)' <=> Blank(p)) /\ input'[p] = input[p]
<1>1. \A q \in 1 .. p : input'[q] = input[q]
  BY DEF Waits
<1>2. \A q \in 1 .. p : \A r \in q .. p : r \in 1 .. p
  OBVIOUS
<1> QED
  BY <1>1, <1>2 DEF Commented, Blank, IsNewline

(* is_comment follows the comments of the text, in every step.             *)
LEMMA CommentStep ==
  ASSUME TypeOK, HandOK, CommentOK, TokenizerStep
  PROVE  CommentOK'
<1> USE SettledType
<1>1. CASE Waits
  <2>1. /\ Commented(Settled)' <=> Commented(Settled)
        /\ Settled < Consumed => input'[Consumed] = input[Consumed]
    BY <1>1, WaitsCommented, WaitsSettled
  <2> QED
    BY <1>1, <2>1, WaitsSettled DEF CommentOK, Waits, IsNewline
<1>2. CASE Took
  <2>1. input' = input /\ is_comment' = is_comment
    BY <1>2 DEF Took
  <2>2. CASE Settled' = Settled /\ Consumed' = Settled + 1
    BY <2>1, <2>2 DEF CommentOK, Commented, IsNewline
  <2>3. CASE /\ Settled = Consumed /\ Settled' = Consumed'
             /\ Consumed' = Settled + 1 /\ input[Consumed'] = "xff"
    BY <2>1, <2>3, CommentedNext DEF CommentOK, Commented, IsNewline
  <2>4. CASE Settled' = Settled /\ Consumed' = Consumed
    BY <2>1, <2>4 DEF CommentOK, Commented, IsNewline
  <2> QED
    BY <1>2, <2>2, <2>3, <2>4 DEF Took
<1>3. CASE Dispatched
  <2>1. CASE cur = EOF
    BY <1>3, <2>1, DispatchSettled
    DEF Dispatched, EndsAtEof, CommentOK, Commented, IsNewline, Returns,
        EmptyStays, token_vars
  <2>2. CASE cur # EOF
    <3>1. /\ Commented(Consumed) <=> /\ Commented(Settled) \/ input[cur] = "semi"
                                     /\ ~IsNewline(input[cur])
          /\ cur = Consumed /\ Consumed = Settled + 1
      BY <1>3, <2>2, DispatchSettled, CommentedNext
    <3>2. /\ Commented(Settled)' <=> IF last_char' = NO_LAST_CHAR
                                     THEN Commented(Consumed) ELSE Commented(Settled)
          /\ IsNewline(input[Consumed])' <=> IsNewline(input[cur])
      BY <1>3, <2>2, DispatchSettled DEF Commented, IsNewline
    <3>3. CASE PutsBack
      BY <1>3, <2>2, <3>1, <3>2, <3>3, DispatchSettled
      DEF PutsBack, CommentOK, NO_LAST_CHAR, Returns, EmptyStays, token_vars
    <3>4. CASE Skips \/ Keeps \/ Joins \/ Rejects
      <4>1. last_char' = NO_LAST_CHAR
        BY <1>3, <3>4, DispatchSettled
        DEF Skips, Keeps, Joins, Rejects, Returns, EmptyStays, token_vars,
            result_vars
      <4>2. CASE is_comment
        BY <3>1, <3>2, <3>4, <4>1, <4>2
        DEF Skips, Keeps, Joins, Rejects, TextInHand, CommentOK, Returns,
            EmptyStays, token_vars, result_vars, Completes
      <4>3. CASE ~is_comment
        BY <3>1, <3>2, <3>4, <4>1, <4>3
        DEF Skips, Keeps, Joins, Rejects, TextInHand, CommentOK, IsNewline,
            Returns, EmptyStays, token_vars, result_vars, Completes
      <4> QED
        BY <4>2, <4>3
    <3> QED
      BY <1>3, <2>2, <3>3, <3>4
      DEF Dispatched, EndsAtEof, Returns, EmptyStays, token_vars
  <2> QED
    BY <2>1, <2>2
<1> QED
  BY <1>1, <1>2, <1>3 DEF TokenizerStep

-----------------------------------------------------------------------------
(* The elements of spans are positions.                                    *)
LEMMA SpanElements ==
  ASSUME NEW s \in Seq(Position)
  PROVE  Elements(s) \subseteq Position
BY DEF Elements

LEMMA TokenSpans ==
  ASSUME NEW rs \in Seq(Token)
  PROVE  \A i \in 1 .. Len(rs) : /\ rs[i].span \in Seq(Position)
                                /\ Elements(rs[i].span) \subseteq Position
<1> SUFFICES ASSUME NEW i \in 1 .. Len(rs)
             PROVE  /\ rs[i].span \in Seq(Position)
                    /\ Elements(rs[i].span) \subseteq Position
  OBVIOUS
<1>1. rs[i] \in Token
  BY LenProperties
<1>2. rs[i].span \in Seq(Position)
  BY <1>1 DEF Token
<1> QED
  BY <1>2, SpanElements

(* The order is kept when the next character joins the text after the      *)
(* tokens, when that text becomes a token, and when more text is settled.  *)
LEMMA OrderedAppend ==
  ASSUME NEW rs \in Seq(Token), NEW tk \in Seq(Position), NEW n \in Nat,
         Ordered(rs, tk, n)
  PROVE  Ordered(rs, Append(tk, n + 1), n + 1)
<1>1. n + 1 \in Position
  BY DEF Position
<1>2. Elements(Append(tk, n + 1)) = Elements(tk) \cup {n + 1}
  BY <1>1, ElementsAppend
<1>3. Elements(tk) \subseteq Position /\ \A p \in Elements(tk) : p <= n
  BY SpanElements DEF Ordered, Within
<1>4. Increasing(Append(tk, n + 1))
  BY <1>1, <1>3, IncreasingAppend DEF Ordered, Position
<1>5. \A i \in 1 .. Len(rs) : Elements(rs[i].span) \subseteq Position
  BY TokenSpans
<1>6. \A S : S \subseteq Position /\ Within(S, n) => Within(S, n + 1)
  BY DEF Within, Position
<1>7. \A S : S \subseteq Position /\ Within(S, n) /\ AllBefore(S, Elements(tk)) =>
              AllBefore(S, Elements(tk) \cup {n + 1})
  BY DEF Within, Position, AllBefore
<1>8. Within(Elements(tk) \cup {n + 1}, n + 1)
  BY <1>3 DEF Within, Position
<1> QED
  BY <1>2, <1>4, <1>5, <1>6, <1>7, <1>8 DEF Ordered

LEMMA OrderedReturn ==
  ASSUME NEW rs \in Seq(Token), NEW t \in Token, NEW n, Ordered(rs, t.span, n)
  PROVE  Ordered(Append(rs, t), <<>>, n)
<1>1. Len(<<>>) = 0 /\ Elements(<<>>) = {}
  BY EmptySeq DEF Elements
<1>2. /\ Len(Append(rs, t)) = Len(rs) + 1 /\ Len(rs) \in Nat
      /\ Append(rs, t)[Len(rs) + 1] = t
      /\ \A i \in 1 .. Len(rs) : Append(rs, t)[i] = rs[i]
  BY AppendProperties, LenProperties
<1>3. Increasing(<<>>) /\ Within(Elements(<<>>), n)
      /\ \A S : AllBefore(S, Elements(<<>>))
  BY <1>1 DEF Increasing, Within, AllBefore
<1>4. ASSUME NEW i \in 1 .. Len(rs) + 1, NEW rt, rt = Append(rs, t)
      PROVE  /\ Increasing(rt[i].span)
             /\ Within(Elements(rt[i].span), n)
             /\ \A k \in 1 .. i - 1 :
                  AllBefore(Elements(rt[k].span), Elements(rt[i].span))
  BY <1>2, <1>4 DEF Ordered
<1> QED
  BY <1>2, <1>3, <1>4 DEF Ordered

LEMMA OrderedWiden ==
  ASSUME NEW rs \in Seq(Token), NEW tk \in Seq(Position),
         NEW n \in Nat, NEW m \in Nat, n <= m, Ordered(rs, tk, n)
  PROVE  Ordered(rs, tk, m)
<1>1. \A S : S \subseteq Position /\ Within(S, n) => Within(S, m)
  BY DEF Within, Position
<1>2. Elements(tk) \subseteq Position
      /\ \A i \in 1 .. Len(rs) : Elements(rs[i].span) \subseteq Position
  BY SpanElements, TokenSpans
<1> QED
  BY <1>1, <1>2 DEF Ordered

(* A token returned is the token under construction, with the character in *)
(* hand or without it, and otherwise the text of the tokens is unchanged.  *)
LEMMA DispatchText ==
  ASSUME TypeOK, HandOK, Dispatched
  PROVE  /\ Settled \in Nat /\ Settled' \in Nat /\ Settled <= Settled'
         /\ \/ UNCHANGED <<token, returned>>
            \/ token # <<>> /\ ReturnToken(detected_token_type, token)
            \/ /\ cur = Settled + 1 /\ Settled' = Settled + 1
               /\ \/ token' = Append(token, cur) /\ UNCHANGED returned
                  \/ \E type \in TokenType : ReturnToken(type, Append(token, cur))
<1>1. Settled \in Nat /\ Consumed \in Nat
  BY SettledType
<1>2. CASE cur = EOF
  BY <1>1, <1>2, DispatchSettled
  DEF Dispatched, EndsAtEof, Returns, EmptyStays, token_vars
<1>3. CASE cur # EOF
  <2>1. /\ cur = Settled + 1 /\ Settled <= Settled' /\ Settled' \in Nat
        /\ last_char = NO_LAST_CHAR
        /\ last_char' = NO_LAST_CHAR => Settled' = Settled + 1
    BY <1>1, <1>3, DispatchSettled
  <2>2. CASE Skips \/ PutsBack \/ Rejects
    BY <1>1, <2>1, <2>2
    DEF Skips, PutsBack, Rejects, Returns, EmptyStays, token_vars
  <2>3. CASE Keeps
    BY <1>1, <2>1, <2>3 DEF Keeps, result_vars
  <2>4. CASE Joins
    BY <1>1, <2>1, <2>4 DEF Joins, TokenType
  <2> QED
    BY <1>3, <2>2, <2>3, <2>4
    DEF Dispatched, EndsAtEof, Returns, EmptyStays, token_vars
<1> QED
  BY <1>2, <1>3

(* The text stays in order, in every step.                                 *)
LEMMA OrderStep ==
  ASSUME TypeOK, HandOK, InOrder, TokenizerStep
  PROVE  InOrder'
<1>1. returned \in Seq(Token) /\ token \in Seq(Position)
      /\ detected_token_type \in TokenType
  BY DEF TypeOK
<1>2. Settled \in Nat
  BY SettledType
<1>3. ASSUME NEW type \in TokenType, NEW span \in Seq(Position),
             NEW n, ReturnToken(type, span), Ordered(returned, span, n)
      PROVE  Ordered(returned', token', n)
  <2> DEFINE t == [token_type |-> type, span |-> span, line_no |-> line_no,
                   col_no |-> col_no]
  <2>1. t \in Token /\ t.span = span
    BY DEF TypeOK, Token
  <2>2. returned' = Append(returned, t) /\ token' = <<>>
    BY <1>3 DEF ReturnToken
  <2> HIDE DEF t
  <2>3. Ordered(Append(returned, t), <<>>, n)
    BY <1>1, <1>3, <2>1, OrderedReturn
  <2> QED
    BY <2>2, <2>3
<1>4. CASE Waits
  BY <1>4, WaitsSettled DEF Waits, InOrder
<1>5. CASE Took
  <2>1. UNCHANGED <<token, returned>> /\ Settled' \in Nat /\ Settled <= Settled'
    BY <1>2, <1>5 DEF Took
  <2> QED
    BY <1>1, <1>2, <2>1, OrderedWiden DEF InOrder
<1>6. CASE Dispatched
  <2>1. Settled' \in Nat /\ Settled <= Settled'
    BY <1>6, DispatchText
  <2>2. Ordered(returned, token, Settled') /\ Ordered(returned, token, Settled)
    BY <1>1, <1>2, <2>1, OrderedWiden DEF InOrder
  <2>3. CASE UNCHANGED <<token, returned>>
    BY <2>2, <2>3 DEF InOrder
  <2>4. CASE ReturnToken(detected_token_type, token)
    BY <1>1, <1>3, <2>2, <2>4 DEF InOrder
  <2>5. CASE /\ cur = Settled + 1 /\ Settled' = Settled + 1
             /\ \/ token' = Append(token, cur) /\ UNCHANGED returned
                \/ \E type \in TokenType : ReturnToken(type, Append(token, cur))
    <3>1. cur \in Position /\ Append(token, cur) \in Seq(Position)
      BY <1>1, <1>2, <2>5, AppendProperties DEF Position
    <3>2. Ordered(returned, Append(token, cur), Settled')
      BY <1>1, <1>2, <2>2, <2>5, OrderedAppend
    <3> QED
      BY <1>3, <2>5, <3>1, <3>2 DEF InOrder
  <2> QED
    BY <1>6, <2>3, <2>4, <2>5, DispatchText
<1> QED
  BY <1>4, <1>5, <1>6 DEF TokenizerStep

(* What is in order is in order up to the character put back.              *)
LEMMA InOrderSuffices ==
  ASSUME TypeOK, HandOK, InOrder
  PROVE  TextInOrder
<1>1. /\ Settled \in Nat /\ Consumed \in Nat
      /\ returned \in Seq(Token) /\ token \in Seq(Position)
  BY SettledType DEF TypeOK
<1>2. {last_char} \ {NO_LAST_CHAR} \subseteq {Consumed}
  BY DEF HandOK
<1>3. ASSUME NEW S, S \subseteq Position, Within(S, Settled)
      PROVE  AllBefore(S, {last_char} \ {NO_LAST_CHAR})
  BY <1>1, <1>2, <1>3 DEF AllBefore, Within, Settled, Position
<1>4. /\ Elements(token) \subseteq Position
      /\ \A i \in 1 .. Len(returned) : Elements(returned[i].span) \subseteq Position
  BY <1>1, SpanElements, TokenSpans
<1> QED
  BY <1>2, <1>3, <1>4 DEF TextInOrder, InOrder, Ordered, Increasing, AllBefore

-----------------------------------------------------------------------------
(* Of the text kept, nothing is beyond what is settled.                    *)
LEMMA KeptWithin ==
  ASSUME TypeOK, InOrder
  PROVE  \A p \in Kept : p \in Position /\ p <= Settled
<1>1. returned \in Seq(Token) /\ token \in Seq(Position)
  BY DEF TypeOK
<1> QED
  BY <1>1, SpanElements, TokenSpans DEF Kept, InOrder, Ordered, Within

(* A pass through the loop body keeps the character in hand or changes     *)
(* nothing of the text kept.                                               *)
LEMMA KeptDispatch ==
  ASSUME TypeOK, HandOK, Dispatched
  PROVE  /\ EndsAtEof \/ Skips \/ PutsBack \/ Rejects => Kept' = Kept
         /\ cur \in Position /\ (Keeps \/ Joins) => Kept' = Kept \cup {cur}
<1>1. /\ token \in Seq(Position) /\ detected_token_type \in TokenType
      /\ {"COMMA", "COLON", "NEWLINE"} \subseteq TokenType
  BY DEF TypeOK, TokenType
<1>2. Kept = Elements(token) \cup ReturnedText
      /\ Kept' = Elements(token') \cup ReturnedText'
  BY DEF Kept, ReturnedText, Elements
<1>3. ASSUME UNCHANGED <<token, returned>>
      PROVE  Kept' = Kept
  BY <1>3 DEF Kept, Elements
<1>4. ASSUME ReturnToken(detected_token_type, token)
      PROVE  Kept' = Kept
  BY <1>1, <1>2, <1>4, ReturnTokenExtends
<1>5. ASSUME EndsAtEof \/ Skips \/ PutsBack \/ Rejects
      PROVE  Kept' = Kept
  BY <1>3, <1>4, <1>5
  DEF EndsAtEof, Skips, PutsBack, Rejects, Returns, EmptyStays, token_vars
<1>6. ASSUME cur \in Position, Keeps
      PROVE  Kept' = Kept \cup {cur}
  <2>1. token' = Append(token, cur) /\ ReturnedText' = ReturnedText
    BY <1>6 DEF Keeps, ReturnedText, Elements, result_vars
  <2>2. Elements(token') = Elements(token) \cup {cur}
    BY <1>1, <1>6, <2>1, ElementsAppend
  <2> QED
    BY <1>2, <2>1, <2>2
<1>7. ASSUME cur \in Position, Joins
      PROVE  Kept' = Kept \cup {cur}
  <2>1. Append(token, cur) \in Seq(Position)
    BY <1>1, <1>7, AppendProperties
  <2>2. ReturnedText' = ReturnedText \cup Elements(Append(token, cur))
        /\ Elements(token') = {}
    BY <1>1, <1>7, <2>1, ReturnTokenExtends DEF Joins
  <2> QED
    BY <1>1, <1>2, <1>7, <2>2, ElementsAppend
<1> QED
  BY <1>5, <1>6, <1>7

(* Every character is accounted for once it is settled, in every step: the *)
(* one dispatched is kept exactly if it is none of blank, commented and    *)
(* rejected.                                                               *)
LEMMA AccountStep ==
  ASSUME TypeOK, HandOK, InOrder, CommentOK, Accounted, TokenizerStep
  PROVE  Accounted'
<1>1. /\ Settled \in Nat /\ Consumed \in Nat /\ Settled <= fread_pos
      /\ fread_pos \in Nat
  BY SettledType
<1>2. \A p \in rejected : p \in Nat /\ p <= Settled
  BY <1>1 DEF Accounted, Within, TypeOK
<1>3. \A p \in Kept : p \in Position /\ p <= Settled
  BY KeptWithin
<1>4. CASE Waits
  <2>1. /\ Kept' = Kept /\ rejected' = rejected /\ Settled' = Settled
    BY <1>4, WaitsSettled DEF Waits, Kept, Elements
  <2>2. \A p \in 1 .. Settled : /\ Commented(p)' <=> Commented(p)
                                /\ Blank(p)' <=> Blank(p)
    BY <1>1, <1>4, WaitsCommented
  <2> QED
    BY <1>1, <2>1, <2>2 DEF Accounted, Within
<1>5. CASE Took
  <2>1. /\ Kept' = Kept /\ rejected' = rejected /\ input' = input
    BY <1>5 DEF Took, Kept, Elements
  <2>2. \/ Settled' = Settled
        \/ Settled' = Settled + 1 /\ CharSigned /\ input[Settled + 1] = "xff"
    BY <1>5 DEF Took
  <2>3. \A p \in 1 .. Settled' : /\ Commented(p)' <=> Commented(p)
                                 /\ Blank(p)' <=> Blank(p)
    BY <2>1 DEF Commented, Blank, IsNewline
  <2>4. Within(rejected', Settled')
    BY <1>1, <1>2, <2>1, <2>2 DEF Within
  <2>5. CASE Settled' = Settled
    BY <1>1, <2>1, <2>3, <2>4, <2>5 DEF Accounted, Within
  <2>6. CASE Settled' = Settled + 1 /\ CharSigned /\ input[Settled + 1] = "xff"
    <3>1. Blank(Settled + 1) /\ Settled + 1 \notin Kept
      BY <1>1, <1>3, <2>6 DEF Blank
    <3>2. 1 .. Settled' = (1 .. Settled) \cup {Settled + 1}
      BY <1>1, <2>6
    <3> QED
      BY <1>1, <2>1, <2>3, <2>4, <3>1, <3>2 DEF Accounted, Within
  <2> QED
    BY <2>2, <2>5, <2>6
<1>6. CASE Dispatched
  <2>1. /\ input' = input /\ last_char = NO_LAST_CHAR
        /\ cur # EOF => /\ cur = Settled + 1 /\ cur = Consumed
                        /\ last_char' = NO_LAST_CHAR => Settled' = cur
                        /\ last_char' # NO_LAST_CHAR => Settled' = Settled
        /\ cur = EOF /\ last_char' = NO_LAST_CHAR => Settled' = Settled
    BY <1>1, <1>6, DispatchSettled
  <2>2. \A p \in 1 .. Settled' : /\ Commented(p)' <=> Commented(p)
                                 /\ Blank(p)' <=> Blank(p)
    BY <2>1 DEF Commented, Blank, IsNewline
  <2>3. CASE EndsAtEof
    <3>1. Kept' = Kept /\ rejected' = rejected /\ Settled' = Settled
      BY <1>6, <2>1, <2>3, KeptDispatch
      DEF EndsAtEof, Returns, EmptyStays, token_vars
    <3> QED
      BY <1>1, <2>2, <3>1 DEF Accounted, Within
  <2>4. CASE cur # EOF /\ PutsBack
    <3>1. Kept' = Kept /\ rejected' = rejected /\ Settled' = Settled
      BY <1>1, <1>6, <2>1, <2>4, KeptDispatch
      DEF PutsBack, NO_LAST_CHAR, Returns, EmptyStays, token_vars
    <3> QED
      BY <1>1, <2>2, <3>1 DEF Accounted, Within
  <2>5. ASSUME cur # EOF, last_char' = NO_LAST_CHAR,
               rejected' \subseteq rejected \cup {cur},
               rejected \subseteq rejected',
               \A p \in 1 .. Settled : p \in Kept' <=> p \in Kept,
               cur \in Kept' <=> ~(Blank(cur) \/ Commented(cur) \/ cur \in rejected')
        PROVE  Accounted'
    <3>1. Settled' = Settled + 1 /\ cur = Settled + 1
      BY <2>1, <2>5
    <3>2. Within(rejected', Settled')
      BY <1>1, <1>2, <2>5, <3>1 DEF Within
    <3>3. \A p \in 1 .. Settled : p \in rejected' <=> p \in rejected
      BY <1>1, <2>5, <3>1
    <3>4. 1 .. Settled' = (1 .. Settled) \cup {cur}
      BY <1>1, <3>1
    <3> QED
      BY <1>1, <2>2, <2>5, <3>2, <3>3, <3>4 DEF Accounted, Within
  <2>6. cur # EOF => /\ cur \in Position
                     /\ cur \notin Kept /\ cur \notin rejected
                     /\ \A p \in 1 .. Settled : p # cur
                     /\ ~(CharSigned /\ input[cur] = "xff")
                     /\ Commented(cur) <=> /\ Commented(Settled) \/ input[cur] = "semi"
                                           /\ ~IsNewline(input[cur])
    BY <1>1, <1>2, <1>3, <1>6, <2>1, CommentedNext DEF Position, HandOK
  <2>7. CASE cur # EOF /\ Skips
    <3>1. Kept' = Kept /\ rejected' = rejected /\ last_char' = NO_LAST_CHAR
      BY <1>6, <2>1, <2>7, KeptDispatch DEF Skips, Returns, EmptyStays, token_vars
    <3>2. Blank(cur) \/ Commented(cur)
      BY <2>6, <2>7
      DEF Skips, Blank, CommentOK, IsNewline, Returns, EmptyStays, token_vars
    <3> QED
      BY <2>5, <2>6, <2>7, <3>1, <3>2
  <2>8. CASE cur # EOF /\ Rejects
    <3>1. /\ Kept' = Kept /\ rejected' = rejected \cup {cur}
          /\ last_char' = NO_LAST_CHAR
      BY <1>6, <2>1, <2>8, KeptDispatch DEF Rejects, token_vars
    <3> QED
      BY <2>5, <2>6, <2>8, <3>1
  <2>9. CASE cur # EOF /\ (Keeps \/ Joins)
    <3>1. /\ Kept' = Kept \cup {cur} /\ rejected' = rejected
          /\ last_char' = NO_LAST_CHAR
      BY <1>6, <2>1, <2>6, <2>9, KeptDispatch DEF Keeps, Joins, result_vars
    <3>2. ~is_comment /\ input[cur] \notin {"space", "semi"}
      BY <2>9 DEF Keeps, Joins, TextInHand, result_vars, Completes
    <3>3. ~Blank(cur)
      BY <2>6, <2>9, <3>2 DEF Blank
    <3>4. Commented(Settled) => IsNewline(input[cur])
      BY <2>1, <2>9, <3>2 DEF CommentOK
    <3>5. ~Commented(cur)
      BY <2>6, <2>9, <3>2, <3>4
    <3> QED
      BY <2>5, <2>6, <2>9, <3>1, <3>3, <3>5
  <2> QED
    BY <1>6, <2>3, <2>4, <2>7, <2>8, <2>9 DEF Dispatched
<1> QED
  BY <1>4, <1>5, <1>6 DEF TokenizerStep

(* What is undecided is what is not settled.                               *)
LEMMA AccountedSuffices ==
  ASSUME TypeOK, HandOK, Accounted
  PROVE  TextAccountedFor
<1>1. Settled \in Nat /\ Consumed \in Nat
  BY SettledType
<1>2. ASSUME NEW p \in 1 .. Consumed, p # last_char,
             p # IF pc = "dispatch" THEN cur ELSE EOF
      PROVE  p \in 1 .. Settled
  BY <1>1, <1>2 DEF HandOK, Settled
<1>3. \A p \in (1 .. Consumed) \ {last_char, IF pc = "dispatch" THEN cur ELSE EOF} :
        p \in 1 .. Settled
  BY <1>2
<1> QED
  BY <1>3 DEF TextAccountedFor, Accounted, Kept

-----------------------------------------------------------------------------
(* The last element of a span.                                             *)
LEMMA LastElement ==
  ASSUME NEW s \in Seq(Position), s # <<>>
  PROVE  /\ Len(s) \in Position /\ Last(s) \in Position
         /\ Last(s) \in Elements(s)
BY EmptySeq, LenProperties DEF Last, Elements, Position

LEMMA LastOfAppend ==
  ASSUME NEW s \in Seq(Position), NEW x \in Position
  PROVE  /\ Append(s, x) \in Seq(Position) /\ Append(s, x) # <<>>
         /\ Last(Append(s, x)) = x
BY AppendProperties DEF Last

(* Where a token may end it may end for ever.                              *)
LEMMA MaximalStays ==
  ASSUME TypeOK, HandOK, TokenizerStep
  PROVE  \A type : \A last \in 1 .. Settled :
           EndsMaximal(type, last) => EndsMaximal(type, last)'
<1> SUFFICES ASSUME NEW type, NEW last \in 1 .. Settled, EndsMaximal(type, last)
             PROVE  EndsMaximal(type, last)'
  OBVIOUS
<1>1. /\ Settled \in Nat /\ Consumed \in Nat /\ Consumed <= fread_pos
      /\ fread_pos \in Nat /\ Settled \in {Consumed, Consumed - 1}
  BY SettledType
<1>2. rejected \subseteq rejected' /\ eof_at \subseteq eof_at'
      /\ Consumed' \in Nat /\ Consumed <= Consumed'
  <2>1. CASE Waits
    BY <1>1, <2>1, WaitsSettled DEF Waits, buffer_vars
  <2>2. CASE Took
    BY <1>1, <2>2 DEF Took, HandOK
  <2>3. CASE Dispatched
    <3>1. rejected \subseteq rejected'
      BY <2>3
      DEF Dispatched, EndsAtEof, Skips, PutsBack, Keeps, Joins, Rejects,
          Returns, EmptyStays, token_vars, result_vars
    <3> QED
      BY <1>1, <2>3, <3>1, DispatchSettled
  <2> QED
    BY <2>1, <2>2, <2>3 DEF TokenizerStep
<1>3. \A p \in 1 .. Consumed : input'[p] = input[p]
  BY <1>1, DispatchSettled DEF TokenizerStep, Waits, Took
<1>4. DryOrRejected(last) => DryOrRejected(last)'
  BY <1>2 DEF DryOrRejected
<1>5. /\ last < Consumed => last < Consumed' /\ input'[last + 1] = input[last + 1]
      /\ input'[last] = input[last]
  BY <1>1, <1>2, <1>3
<1> QED
  BY <1>4, <1>5 DEF EndsMaximal, ReadsAsEof

(* Tokens stay maximal when a maximal one is returned, and when none is.   *)
LEMMA MaximalExtends ==
  ASSUME TypeOK, HandOK, InOrder, Maximal, TokenizerStep,
         NEW type \in TokenType, NEW span \in Seq(Position), span # <<>>,
         ReturnToken(type, span), EndsMaximal(type, Last(span))'
  PROVE  Maximal'
<1>1. /\ Len(returned) \in Nat /\ Len(returned') = Len(returned) + 1
      /\ returned'[Len(returned) + 1].span = span
      /\ returned'[Len(returned) + 1].token_type = type
      /\ \A i \in 1 .. Len(returned) : returned'[i] = returned[i]
  BY ReturnTokenExtends
<1>2. ASSUME NEW i \in 1 .. Len(returned)
      PROVE  ReturnedMaximal(i)'
  <2>1. PICK t, l : t = returned[i].token_type /\ l = Last(returned[i].span)
    OBVIOUS
  <2>2. returned[i].span # <<>> /\ EndsMaximal(t, l)
    BY <2>1 DEF Maximal, ReturnedMaximal
  <2>3. l \in Elements(returned[i].span) /\ l \in Position
    BY <2>1, <2>2, TokenSpans, LastElement DEF TypeOK
  <2>4. l \in 1 .. Settled
    BY <2>3, SettledType DEF InOrder, Ordered, Within, Position
  <2>5. EndsMaximal(t, l)'
    BY <2>2, <2>4, MaximalStays
  <2>6. returned'[i] = returned[i]
    BY <1>1
  <2>7. t = returned'[i].token_type /\ l = Last(returned'[i].span)
    BY <2>1, <2>6 DEF Last
  <2> QED
    BY <2>2, <2>5, <2>6, <2>7 DEF ReturnedMaximal, Last
<1>3. ASSUME NEW i, i = Len(returned) + 1
      PROVE  ReturnedMaximal(i)'
  <2>1. PICK l : l = Last(span)
    OBVIOUS
  <2>2. EndsMaximal(type, l)'
    BY <2>1 DEF Last
  <2>3. returned'[i].span = span /\ returned'[i].token_type = type
    BY <1>1, <1>3
  <2> QED
    BY <2>1, <2>2, <2>3 DEF ReturnedMaximal, Last
<1>4. TokenEnds'
  BY DEF ReturnToken, TokenEnds
<1>5. 1 .. Len(returned') = (1 .. Len(returned)) \cup {Len(returned) + 1}
  BY <1>1
<1> QED
  BY <1>2, <1>3, <1>4, <1>5 DEF Maximal

LEMMA MaximalKept ==
  ASSUME TypeOK, HandOK, InOrder, Maximal, TokenizerStep, UNCHANGED returned, TokenEnds'
  PROVE  Maximal'
<1>1. ASSUME NEW i \in 1 .. Len(returned)
      PROVE  ReturnedMaximal(i)'
  <2>1. PICK t, l : t = returned[i].token_type /\ l = Last(returned[i].span)
    OBVIOUS
  <2>2. returned[i].span # <<>> /\ EndsMaximal(t, l)
    BY <2>1 DEF Maximal, ReturnedMaximal
  <2>3. l \in Elements(returned[i].span) /\ l \in Position
    BY <2>1, <2>2, TokenSpans, LastElement DEF TypeOK
  <2>4. l \in 1 .. Settled
    BY <2>3, SettledType DEF InOrder, Ordered, Within, Position
  <2>5. EndsMaximal(t, l)'
    BY <2>2, <2>4, MaximalStays
  <2> QED
    BY <2>1, <2>2, <2>5 DEF ReturnedMaximal, Last
<1> QED
  BY <1>1 DEF Maximal

(* Tokens stay maximal, in every step.                                     *)
LEMMA MaximalStep ==
  ASSUME TypeOK, TokenStateOK, HandOK, InOrder, Maximal, EndReached, TokenizerStep
  PROVE  Maximal'
<1>1. /\ Settled \in Nat /\ Consumed \in Nat /\ Settled \in {Consumed, Consumed - 1}
      /\ token \in Seq(Position) /\ detected_token_type \in TokenType
  BY SettledType DEF TypeOK
<1>2. CASE Waits
  BY <1>2, MaximalKept, WaitsSettled
  DEF Waits, Maximal, TokenEnds, DryOrRejected, buffer_vars
<1>3. CASE Took
  <2>1. UNCHANGED <<token, returned, rejected>> /\ eof_at \subseteq eof_at'
        /\ pc = "fetch" /\ pc' = "dispatch"
    BY <1>3 DEF Took
  <2>2. token # <<>> => DryOrRejected(Last(token)) \/ Last(token) = Settled
    BY <2>1 DEF Maximal, TokenEnds
  <2>3. DryOrRejected(Last(token)) => DryOrRejected(Last(token))'
    BY <2>1 DEF DryOrRejected, Last
  <2>4. ASSUME Last(token) = Settled, token # <<>>
        PROVE  TokenEnds'
    BY <1>1, <1>3, <2>1, <2>4
    DEF Took, TokenEnds, DryOrRejected, ReadsAsEof, Last
  <2>5. TokenEnds'
    BY <2>1, <2>2, <2>3, <2>4 DEF TokenEnds
  <2> QED
    BY <2>1, <2>5, MaximalKept
<1>4. CASE Dispatched
  <2>1. /\ pc = "dispatch" /\ pc' \in {"idle", "fetch"} /\ last_char = NO_LAST_CHAR
        /\ UNCHANGED <<input, eof_at, cur>> /\ Consumed' = Consumed
        /\ cur # EOF => cur = Settled + 1 /\ cur = Consumed /\ cur \in Position
        /\ Settled' = IF last_char' = NO_LAST_CHAR THEN Consumed ELSE Consumed - 1
    BY <1>1, <1>4, DispatchSettled DEF Dispatched, Position
  <2>2. token # <<>> =>
          /\ Last(token) \in 1 .. Settled
          /\ detected_token_type \in {"IDENTIFIER", "INT", "FLOAT", "NEWLINE"}
          /\ detected_token_type = "NEWLINE" => Last(token) = token[1]
    BY <1>1, LastElement
    DEF InOrder, Ordered, Within, Position, TokenStateOK, TokenType, Last
  <2>3. ASSUME token # <<>>, ReturnToken(detected_token_type, token),
               UNCHANGED rejected,
               EndsMaximal(detected_token_type, Last(token))
        PROVE  Maximal'
    <3>1. PICK ty, sp : ty = detected_token_type /\ sp = token
      OBVIOUS
    <3>2. EndsMaximal(ty, Last(sp))'
      BY <2>1, <2>3, <3>1 DEF EndsMaximal, DryOrRejected, ReadsAsEof, Last
    <3> QED
      BY <1>1, <2>3, <3>1, <3>2, MaximalExtends
  <2>4. ASSUME UNCHANGED <<token, returned>>,
               token = <<>> \/ DryOrRejected(Last(token))',
               rejected \subseteq rejected'
        PROVE  Maximal'
    BY <2>4, MaximalKept DEF TokenEnds
  <2>5. DryOrRejected(Last(token)) => EndsMaximal(detected_token_type, Last(token))
    BY DEF EndsMaximal
  <2>6. CASE EndsAtEof
    <3>1. CASE token # <<>>
      <4>1. \/ DryOrRejected(Last(token))
            \/ Last(token) + 1 = Consumed /\ ReadsAsEof(Consumed)
        BY <2>1, <2>6, <3>1
        DEF Maximal, TokenEnds, EndsAtEof, Returns, EmptyStays, token_vars
      <4>2. ASSUME Last(token) + 1 = Consumed, ReadsAsEof(Consumed)
            PROVE  EndsMaximal(detected_token_type, Last(token))
        BY <1>1, <2>2, <3>1, <4>2 DEF EndsMaximal, ReadsAsEof
      <4> QED
        BY <2>3, <2>5, <2>6, <3>1, <4>1, <4>2
        DEF EndsAtEof, Returns, EmptyStays, token_vars
    <3>2. CASE token = <<>>
      BY <2>4, <2>6, <3>2 DEF EndsAtEof, Returns, EmptyStays, token_vars
    <3> QED
      BY <3>1, <3>2
  <2>7. token # <<>> /\ cur # EOF =>
          DryOrRejected(Last(token)) \/ Last(token) + 1 = cur
    BY <1>1, <2>1 DEF Maximal, TokenEnds
  <2>8. CASE cur # EOF /\ Skips
    <3>1. CASE token # <<>>
      <4>1. ASSUME Last(token) + 1 = cur
            PROVE  EndsMaximal(detected_token_type, Last(token))
        BY <1>1, <2>1, <2>2, <2>8, <3>1, <4>1
        DEF EndsMaximal, Skips, Returns, EmptyStays, token_vars
      <4> QED
        BY <2>3, <2>5, <2>7, <2>8, <3>1, <4>1
        DEF Skips, Returns, EmptyStays, token_vars
    <3>2. CASE token = <<>>
      BY <2>4, <2>8, <3>2 DEF Skips, Returns, EmptyStays, token_vars
    <3> QED
      BY <3>1, <3>2
  <2>9. CASE cur # EOF /\ PutsBack
    <3>1. CASE token # <<>>
      <4>1. ASSUME Last(token) + 1 = cur
            PROVE  EndsMaximal(detected_token_type, Last(token))
        BY <1>1, <2>1, <2>2, <2>9, <3>1, <4>1
        DEF EndsMaximal, PutsBack, Returns, EmptyStays, token_vars
      <4> QED
        BY <2>3, <2>5, <2>7, <2>9, <3>1, <4>1
        DEF PutsBack, Returns, EmptyStays, token_vars
    <3>2. CASE token = <<>>
      BY <2>4, <2>9, <3>2 DEF PutsBack, Returns, EmptyStays, token_vars
    <3> QED
      BY <3>1, <3>2
  <2>10. CASE cur # EOF /\ Rejects
    <3>1. UNCHANGED <<token, returned>> /\ rejected' = rejected \cup {cur}
      BY <2>10 DEF Rejects, token_vars
    <3>2. token # <<>> => DryOrRejected(Last(token))'
      BY <2>1, <2>7, <2>10, <3>1 DEF DryOrRejected, Last
    <3> QED
      BY <2>4, <3>1, <3>2
  <2>11. CASE cur # EOF /\ Keeps
    <3>1. /\ token' = Append(token, cur) /\ UNCHANGED returned
          /\ last_char' = NO_LAST_CHAR
      BY <2>1, <2>11 DEF Keeps, result_vars
    <3>2. Last(token') = cur
      BY <1>1, <2>1, <2>11, <3>1, LastOfAppend
    <3>3. Last(token') = Settled'
      BY <2>1, <2>11, <3>1, <3>2
    <3>4. TokenEnds'
      BY <2>1, <3>3 DEF TokenEnds, Last
    <3> QED
      BY <3>1, <3>4, MaximalKept
  <2>12. CASE cur # EOF /\ Joins
    <3>1. PICK ty \in {"COMMA", "COLON", "NEWLINE"} :
            /\ ReturnToken(ty, Append(token, cur))
            /\ ty = "NEWLINE" => input[cur] = "lf"
      BY <2>12 DEF Joins, Completes
    <3>2. PICK sp : sp = Append(token, cur)
      OBVIOUS
    <3>3. sp \in Seq(Position) /\ sp # <<>> /\ Last(sp) = cur /\ ty \in TokenType
      BY <1>1, <2>1, <2>12, <3>2, LastOfAppend DEF TokenType
    <3>4. EndsMaximal(ty, Last(sp))'
      BY <2>1, <3>1, <3>3 DEF EndsMaximal, Last
    <3> QED
      BY <3>1, <3>2, <3>3, <3>4, MaximalExtends
  <2> QED
    BY <1>4, <2>6, <2>8, <2>9, <2>10, <2>11, <2>12 DEF Dispatched
<1> QED
  BY <1>2, <1>3, <1>4 DEF TokenizerStep

(* What was read suffices to tell that a token is maximal.                 *)
LEMMA MaximalSuffices ==
  ASSUME TypeOK, HandOK, InOrder, Maximal
  PROVE  TokensMaximal
<1> SUFFICES ASSUME NEW i \in 1 .. Len(returned),
                    Last(returned[i].span) \notin
                      eof_at \cup {p - 1 : p \in rejected}
             PROVE  LET t == returned[i]
                        last == t.span[Len(t.span)]
                        next == input[last + 1]
                    IN  CASE t.token_type \in {"IDENTIFIER", "INT", "FLOAT"} ->
                               /\ last < Len(input)
                               /\ \/ next \in {"space", "semi", "cr", "lf", "comma", "colon"}
                                  \/ CharSigned /\ next = "xff"
                          [] t.token_type = "NEWLINE" ->
                               (last < Len(input) /\ input[last] = "cr") => next # "lf"
                          [] OTHER -> TRUE
  BY DEF TokensMaximal, Last
<1> DEFINE last == Last(returned[i].span)
<1>1. /\ Consumed \in Nat /\ Consumed <= Len(input) /\ Len(input) \in Nat
      /\ last \in Position
  BY SettledType, TokenSpans, LastElement, LenProperties
  DEF TypeOK, Maximal, ReturnedMaximal
<1>2. ~DryOrRejected(last)
  BY <1>1 DEF DryOrRejected, TypeOK, Position
<1>3. EndsMaximal(returned[i].token_type, last)
  BY DEF Maximal, ReturnedMaximal
<1> QED
  BY <1>1, <1>2, <1>3 DEF EndsMaximal, ReadsAsEof, Last, Position

-----------------------------------------------------------------------------
(* EOF in hand stays explained, in every step.                             *)
LEMMA EndStep ==
  ASSUME TypeOK, HandOK, EndReached, TokenizerStep
  PROVE  EndReached'
<1>1. CASE Waits
  BY <1>1 DEF Waits, EndReached
<1>2. CASE Took
  BY <1>2, SettledType DEF Took, EndReached, ReadsAsEof
<1>3. CASE Dispatched
  BY <1>3 DEF Dispatched, EndReached
<1> QED
  BY <1>1, <1>2, <1>3 DEF TokenizerStep

-----------------------------------------------------------------------------
(* The invariant holds initially, is kept by every step, and so always     *)
(* holds.                                                                  *)
LEMMA TextInit == Init => TextInv
<1> SUFFICES ASSUME Init PROVE TextInv
  OBVIOUS
<1>1. /\ Consumed = 0 /\ Settled = 0 /\ pc = "idle" /\ last_char = NO_LAST_CHAR
      /\ token = <<>> /\ returned = <<>> /\ rejected = {} /\ ~is_comment
      /\ Len(<<>>) = 0
  BY EmptySeq, LimitsAssumption DEF Init, Consumed, Settled
<1>2. HandOK /\ EndReached
  BY <1>1 DEF HandOK, EndReached
<1>3. InOrder
  BY <1>1 DEF InOrder, Ordered, Increasing, Within, Elements
<1>4. CommentOK /\ Accounted
  BY <1>1 DEF CommentOK, Accounted, Commented, Within
<1>5. Maximal
  BY <1>1 DEF Maximal, TokenEnds
<1> QED
  BY <1>2, <1>3, <1>4, <1>5 DEF TextInv

LEMMA TextStep ==
  ASSUME TypeOK, TokenStateOK, TextInv, [Next]_vars
  PROVE  TextInv'
<1> USE DEF TextInv
<1>1. CASE TokenizerStep
  BY <1>1, HandStep, OrderStep, CommentStep, AccountStep, MaximalStep, EndStep
<1>2. CASE UNCHANGED vars
  BY <1>2
  DEF vars, stream_vars, buffer_vars, token_vars, result_vars, HandOK, InOrder,
      CommentOK, Accounted, Maximal, EndReached, Settled, Consumed, Ordered,
      Increasing, Within, Elements, AllBefore, Commented, Blank, IsNewline,
      Kept, TokenEnds, ReturnedMaximal, EndsMaximal, DryOrRejected, ReadsAsEof,
      Last
<1>3. [Next]_vars => TokenizerStep \/ UNCHANGED vars
  BY ClientWaits, FetchTakes, DispatchShape DEF Next, TokenizerStep
<1> QED
  BY <1>1, <1>2, <1>3

LEMMA TextInvariant == Spec => []TextInv
<1>1. TypeOK /\ TokenStateOK /\ TextInv /\ [Next]_vars => TextInv'
  BY TextStep
<1> QED
  BY <1>1, TextInit, TypeCorrect, TokenStateCorrect, PTL DEF Spec

(* The text comes out in the order of the input and no part of it twice.   *)
THEOREM TextInOrderCorrect == Spec => []TextInOrder
<1>1. TypeOK /\ TextInv => TextInOrder
  BY InOrderSuffices DEF TextInv
<1> QED
  BY <1>1, TypeCorrect, TextInvariant, PTL

(* No character of the text is lost, and none is made of what is no text.  *)
THEOREM TextAccountedForCorrect == Spec => []TextAccountedFor
<1>1. TypeOK /\ TextInv => TextAccountedFor
  BY AccountedSuffices DEF TextInv
<1> QED
  BY <1>1, TypeCorrect, TextInvariant, PTL

(* No token ends early, wherever the buffer, a call or a file did.         *)
THEOREM TokensMaximalCorrect == Spec => []TokensMaximal
<1>1. TypeOK /\ TextInv => TokensMaximal
  BY MaximalSuffices DEF TextInv
<1> QED
  BY <1>1, TypeCorrect, TextInvariant, PTL

-----------------------------------------------------------------------------
(* How a pass through the loop body ends: the call goes on, or it returns  *)
(* a token, EOF or an error.                                               *)
Continues == pc' = "fetch" /\ UNCHANGED result_vars

HandsOut ==
  \E type \in TokenType, span \in Seq(Position) : ReturnToken(type, span)

ReturnsEof ==
  /\ cur = EOF /\ token = <<>> /\ UNCHANGED token
  /\ pc' = "idle" /\ status' = EOF
  /\ UNCHANGED <<last_char, returned, rejected>>

ReturnsError == cur # EOF /\ UNCHANGED last_char /\ \E code \in 1 .. 255 : Fail(code)

(* There is no other end to the switch or to the body.                     *)
LEMMA SwitchReturns ==
  ASSUME TypeOK, SwitchOnType
  PROVE  Continues \/ HandsOut \/ ReturnsError
<1>1. cur # EOF /\ cur \in Position /\ token \in Seq(Position)
      /\ Append(token, cur) \in Seq(Position)
  BY AppendProperties DEF SwitchOnType, InCode, TypeOK, Position
<1>2. ASSUME NEW code \in 1 .. 255, UNCHANGED last_char, Fail(code)
      PROVE  ReturnsError
  BY <1>1, <1>2 DEF ReturnsError
<1>3. ASSUME NEW type, UNCHANGED last_char, GrowToken(type)
      PROVE  Continues \/ ReturnsError
  BY <1>2, <1>3 DEF GrowToken, Continues, TOKENIZER_ERR_TOO_LONG
<1>4. CASE StartToken
  <2>1. CASE token # <<>>
    BY <1>2, <1>4, <2>1 DEF StartToken, TOKENIZER_ERR_UNRECOGNIZED_SEQUENCE
  <2>2. CASE Fail(TOKENIZER_ERR_INVALID_START_CHAR)
    BY <1>2, <1>4, <2>2 DEF StartToken, TOKENIZER_ERR_INVALID_START_CHAR
  <2>3. CASE pc' = "fetch" /\ UNCHANGED result_vars
    BY <2>3 DEF Continues
  <2> QED
    BY <1>4, <2>1, <2>2, <2>3 DEF StartToken, IsNewline, IsIdentifierInitial
<1>5. CASE GrowIdentifier
  BY <1>2, <1>3, <1>5
  DEF GrowIdentifier, TOKENIZER_ERR_BAD_CHAR_IN_IDENTIFIER
<1>6. CASE GrowInt
  BY <1>2, <1>3, <1>6 DEF GrowInt, TOKENIZER_ERR_BAD_CHAR_IN_NUM
<1>7. CASE GrowFloat
  BY <1>2, <1>3, <1>7
  DEF GrowFloat, TOKENIZER_ERR_BAD_CHAR_IN_NUM, TOKENIZER_ERR_TOO_MANY_DOTS
<1>8. CASE EndNewline
  <2>1. ASSUME NEW span \in Seq(Position), ReturnToken("NEWLINE", span)
        PROVE  HandsOut
    BY <2>1 DEF HandsOut, TokenType
  <2>2. ASSUME UNCHANGED last_char, Fail(TOKENIZER_ERR_BAD_NEWLINE_SEQUENCE)
        PROVE  ReturnsError
    BY <1>2, <2>2 DEF TOKENIZER_ERR_BAD_NEWLINE_SEQUENCE
  <2> QED
    BY <1>1, <1>8, <2>1, <2>2 DEF EndNewline
<1>9. CASE UNCHANGED last_char /\ Fail(ERR_IMPOSSIBLE_TYPE)
  BY <1>2, <1>9 DEF ERR_IMPOSSIBLE_TYPE
<1> QED
  BY <1>4, <1>5, <1>6, <1>7, <1>8, <1>9 DEF SwitchOnType

LEMMA DispatchReturns ==
  ASSUME TypeOK, Dispatch
  PROVE  Continues \/ HandsOut \/ ReturnsEof \/ ReturnsError
<1>1. token \in Seq(Position) /\ detected_token_type \in TokenType
  BY DEF TypeOK
<1>2. ASSUME ReturnToken(detected_token_type, token)
      PROVE  HandsOut
  BY <1>1, <1>2 DEF HandsOut
<1>3. ASSUME NextCharacter PROVE Continues
  BY <1>3 DEF NextCharacter, Continues
<1>4. CASE AtEof
  BY <1>2, <1>4 DEF AtEof, ReturnsEof, token_vars
<1>5. CASE SkipComment
  BY <1>3, <1>5 DEF SkipComment
<1>6. CASE NewlineEndsToken
  BY <1>2, <1>6 DEF NewlineEndsToken
<1>7. CASE Space \/ BeginComment
  BY <1>2, <1>3, <1>7 DEF Space, BeginComment, ReturnIfNotEmpty
<1>8. CASE Separator
  <2>1. <<cur>> \in Seq(Position)
    BY <1>8 DEF Separator, InCode, TypeOK, Position
  <2> QED
    BY <1>2, <1>8, <2>1 DEF Separator, HandsOut, TokenType
<1>9. CASE SwitchOnType
  BY <1>9, SwitchReturns
<1> QED
  BY <1>4, <1>5, <1>6, <1>7, <1>8, <1>9 DEF Dispatch

(* EOF is the answer only at the end of the text, if fread does not fail:  *)
(* nothing is left in the file, in token or in last_char.                  *)
THEOREM EofMeansEndCorrect ==
  ASSUME ~ShortReads
  PROVE  Spec => EofMeansEnd
<1> DEFINE Ends == pc = "dispatch" /\ pc' = "idle" /\ status' = EOF =>
                     /\ token' = <<>>
                     /\ last_char' = NO_LAST_CHAR
                     /\ \/ Consumed = Len(input)
                        \/ CharSigned /\ input[Consumed] = "xff"
<1>1. TypeOK /\ TextInv /\ [Next]_vars => [Ends]_vars
  <2> SUFFICES ASSUME TypeOK, TextInv, Next, pc = "dispatch", pc' = "idle",
                      status' = EOF
               PROVE  /\ token' = <<>>
                      /\ last_char' = NO_LAST_CHAR
                      /\ \/ Consumed = Len(input)
                         \/ CharSigned /\ input[Consumed] = "xff"
    OBVIOUS
  <2>1. Dispatch
    BY DEF Next, SetTokenizerFile, CallGetNextToken, Fetch, TakeLastChar,
           TakeBuffered, GrabBuffer
  <2>2. ReturnsEof
    BY <2>1, DispatchReturns
    DEF Continues, HandsOut, ReturnToken, ReturnsError, Fail, EOF
  <2>3. last_char = NO_LAST_CHAR
    BY DEF TextInv, HandOK
  <2> QED
    BY <2>2, <2>3 DEF ReturnsEof, TextInv, EndReached, ReadsAsEof
<1>2. Spec => [][Ends]_vars
  BY <1>1, TypeCorrect, TextInvariant, PTL DEF Spec
<1> QED
  BY <1>2 DEF EofMeansEnd
=============================================================================
