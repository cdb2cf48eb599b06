---------------------------- MODULE MiniasProofs ----------------------------
(***************************************************************************)
(* What the exit code of minias says about the file, for every file, every *)
(* length of tokens and buffer, signed and unsigned char, and whatever     *)
(* fread and fopen do.                                                     *)
(***************************************************************************)
EXTENDS Minias, TokenizerProofs

(* What TokenizerProofs shows of the tokenizer.                            *)
TokenizerInv == TypeOK /\ TokenStateOK /\ NoImpossibleError /\ TextInv

(* Every step of the program is a step of the tokenizer or none, so what   *)
(* holds of the tokenizer with any client holds with this one.             *)
LEMMA ProgramIsClient ==
  ASSUME [MiniasNext]_all_vars
  PROVE  [Next]_vars
BY DEF MiniasNext, Usage, NoFile, Open, Call, RunTokenizer, AfterCall, Next,
       all_vars, vars

LEMMA TokenizerStays == MiniasSpec => []TokenizerInv
<1>1. MiniasInit => TokenizerInv
  BY TypeInit, TokenStateInit, TextInit DEF MiniasInit, TokenizerInv
<1>2. TokenizerInv /\ [MiniasNext]_all_vars => TokenizerInv'
  BY ProgramIsClient, TypeStep, TokenStateStep, TextStep DEF TokenizerInv
<1> QED
  BY <1>1, <1>2, PTL DEF MiniasSpec

-----------------------------------------------------------------------------
(* The tokens printed once each, up to the n-th.                           *)
Numbered(n) == [i \in 1 .. n |-> i]

(* How get_next_token has left the text when it returns EOF or an error.   *)
AtEnd ==
  /\ rejected = {} /\ token = <<>> /\ last_char = NO_LAST_CHAR
  /\ \/ Consumed = Len(input)
     \/ ShortReads
     \/ ReadsAsEof(Consumed)

AtError ==
  cur # EOF /\ cur = Consumed /\ rejected = {cur} /\ last_char = NO_LAST_CHAR

(* The inductive invariant: in the loop all tokens but the one just handed *)
(* out are printed, and nothing is rejected before the last call; after    *)
(* the loop the exit code tells how it ended.                              *)
LoopInv ==
  /\ phase = "start" =>
       files_set = 0 /\ returned = <<>> /\ printed = <<>> /\ rejected = {}
  /\ phase = "call" \/ (phase = "wait" /\ pc # "idle") =>
       rejected = {} /\ printed = Numbered(Len(returned))
  /\ phase = "wait" /\ pc = "idle" =>
       \/ /\ status = 0 /\ rejected = {}
          /\ Len(returned) > 0 /\ printed = Numbered(Len(returned) - 1)
       \/ status = EOF /\ AtEnd /\ printed = Numbered(Len(returned))
       \/ status > 0 /\ AtError /\ printed = Numbered(Len(returned))
  /\ phase \in {"start", "call", "exited"} => pc = "idle"
  /\ phase = "exited" =>
       \/ files_set = 0 /\ exit_code # 0
       \/ /\ exit_code = 0 /\ AtEnd
          /\ printed = Append(Numbered(Len(returned)), Stale)
       \/ /\ exit_code > 0 /\ exit_code = status /\ AtError
          /\ printed = Numbered(Len(returned))

(* One more token printed.                                                 *)
LEMMA NumberedAppend ==
  ASSUME NEW n \in Nat
  PROVE  /\ Append(Numbered(n), n + 1) = Numbered(n + 1)
         /\ Elements(Numbered(n)) = 1 .. n
         /\ Elements(Append(Numbered(n), Stale)) = (1 .. n) \cup {Stale}
<1>1. Numbered(n) \in Seq(Nat) /\ Len(Numbered(n)) = n
  BY DEF Numbered
<1>2. \A x \in Nat : /\ Len(Append(Numbered(n), x)) = n + 1
                     /\ Append(Numbered(n), x)[n + 1] = x
                     /\ \A i \in 1 .. n : Append(Numbered(n), x)[i] = i
  BY <1>1, AppendProperties DEF Numbered
<1> QED
  BY <1>1, <1>2 DEF Numbered, Elements, Stale

(* No step of the loop leaves the invariant: one fact per action, and for  *)
(* get_next_token's own steps one per way a pass through its body ends.    *)
LEMMA LoopInit == MiniasInit => LoopInv
BY DEF MiniasInit, Init, LoopInv

LEMMA RunTokenizerStep ==
  ASSUME TokenizerInv, LoopInv, RunTokenizer
  PROVE  LoopInv'
<1>1. /\ phase = "wait" /\ phase' = "wait" /\ printed' = printed
      /\ pc # "idle" => rejected = {} /\ printed = Numbered(Len(returned))
  BY DEF RunTokenizer, minias_vars, LoopInv
<1>2. CASE Fetch
  <2>1. pc # "idle" /\ pc' = "dispatch" /\ UNCHANGED result_vars
    BY <1>2 DEF Fetch, TakeLastChar, TakeBuffered, GrabBuffer
  <2> QED
    BY <1>1, <2>1 DEF LoopInv, result_vars
<1>3. CASE Dispatch
  <2>1. TypeOK /\ TokenStateOK /\ HandOK /\ EndReached
    BY DEF TokenizerInv, TextInv
  <2>2. Dispatched
    BY <1>3, <2>1, DispatchShape
  <2>3. /\ pc = "dispatch" /\ last_char = NO_LAST_CHAR /\ cur \in {EOF, Consumed}
        /\ Consumed' = Consumed /\ input' = input /\ cur' = cur
    BY <2>1, <2>2, DispatchSettled DEF Dispatched
  <2>4. rejected = {} /\ printed = Numbered(Len(returned))
    BY <1>1, <2>3
  <2>5. CASE Continues
    BY <1>1, <2>4, <2>5 DEF Continues, LoopInv, result_vars
  <2>6. CASE HandsOut
    <3>1. PICK t \in Token : /\ returned' = Append(returned, t)
                            /\ status' = 0 /\ pc' = "idle"
                            /\ rejected' = rejected
      BY <2>1, <2>6 DEF HandsOut, ReturnToken, TypeOK, Token
    <3>2. Len(returned') = Len(returned) + 1 /\ Len(returned) \in Nat
      BY <2>1, <3>1, AppendProperties, LenProperties DEF TypeOK
    <3> QED
      BY <1>1, <2>4, <3>1, <3>2 DEF LoopInv
  <2>7. CASE ReturnsEof
    <3>1. AtEnd'
      BY <2>1, <2>3, <2>4, <2>7
      DEF ReturnsEof, AtEnd, EndReached, ReadsAsEof
    <3> QED
      BY <1>1, <2>4, <2>7, <3>1 DEF ReturnsEof, LoopInv
  <2>8. CASE ReturnsError
    <3>1. AtError' /\ status' > 0 /\ pc' = "idle" /\ returned' = returned
      BY <2>3, <2>4, <2>8 DEF ReturnsError, Fail, AtError
    <3> QED
      BY <1>1, <2>4, <3>1 DEF LoopInv
  <2> QED
    BY <1>3, <2>1, <2>5, <2>6, <2>7, <2>8, DispatchReturns
<1> QED
  BY <1>2, <1>3 DEF RunTokenizer

LEMMA AfterCallStep ==
  ASSUME TypeOK, LoopInv, AfterCall
  PROVE  LoopInv'
<1>1. /\ phase = "wait" /\ pc = "idle" /\ UNCHANGED vars
      /\ pc' = pc /\ status' = status /\ returned' = returned
      /\ rejected' = rejected /\ Len(returned) \in Nat
  BY LenProperties DEF AfterCall, vars, result_vars, TypeOK
<1>2. (AtEnd => AtEnd') /\ (AtError => AtError')
  BY <1>1
  DEF vars, stream_vars, buffer_vars, token_vars, result_vars, AtEnd, AtError,
      Consumed, ReadsAsEof
<1>3. \/ /\ status = 0 /\ rejected = {}
         /\ Len(returned) > 0 /\ printed = Numbered(Len(returned) - 1)
      \/ status = EOF /\ AtEnd /\ printed = Numbered(Len(returned))
      \/ status > 0 /\ AtError /\ printed = Numbered(Len(returned))
  BY <1>1 DEF LoopInv
<1>4. CASE status > 0
  <2>1. phase' = "exited" /\ exit_code' = status /\ printed' = printed
    BY <1>4 DEF AfterCall, Exit, EOF
  <2> QED
    BY <1>1, <1>2, <1>3, <1>4, <2>1 DEF LoopInv, EOF
<1>5. CASE status = EOF
  <2>1. phase' = "exited" /\ exit_code' = 0 /\ printed' = Append(printed, Stale)
    BY <1>5 DEF AfterCall, Exit, EOF
  <2> QED
    BY <1>1, <1>2, <1>3, <1>5, <2>1 DEF LoopInv, EOF
<1>6. CASE status = 0
  <2>1. phase' = "call" /\ printed' = Append(printed, Len(returned))
    BY <1>6 DEF AfterCall, EOF
  <2>2. Len(returned) > 0 /\ printed = Numbered(Len(returned) - 1)
    BY <1>3, <1>6 DEF EOF
  <2>3. Append(printed, Len(returned)) = Numbered(Len(returned))
    <3>1. PICK n \in Nat : n = Len(returned) - 1
      BY <1>1, <2>2
    <3>2. Len(returned) = n + 1
      BY <1>1, <3>1
    <3> QED
      BY <2>2, <3>1, <3>2, NumberedAppend
  <2> QED
    BY <1>1, <1>3, <1>6, <2>1, <2>3 DEF LoopInv, EOF
<1> QED
  BY <1>3, <1>4, <1>5, <1>6

LEMMA LoopStep ==
  ASSUME TokenizerInv, LoopInv, [MiniasNext]_all_vars
  PROVE  LoopInv'
<1>1. CASE Usage
  BY <1>1
  DEF Usage, Exit, LoopInv, vars, stream_vars, result_vars
<1>2. CASE NoFile
  BY <1>2
  DEF NoFile, Exit, CRASHED, LoopInv, vars, stream_vars, result_vars
<1>3. CASE Open
  <2>1. Numbered(Len(<<>>)) = <<>>
    BY EmptySeq DEF Numbered
  <2> QED
    BY <1>3, <2>1 DEF Open, SetTokenizerFile, LoopInv, result_vars
<1>4. CASE Call
  BY <1>4 DEF Call, CallGetNextToken, LoopInv, result_vars
<1>5. CASE RunTokenizer
  BY <1>5, RunTokenizerStep
<1>6. CASE AfterCall
  BY <1>6, AfterCallStep DEF TokenizerInv
<1>7. CASE UNCHANGED all_vars
  BY <1>7
  DEF all_vars, minias_vars, vars, stream_vars, buffer_vars, token_vars,
      result_vars, LoopInv, AtEnd, AtError, Consumed, ReadsAsEof
<1> QED
  BY <1>1, <1>2, <1>3, <1>4, <1>5, <1>6, <1>7 DEF MiniasNext

LEMMA LoopInvariant == MiniasSpec => [](TokenizerInv /\ LoopInv)
<1>1. TokenizerInv /\ LoopInv /\ [MiniasNext]_all_vars => LoopInv'
  BY LoopStep
<1> QED
  BY <1>1, LoopInit, TokenizerStays, PTL DEF MiniasSpec

-----------------------------------------------------------------------------
(* The text that was printed, when each token was printed.                 *)
LEMMA PrintedIsReturned ==
  ASSUME TypeOK,
         \/ printed = Numbered(Len(returned))
         \/ printed = Append(Numbered(Len(returned)), Stale)
  PROVE  PrintedText = ReturnedText
<1>1. Len(returned) \in Nat
  BY LenProperties DEF TypeOK
<1>2. /\ Elements(Numbered(Len(returned))) = 1 .. Len(returned)
      /\ Elements(Append(Numbered(Len(returned)), Stale))
           = (1 .. Len(returned)) \cup {Stale}
  BY <1>1, NumberedAppend
<1>3. 0 \notin 1 .. Len(returned)
  BY <1>1
<1>4. Elements(printed) \ {Stale} = 1 .. Len(returned)
  BY <1>2, <1>3 DEF Stale
<1> QED
  BY <1>4 DEF PrintedText, ReturnedText

(* An exit code of 0 says that the whole file was tokens, blanks and       *)
(* comments, and that each of the tokens was printed once and in order.    *)
THEOREM ExitZeroCorrect == MiniasSpec => []ExitZeroMeansLexed
<1>1. TokenizerInv /\ LoopInv => ExitZeroMeansLexed
  <2> SUFFICES ASSUME TokenizerInv, LoopInv, phase = "exited", exit_code = 0
               PROVE  /\ rejected = {}
                      /\ printed = Append([i \in 1 .. Len(returned) |-> i], Stale)
                      /\ \A p \in 1 .. Consumed :
                           p \in PrintedText <=> ~(Blank(p) \/ Commented(p))
                      /\ \/ Consumed = Len(input)
                         \/ ShortReads
                         \/ CharSigned /\ input[Consumed] = "xff"
    BY DEF ExitZeroMeansLexed
  <2>1. pc = "idle" /\ AtEnd /\ printed = Append(Numbered(Len(returned)), Stale)
    BY DEF LoopInv
  <2>2. Settled = Consumed
    BY <2>1 DEF AtEnd, Settled
  <2>3. \A p : p \in Kept <=> p \in PrintedText
    BY <2>1, PrintedIsReturned, EmptySeq
    DEF AtEnd, Kept, ReturnedText, Elements, TokenizerInv
  <2>4. \A p \in 1 .. Consumed :
          p \in PrintedText <=> ~(Blank(p) \/ Commented(p))
    BY <2>1, <2>2, <2>3 DEF TokenizerInv, TextInv, Accounted, AtEnd
  <2> QED
    BY <2>1, <2>4 DEF AtEnd, Numbered, ReadsAsEof
<1> QED
  BY <1>1, LoopInvariant, PTL

(* An exit code above 0 names the error of the one character rejected, and *)
(* everything ahead of that character was printed or is in the token.      *)
THEOREM ErrorCorrect == MiniasSpec => []ErrorMeansRejected
<1>1. TokenizerInv /\ LoopInv => ErrorMeansRejected
  <2> SUFFICES ASSUME TokenizerInv, LoopInv, phase = "exited", exit_code > 0,
                      files_set > 0
               PROVE  /\ exit_code = status /\ rejected = {cur}
                      /\ cur = Consumed
                      /\ printed = [i \in 1 .. Len(returned) |-> i]
                      /\ \A p \in 1 .. cur - 1 :
                           p \in PrintedText \cup Elements(token)
                             <=> ~(Blank(p) \/ Commented(p))
    BY DEF ErrorMeansRejected
  <2>1. pc = "idle" /\ AtError /\ exit_code = status
        /\ printed = Numbered(Len(returned))
    BY DEF LoopInv
  <2>2. Settled = cur /\ cur \in Nat
    BY <2>1 DEF AtError, Settled, TokenizerInv, TypeOK
  <2>3. \A p : p \in Kept <=> p \in PrintedText \cup Elements(token)
    BY <2>1, PrintedIsReturned DEF Kept, ReturnedText, TokenizerInv
  <2>4. \A p \in 1 .. cur - 1 :
          p \in PrintedText \cup Elements(token) <=> ~(Blank(p) \/ Commented(p))
    BY <2>1, <2>2, <2>3 DEF TokenizerInv, TextInv, Accounted, AtError
  <2> QED
    BY <2>1, <2>4 DEF AtError, Numbered
<1> QED
  BY <1>1, LoopInvariant, PTL
=============================================================================
