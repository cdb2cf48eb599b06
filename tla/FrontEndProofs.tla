--------------------------- MODULE FrontEndProofs ---------------------------
(***************************************************************************)
(* What the tokenizer and the parser are proved to do together, for every  *)
(* length of tokens and buffer, every file, every spelling of the tokens   *)
(* and whatever fread and malloc do: that a text is accepted whole, which  *)
(* lines a statement is on and which symbols come of it.                   *)
(***************************************************************************)
EXTENDS FrontEnd, TokenizerProofs, ParserProofs

-----------------------------------------------------------------------------
(* What the type of a token says of its characters.                        *)
HasText(type, s) ==
  CASE type = "NEWLINE" ->
         \/ Len(s) = 1 /\ IsNewline(input[s[1]])
         \/ /\ Len(s) = 2 /\ s[2] = s[1] + 1
            /\ input[s[1]] = "cr" /\ input[s[2]] = "lf"
    [] type = "COLON" -> Len(s) = 1 /\ input[s[1]] = "colon"
    [] OTHER -> \A p \in Elements(s) : input[p] \notin {"cr", "lf", "colon"}

(* Nothing comes between the two characters of a newline token, and what   *)
(* was rejected ends neither a line nor the name of a label.               *)
SpansInv ==
  /\ \A p \in rejected : input[p] \notin {"cr", "lf", "colon"}
  /\ \A i \in 1 .. Len(returned) :
       HasText(returned[i].token_type, returned[i].span)
  /\ HasText(detected_token_type, token)
  /\ detected_token_type = "NEWLINE" =>
       token[1] = Settled \/ (pc = "dispatch" /\ cur = EOF)

LEMMA SpansInit ==
  ASSUME Init
  PROVE  SpansInv
<1>1. /\ token = <<>> /\ returned = <<>> /\ detected_token_type = "UNKNOWN"
      /\ rejected = {}
      /\ Len(<<>>) = 0
  BY EmptySeq DEF Init
<1> QED
  BY <1>1 DEF SpansInv, HasText, Elements

LEMMA HasTextStays ==
  ASSUME NEW type, NEW s, \A p \in Elements(s) : input'[p] = input[p],
         HasText(type, s), Len(s) \in Nat
  PROVE  HasText(type, s)'
<1>1. \A i \in 1 .. Len(s) : input'[s[i]] = input[s[i]]
  BY DEF Elements
<1>2. CASE type = "NEWLINE"
  BY <1>1, <1>2 DEF HasText, IsNewline
<1>3. CASE type = "COLON"
  BY <1>1, <1>3 DEF HasText
<1>4. CASE type \notin {"NEWLINE", "COLON"}
  BY <1>4 DEF HasText, Elements
<1> QED
  BY <1>2, <1>3, <1>4

LEMMA SpansReturn ==
  ASSUME TypeOK, SpansInv, NEW type \in TokenType, NEW span \in Seq(Position),
         ReturnToken(type, span), input' = input, HasText(type, span)
  PROVE  SpansInv'
<1>1. /\ Len(returned) \in Nat /\ Len(returned') = Len(returned) + 1
      /\ returned'[Len(returned) + 1].span = span
      /\ returned'[Len(returned) + 1].token_type = type
      /\ \A i \in 1 .. Len(returned) : returned'[i] = returned[i]
      /\ Elements(token') = {}
  BY ReturnTokenExtends
<1>2. detected_token_type' = "UNKNOWN"
  BY DEF ReturnToken
<1>3. \A t, s : HasText(t, s)' <=> HasText(t, s)
  BY DEF HasText, IsNewline, Elements
<1>4. HasText(detected_token_type', token')
  BY <1>1, <1>2 DEF HasText
<1>5. ASSUME NEW i \in 1 .. Len(returned')
      PROVE  HasText(returned'[i].token_type, returned'[i].span)
  <2>1. CASE i = Len(returned) + 1
    BY <1>1, <2>1
  <2>2. CASE i # Len(returned) + 1
    <3>1. i \in 1 .. Len(returned) /\ returned'[i] = returned[i]
      BY <1>1, <2>2
    <3> QED
      BY <3>1 DEF SpansInv
  <2> QED
    BY <2>1, <2>2
<1>6. rejected' = rejected
  BY DEF ReturnToken
<1>7. /\ HasText(detected_token_type, token)'
      /\ \A i \in 1 .. Len(returned') :
           HasText(returned[i].token_type, returned[i].span)'
  BY <1>3, <1>4, <1>5
<1> QED
  BY <1>2, <1>6, <1>7 DEF SpansInv

LEMMA SpansStep ==
  ASSUME TypeOK, TokenStateOK, TextInv, SpansInv, TokenizerStep
  PROVE  SpansInv'
<1>1. /\ HandOK /\ InOrder /\ Settled \in Nat /\ Settled <= fread_pos
      /\ fread_pos \in Nat /\ Consumed \in Nat
  BY SettledType DEF TextInv
<1>2. /\ token \in Seq(Position) /\ Len(token) \in Nat
      /\ detected_token_type \in TokenType
      /\ \A i \in 1 .. Len(returned) : /\ returned[i].span \in Seq(Position)
                                      /\ Len(returned[i].span) \in Nat
  BY TokenSpans, LenProperties DEF TypeOK
<1>3. CASE Waits
  <2>1. /\ UNCHANGED <<token, detected_token_type, returned, cur>>
        /\ Settled' = Settled /\ pc # "dispatch"
        /\ \A p \in 1 .. fread_pos : input'[p] = input[p]
    BY <1>3, WaitsSettled DEF Waits
  <2>2. ASSUME NEW s \in Seq(Position), Within(Elements(s), Settled)
        PROVE  \A p \in Elements(s) : input'[p] = input[p]
    <3>1. \A p \in Elements(s) : p \in 1 .. fread_pos
      BY <1>1, <2>2, SpanElements DEF Within, Position
    <3> QED
      BY <2>1, <3>1
  <2>3. HasText(detected_token_type, token)'
    <3>1. Within(Elements(token), Settled)
      BY <1>1 DEF InOrder, Ordered
    <3>2. HasText(detected_token_type, token)
      BY DEF SpansInv
    <3>3. PICK t, s : t = detected_token_type /\ s = token
      OBVIOUS
    <3>4. HasText(t, s)'
      BY <1>2, <2>2, <3>1, <3>2, <3>3, HasTextStays
    <3> QED
      BY <2>1, <3>3, <3>4
  <2>4. ASSUME NEW i \in 1 .. Len(returned)
        PROVE  HasText(returned[i].token_type, returned[i].span)'
    <3>1. Within(Elements(returned[i].span), Settled)
      BY <1>1 DEF InOrder, Ordered
    <3>2. HasText(returned[i].token_type, returned[i].span)
      BY DEF SpansInv
    <3>3. PICK t, s : t = returned[i].token_type /\ s = returned[i].span
      OBVIOUS
    <3>4. HasText(t, s)'
      BY <1>2, <2>2, <3>1, <3>2, <3>3, HasTextStays
    <3> QED
      BY <2>1, <3>3, <3>4
  <2>5. \A p \in rejected' : input'[p] \notin {"cr", "lf", "colon"}
    BY <1>3, <2>1 DEF Waits, SpansInv, TypeOK
  <2> QED
    BY <2>1, <2>3, <2>4, <2>5 DEF SpansInv
<1>4. CASE Took
  BY <1>4 DEF Took, SpansInv, HasText, IsNewline, Elements
<1>5. CASE Dispatched
  <2>1. /\ Consumed' = Consumed /\ input' = input /\ cur' = cur
        /\ last_char = NO_LAST_CHAR /\ cur \in {EOF, Consumed}
        /\ Settled = IF cur = EOF THEN Consumed ELSE Consumed - 1
        /\ Settled' = IF last_char' = NO_LAST_CHAR THEN Consumed ELSE Consumed - 1
    BY <1>1, <1>5, DispatchSettled
  <2>2. \A t, s : HasText(t, s)' <=> HasText(t, s)
    BY <2>1 DEF HasText, IsNewline, Elements
  <2>3. HasText(detected_token_type, token)
    BY DEF SpansInv
  <2>4. CASE Returns
    BY <1>2, <2>1, <2>3, <2>4, SpansReturn DEF Returns
  <2>9. \/ rejected' = rejected
        \/ rejected' = rejected \cup {cur} /\ input[cur] \notin {"cr", "lf", "colon"}
    BY <1>5 DEF Dispatched, EndsAtEof, Skips, PutsBack, Keeps, Joins, Rejects,
                result_vars
  <2>10. \A p \in rejected' : input'[p] \notin {"cr", "lf", "colon"}
    BY <2>1, <2>9 DEF SpansInv
  <2>5. CASE EmptyStays
    <3>1. /\ UNCHANGED <<token, detected_token_type, returned>>
          /\ detected_token_type = "UNKNOWN"
      BY <2>5 DEF EmptyStays, token_vars, TokenStateOK
    <3> QED
      BY <2>1, <2>2, <3>1, <2>10 DEF SpansInv
  <2>6. CASE cur # EOF /\ Keeps
    <3>1. /\ token' = Append(token, cur) /\ returned' = returned
          /\ last_char' = last_char /\ cur \in Position /\ cur = Consumed
      BY <1>1, <2>1, <2>6 DEF Keeps, result_vars, TypeOK, Position
    <3>2. Elements(token') = Elements(token) \cup {cur}
      BY <1>2, <3>1, ElementsAppend
    <3>3. CASE token = <<>>
      <4>1. Len(token') = 1 /\ token'[1] = cur /\ Elements(token') = {cur}
        BY <3>1, <3>2, <3>3, EmptySeq DEF Elements
      <4>2. Begins(input[cur], detected_token_type')
        BY <2>6, <3>3 DEF Keeps
      <4>3. HasText(detected_token_type', token')
        BY <4>1, <4>2 DEF HasText, Begins
      <4> QED
        BY <2>1, <2>2, <2>10, <3>1, <4>1, <4>3 DEF SpansInv
    <3>4. CASE token # <<>>
      <4>1. Grows(detected_token_type, input[cur], detected_token_type')
        BY <2>6, <3>4 DEF Keeps
      <4>2. HasText(detected_token_type', token')
        BY <2>3, <3>2, <4>1 DEF HasText, Grows
      <4> QED
        BY <2>2, <2>10, <3>1, <4>1, <4>2 DEF SpansInv, Grows
    <3> QED
      BY <3>3, <3>4
  <2>7. CASE cur # EOF /\ Joins
    <3>1. PICK type \in {"COMMA", "COLON", "NEWLINE"} :
            ReturnToken(type, Append(token, cur)) /\ Completes(type)
      BY <2>7 DEF Joins
    <3>2. cur \in Position /\ cur = Consumed
      BY <2>1, <2>7 DEF TypeOK, Position
    <3>3. PICK s : s = Append(token, cur)
      OBVIOUS
    <3>4. /\ s \in Seq(Position) /\ Len(s) = Len(token) + 1
          /\ s[Len(token) + 1] = cur
          /\ \A i \in 1 .. Len(token) : s[i] = token[i]
          /\ Elements(s) = Elements(token) \cup {cur}
      BY <1>2, <3>2, <3>3, AppendProperties, ElementsAppend
    <3>5. HasText(type, s)
      <4>1. CASE token = <<>>
        <5>1. Len(s) = 1 /\ s[1] = cur /\ Elements(s) = {cur}
          BY <3>4, <4>1, EmptySeq DEF Elements
        <5>2. \/ type = "COMMA" /\ input[cur] = "comma"
              \/ type = "COLON" /\ input[cur] = "colon"
          BY <3>1, <4>1, EmptySeq DEF Completes
        <5> QED
          BY <5>1, <5>2 DEF HasText
      <4>2. CASE token # <<>>
        <5>1. /\ type = "NEWLINE" /\ Len(token) = 1
              /\ input[token[1]] = "cr" /\ input[cur] = "lf"
          BY <3>1, <4>2 DEF Completes
        <5>2. token[1] \in Elements(token)
          BY <5>1 DEF Elements
        <5>3. detected_token_type = "NEWLINE"
          BY <2>3, <5>1, <5>2 DEF HasText, TokenStateOK
        <5>4. cur = token[1] + 1
          BY <1>1, <2>1, <2>7, <3>2, <5>3 DEF SpansInv
        <5> QED
          BY <3>4, <5>1, <5>4 DEF HasText
      <4> QED
        BY <4>1, <4>2
    <3> QED
      BY <2>1, <3>1, <3>3, <3>4, <3>5, SpansReturn DEF TokenType
  <2>8. CASE cur # EOF /\ Rejects
    <3>1. UNCHANGED <<token, detected_token_type, returned>>
      BY <2>8 DEF Rejects, token_vars
    <3>2. detected_token_type # "NEWLINE"
      BY <2>8 DEF Rejects, TokenStateOK
    <3> QED
      BY <2>2, <2>10, <3>1, <3>2 DEF SpansInv
  <2> QED
    BY <1>5, <2>4, <2>5, <2>6, <2>7, <2>8
    DEF Dispatched, EndsAtEof, Skips, PutsBack
<1> QED
  BY <1>3, <1>4, <1>5 DEF TokenizerStep
-----------------------------------------------------------------------------
(* The tokenizer's half                                                    *)

(* get_next_token returns EOF with nothing left in its hands.              *)
EofLeft ==
  (pc = "idle" /\ status = EOF) => token = <<>> /\ last_char = NO_LAST_CHAR

ReadInv ==
  TypeOK /\ TokenStateOK /\ NoImpossibleError /\ TextInv /\ SpansInv /\ EofLeft

(* How get_next_token goes on: in its loop, or out of it with a token more, *)
(* with EOF or with an error.                                              *)
ReadsOn ==
  \/ pc' # "idle" /\ UNCHANGED result_vars
  \/ /\ pc' = "idle" /\ status' = 0 /\ rejected' = rejected
     /\ \E t \in Token : returned' = Append(returned, t)
  \/ /\ pc' = "idle" /\ status' = EOF /\ UNCHANGED <<returned, rejected>>
     /\ token' = <<>> /\ last_char' = NO_LAST_CHAR
  \/ pc' = "idle" /\ status' > 0 /\ returned' = returned

LEMMA RunShape ==
  ASSUME TypeOK, HandOK, Fetch \/ Dispatch
  PROVE  pc # "idle" /\ ReadsOn
<1>1. CASE Fetch
  BY <1>1 DEF Fetch, TakeLastChar, TakeBuffered, GrabBuffer, ReadsOn
<1>2. CASE Dispatch
  <2>1. pc = "dispatch" /\ last_char = NO_LAST_CHAR
    BY <1>2 DEF Dispatch, AtEof, SkipComment, NewlineEndsToken, Space,
       BeginComment, Separator, SwitchOnType, InCode, HandOK
  <2>2. CASE Continues
    BY <2>1, <2>2 DEF Continues, ReadsOn
  <2>3. CASE HandsOut
    BY <2>1, <2>3 DEF HandsOut, ReturnToken, TypeOK, Token, ReadsOn
  <2>4. CASE ReturnsEof
    BY <2>1, <2>4 DEF ReturnsEof, ReadsOn
  <2>5. CASE ReturnsError
    BY <2>1, <2>5 DEF ReturnsError, Fail, ReadsOn
  <2> QED
    BY <1>2, <2>2, <2>3, <2>4, <2>5, DispatchReturns
<1> QED
  BY <1>1, <1>2

(* Every step of the client is a step of the tokenizer or none.            *)
LEMMA FrontTokenizer ==
  ASSUME [FrontNext]_all_vars
  PROVE  [Next]_vars
BY DEF FrontNext, Run, Open, Call, RunTokenizer, HandOver, Give, AfterLexError,
       RunParser, AfterParse, GoOn, Next, all_vars, vars

LEMMA EofLeftStep ==
  ASSUME TypeOK, HandOK, EofLeft, [Next]_vars
  PROVE  EofLeft'
<1>1. CASE SetTokenizerFile
  BY <1>1 DEF SetTokenizerFile, EofLeft, token_vars, result_vars
<1>2. CASE CallGetNextToken
  BY <1>2 DEF CallGetNextToken, EofLeft
<1>3. CASE Fetch \/ Dispatch
  <2>1. ReadsOn
    BY <1>3, RunShape
  <2> QED
    BY <2>1 DEF ReadsOn, EofLeft, EOF
<1>4. CASE UNCHANGED vars
  BY <1>4 DEF vars, token_vars, result_vars, EofLeft
<1> QED
  BY <1>1, <1>2, <1>3, <1>4 DEF Next

LEMMA SpansStays ==
  ASSUME SpansInv, UNCHANGED vars
  PROVE  SpansInv'
BY DEF SpansInv, HasText, IsNewline, Elements, Settled, Consumed, vars,
       stream_vars, buffer_vars, token_vars, result_vars

LEMMA ReadStart ==
  ASSUME Init
  PROVE  ReadInv
BY TypeInit, TokenStateInit, TextInit, SpansInit DEF ReadInv, EofLeft, Init

LEMMA ReadStep ==
  ASSUME ReadInv, [FrontNext]_all_vars
  PROVE  ReadInv'
<1>1. [Next]_vars /\ TypeOK /\ TokenStateOK /\ TextInv /\ SpansInv /\ HandOK
      /\ EofLeft
  BY FrontTokenizer DEF ReadInv, TextInv
<1>2. TypeOK' /\ TokenStateOK' /\ NoImpossibleError' /\ TextInv'
  BY <1>1, TypeStep, TokenStateStep, TextStep DEF ReadInv
<1>3. SpansInv'
  <2>1. TokenizerStep \/ UNCHANGED vars
    BY <1>1, ClientWaits, FetchTakes, DispatchShape DEF Next, TokenizerStep
  <2> QED
    BY <1>1, <2>1, SpansStep, SpansStays
<1> QED
  BY <1>1, <1>2, <1>3, EofLeftStep DEF ReadInv

(* The parser's half: whatever it is handed is a token.                    *)
LEMMA FrontParser ==
  ASSUME [FrontNext]_all_vars
  PROVE  [ParserNext]_parser_vars
<1>1. CASE HandOver
  <2>1. ASSUME NEW t \in Tokens, NEW span, Give(t, span)
        PROVE  ParserNext
    BY <2>1 DEF Give, ParserNext
  <2> QED
    BY <1>1, <2>1, SpellingsAssumption DEF HandOver, Spelled
<1>2. CASE RunParser
  BY <1>2 DEF RunParser, ParserNext
<1>3. CASE Open \/ Call \/ RunTokenizer \/ AfterLexError \/ AfterParse
           \/ UNCHANGED all_vars
  BY <1>3 DEF Open, Call, RunTokenizer, AfterLexError, AfterParse, GoOn, all_vars
<1> QED
  BY <1>1, <1>2, <1>3 DEF FrontNext, Run

ParseInv == LineCore /\ AcceptedStatements /\ SourceInv

LEMMA ParseStart ==
  ASSUME ParserInit
  PROVE  ParseInv
<1>1. AcceptedStatements
  BY DEF ParserInit, AcceptedStatements
<1> QED
  BY <1>1, CoreInit, LineInit, SourceStart DEF ParseInv, LineCore

LEMMA ParseStep ==
  ASSUME ParseInv, [FrontNext]_all_vars
  PROVE  ParseInv'
<1>1. [ParserNext]_parser_vars
  BY FrontParser
<1> QED
  BY <1>1, LineCoreStep, AcceptedStep, SourceStep DEF ParseInv
-----------------------------------------------------------------------------
(* What the client hands over                                              *)

GivenToken == [token : InputToken, span : Seq(Position)]

TokenAt(j) == IF j \in 1 .. Len(given) THEN given[j].token ELSE NoToken

(* The parser was given every token returned but the one just returned,    *)
(* and after the last the end of the file; what it holds are the last two. *)
(* Its latest status is 0 as long as nothing is found wrong.               *)
PhaseInv ==
  /\ phase \in {"open", "call", "lex", "parse", "done"}
  /\ phase # "lex" => pc = "idle"
  /\ phase # "parse" => parser_pc = "idle"
  /\ (phase # "parse" /\ ~refused) => parser_status = 0
  /\ phase = "parse" => status \in {0, EOF}
  /\ Accepted => status = EOF

CountInv ==
  /\ phase \in {"open", "call"} => Len(given) = Len(returned)
  /\ phase = "lex" =>
       Len(given) = IF pc = "idle" /\ status = 0 THEN Len(returned) - 1
                                                ELSE Len(returned)
  /\ phase = "parse" \/ Accepted =>
       Len(given) = IF status = EOF THEN Len(returned) + 1 ELSE Len(returned)

GivenInv ==
  /\ given \in Seq(GivenToken)
  /\ \A j \in 1 .. Len(given) :
       IF j <= Len(returned)
       THEN /\ given[j].span = returned[j].span
            /\ given[j].token.token_type = returned[j].token_type
       ELSE given[j].span = <<>> /\ given[j].token = EofToken
  /\ calls = Len(given)
  /\ curr_token = TokenAt(Len(given))
  /\ prev_token = TokenAt(Len(given) - 1)

HandInv == PhaseInv /\ CountInv /\ GivenInv

LEMMA HandStart ==
  ASSUME FrontInit
  PROVE  HandInv
<1>1. /\ phase = "open" /\ pc = "idle" /\ parser_pc = "idle" /\ parser_status = 0
      /\ given = <<>> /\ returned = <<>> /\ calls = 0
      /\ curr_token = NoToken /\ prev_token = NoToken
  BY DEF FrontInit, Init, ParserInit
<1>2. Len(<<>>) = 0 /\ <<>> \in Seq(GivenToken)
  BY EmptySeq
<1> QED
  BY <1>1, <1>2 DEF HandInv, PhaseInv, CountInv, GivenInv, TokenAt, Accepted

(* A step that hands nothing over and returns nothing.                     *)
LEMMA GivenStays ==
  ASSUME GivenInv, UNCHANGED <<given, returned, input_vars>>
  PROVE  GivenInv'
BY DEF GivenInv, TokenAt, input_vars

LEMMA GivenReturn ==
  ASSUME GivenInv, TypeOK, Len(given) <= Len(returned), NEW t \in Token,
         returned' = Append(returned, t), UNCHANGED <<given, input_vars>>
  PROVE  GivenInv' /\ Len(returned') = Len(returned) + 1 /\ Len(returned) \in Nat
<1>1. /\ Len(returned') = Len(returned) + 1 /\ Len(returned) \in Nat
      /\ \A i \in 1 .. Len(returned) : returned'[i] = returned[i]
  BY AppendProperties, LenProperties DEF TypeOK
<1>2. Len(given) \in Nat
  BY LenProperties DEF GivenInv
<1>3. \A j \in 1 .. Len(given) : j \in 1 .. Len(returned) /\ j <= Len(returned')
  BY <1>1, <1>2
<1> QED
  BY <1>1, <1>3 DEF GivenInv, TokenAt, input_vars

LEMMA GivenMore ==
  ASSUME GivenInv, TypeOK, NEW t \in Tokens, NEW span \in Seq(Position),
         Give(t, span), Len(given) <= Len(returned),
         IF Len(given) < Len(returned)
         THEN /\ span = returned[Len(given) + 1].span
              /\ t.token_type = returned[Len(given) + 1].token_type
         ELSE span = <<>> /\ t = EofToken
  PROVE  /\ GivenInv'
         /\ Len(given') = Len(given) + 1
         /\ given'[Len(given) + 1].token = t
         /\ \A j \in 1 .. Len(given) : given'[j] = given[j]
<1> DEFINE g == [token |-> t, span |-> span]
<1>1. /\ given' = Append(given, g) /\ given \in Seq(GivenToken)
      /\ returned' = returned /\ calls' = calls + 1
      /\ prev_token' = curr_token /\ curr_token' = t
  BY DEF Give, GivenInv, ParseOneToken, vars, result_vars
<1>2. g \in GivenToken /\ g.token = t /\ g.span = span
  BY TokenTypes DEF GivenToken
<1> HIDE DEF g
<1>3. /\ given' \in Seq(GivenToken)
      /\ Len(given') = Len(given) + 1 /\ given'[Len(given) + 1] = g
      /\ \A j \in 1 .. Len(given) : given'[j] = given[j]
      /\ Len(given) \in Nat
  BY <1>1, <1>2, AppendProperties, LenProperties
<1>4. Len(returned) \in Nat
  BY LenProperties DEF TypeOK
<1>5. ASSUME NEW j \in 1 .. Len(given')
      PROVE  IF j <= Len(returned)
             THEN /\ given'[j].span = returned[j].span
                  /\ given'[j].token.token_type = returned[j].token_type
             ELSE given'[j].span = <<>> /\ given'[j].token = EofToken
  <2>1. CASE j = Len(given) + 1
    BY <1>2, <1>3, <1>4, <2>1
  <2>2. CASE j # Len(given) + 1
    <3>1. j \in 1 .. Len(given) /\ given'[j] = given[j]
      BY <1>3, <2>2
    <3> QED
      BY <3>1 DEF GivenInv
  <2> QED
    BY <2>1, <2>2
<1>6. /\ calls' = Len(given') /\ curr_token' = TokenAt(Len(given))'
      /\ prev_token' = TokenAt(Len(given) - 1)'
  <2>1. TokenAt(Len(given))' = t
    BY <1>2, <1>3 DEF TokenAt
  <2>2. TokenAt(Len(given) - 1)' = TokenAt(Len(given))
    BY <1>3 DEF TokenAt
  <2> QED
    BY <1>1, <1>3, <2>1, <2>2 DEF GivenInv
<1> QED
  BY <1>1, <1>2, <1>3, <1>5, <1>6 DEF GivenInv

(* One fact per action of the client.                                      *)
LEMMA OpenHands ==
  ASSUME HandInv, Open \/ Call
  PROVE  HandInv'
<1>1. /\ phase \in {"open", "call"} /\ phase' \in {"call", "lex"}
      /\ pc = "idle" /\ parser_pc = "idle"
      /\ UNCHANGED <<parser_vars, given, refused, returned, status>>
      /\ phase' = "call" => pc' = "idle"
      /\ phase' = "lex" => pc' = "fetch"
  BY DEF Open, Call, SetTokenizerFile, CallGetNextToken, result_vars, HandInv,
         PhaseInv
<1>2. UNCHANGED <<input_vars, parser_pc, parser_status>>
  BY <1>1 DEF parser_vars
<1>3. GivenInv'
  BY <1>1, <1>2, GivenStays DEF HandInv
<1>4. PhaseInv'
  BY <1>1, <1>2 DEF HandInv, PhaseInv, Accepted
<1>5. CountInv'
  BY <1>1, <1>2 DEF HandInv, PhaseInv, CountInv, Accepted
<1> QED
  BY <1>3, <1>4, <1>5 DEF HandInv

LEMMA RunTokenizerHands ==
  ASSUME ReadInv, HandInv, RunTokenizer
  PROVE  HandInv'
<1>1. /\ TypeOK /\ HandOK /\ Len(returned) \in Nat
      /\ phase = "lex" /\ phase' = "lex"
      /\ UNCHANGED <<parser_vars, given, refused>>
  BY LenProperties DEF ReadInv, TextInv, TypeOK, RunTokenizer
<1>2. pc # "idle" /\ ReadsOn
  BY <1>1, RunShape DEF RunTokenizer
<1>3. UNCHANGED <<input_vars, parser_pc, parser_status>>
  BY <1>1 DEF parser_vars
<1>4. Len(given) = Len(returned)
  BY <1>1, <1>2 DEF HandInv, CountInv
<1>5. PhaseInv'
  BY <1>1, <1>3 DEF HandInv, PhaseInv, Accepted
<1>6. CASE \E t \in Token : returned' = Append(returned, t) /\ status' = 0
                            /\ pc' = "idle"
  <2>1. GivenInv' /\ Len(returned') = Len(returned) + 1
    BY <1>1, <1>3, <1>4, <1>6, GivenReturn DEF HandInv
  <2> QED
    BY <1>1, <1>4, <1>5, <1>6, <2>1 DEF HandInv, CountInv, Accepted
<1>7. CASE returned' = returned /\ ~(pc' = "idle" /\ status' = 0)
  <2>1. GivenInv'
    BY <1>1, <1>3, <1>7, GivenStays DEF HandInv
  <2> QED
    BY <1>1, <1>4, <1>5, <1>7, <2>1 DEF HandInv, CountInv, Accepted
<1> QED
  BY <1>2, <1>6, <1>7 DEF ReadsOn, result_vars, EOF

LEMMA HandOverShape ==
  ASSUME ReadInv, HandInv, HandOver
  PROVE  /\ GivenInv' /\ Len(given') = Len(given) + 1
         /\ \A j \in 1 .. Len(given) : given'[j] = given[j]
         /\ Len(given') = IF status = EOF THEN Len(returned) + 1 ELSE Len(returned)
         /\ status \in {0, EOF} /\ phase = "lex" /\ phase' = "parse"
         /\ UNCHANGED <<vars, refused>>
         /\ \E t \in Tokens : ParseOneToken(t)
<1>1. /\ TypeOK /\ GivenInv /\ Len(returned) \in Nat /\ Len(given) \in Nat
      /\ phase = "lex" /\ pc = "idle"
  BY LenProperties DEF ReadInv, TypeOK, HandInv, GivenInv, HandOver
<1>2. CASE status = 0
  <2>1. PICK s \in Spelled(returned[Len(returned)].token_type) :
               Give(s, returned[Len(returned)].span)
    BY <1>2 DEF HandOver, EOF
  <2>2. Len(given) = Len(returned) - 1
    BY <1>1, <1>2 DEF HandInv, CountInv
  <2>3. PICK span : span = returned[Len(returned)].span
    OBVIOUS
  <2>4. /\ span \in Seq(Position) /\ s \in Tokens
        /\ s.token_type = returned[Len(returned)].token_type
    BY <1>1, <2>1, <2>2, <2>3, TokenSpans DEF TypeOK, Spelled
  <2>5. Give(s, span) /\ Len(given) + 1 = Len(returned)
    BY <1>1, <2>1, <2>2, <2>3
  <2>6. /\ GivenInv' /\ Len(given') = Len(given) + 1
        /\ \A j \in 1 .. Len(given) : given'[j] = given[j]
    BY ONLY <1>1, <2>3, <2>4, <2>5, GivenMore
  <2> QED
    BY <1>1, <1>2, <2>4, <2>5, <2>6 DEF Give, EOF
<1>3. CASE status = EOF
  <2>1. Give(EofToken, <<>>)
    BY <1>3 DEF HandOver, EOF
  <2>2. Len(given) = Len(returned)
    BY <1>1, <1>3 DEF HandInv, CountInv, EOF
  <2>3. PICK t, span : t = EofToken /\ span = <<>>
    OBVIOUS
  <2>4. t \in Tokens /\ span \in Seq(Position) /\ Give(t, span)
    BY <2>1, <2>3, SpellingsAssumption
  <2>5. Len(given) <= Len(returned) /\ ~(Len(given) < Len(returned))
    BY <1>1, <2>2
  <2>6. /\ GivenInv' /\ Len(given') = Len(given) + 1
        /\ \A j \in 1 .. Len(given) : given'[j] = given[j]
    BY ONLY <1>1, <2>3, <2>4, <2>5, GivenMore
  <2> QED
    BY <1>1, <1>3, <2>2, <2>4, <2>6 DEF Give
<1> QED
  BY <1>2, <1>3 DEF HandOver

LEMMA HandOverHands ==
  ASSUME ReadInv, HandInv, HandOver
  PROVE  HandInv'
<1>1. /\ GivenInv' /\ Len(given') = Len(given) + 1
      /\ Len(given') = IF status = EOF THEN Len(returned) + 1 ELSE Len(returned)
      /\ status \in {0, EOF} /\ phase' = "parse"
      /\ UNCHANGED <<vars, refused>>
  BY HandOverShape
<1>2. pc = "idle" /\ UNCHANGED <<pc, status, returned>>
  BY <1>1 DEF HandOver, vars, result_vars
<1> QED
  BY <1>1, <1>2 DEF HandInv, PhaseInv, CountInv, Accepted

LEMMA GoOnHands ==
  ASSUME ReadInv, HandInv, AfterLexError \/ AfterParse
  PROVE  HandInv'
<1>1. /\ UNCHANGED <<vars, parser_vars, given>>
      /\ UNCHANGED <<input_vars, parser_pc, parser_status, pc, status, returned>>
  BY DEF AfterLexError, AfterParse, GoOn, vars, result_vars, parser_vars
<1>2. GivenInv'
  BY <1>1, GivenStays DEF HandInv
<1>3. CASE AfterLexError
  <2>1. /\ phase = "lex" /\ pc = "idle" /\ status > 0 /\ refused' = TRUE
        /\ phase' \in {"call", "done"}
    BY <1>3 DEF AfterLexError, GoOn
  <2> QED
    BY <1>1, <1>2, <2>1
    DEF HandInv, PhaseInv, CountInv, Accepted, ReadInv, TypeOK, EOF
<1>4. CASE AfterParse
  <2>1. /\ phase = "parse" /\ parser_pc = "idle"
        /\ refused' = (refused \/ parser_status # 0)
        /\ phase' \in {"call", "done"}
        /\ phase' = "call" => status # EOF
        /\ phase' = "done" => status = EOF \/ parser_status # 0
    BY <1>4 DEF AfterParse, GoOn
  <2>2. pc = "idle" /\ status \in {0, EOF}
    BY <2>1 DEF HandInv, PhaseInv
  <2>3. ASSUME phase' = "done", ~refused' PROVE status = EOF
    BY <2>1, <2>3
  <2> QED
    BY <1>1, <1>2, <2>1, <2>2, <2>3 DEF HandInv, PhaseInv, CountInv, Accepted, EOF
<1> QED
  BY <1>3, <1>4

LEMMA RunParserHands ==
  ASSUME HandInv, RunParser
  PROVE  HandInv'
<1>1. /\ phase = "parse" /\ UNCHANGED <<vars, phase, given, refused>>
      /\ UNCHANGED <<input_vars, pc, status, returned>>
  BY DEF RunParser, Handle, vars, result_vars
<1>2. GivenInv'
  BY <1>1, GivenStays DEF HandInv
<1> QED
  BY <1>1, <1>2 DEF HandInv, PhaseInv, CountInv, Accepted

LEMMA HandsStep ==
  ASSUME ReadInv, HandInv, [FrontNext]_all_vars
  PROVE  HandInv'
<1>1. CASE UNCHANGED all_vars
  <2>1. UNCHANGED <<phase, given, refused, returned, status, pc, input_vars,
                    parser_pc, parser_status>>
    BY <1>1 DEF all_vars, vars, result_vars, parser_vars
  <2>2. GivenInv'
    BY <2>1, GivenStays DEF HandInv
  <2> QED
    BY <2>1, <2>2 DEF HandInv, PhaseInv, CountInv, Accepted
<1> QED
  BY <1>1, OpenHands, RunTokenizerHands, HandOverHands, GoOnHands, RunParserHands
  DEF FrontNext, Run

(* What is rejected the client knows of, at once or already.               *)
RejectInv ==
  \/ rejected = {}
  \/ refused
  \/ phase = "lex" /\ pc = "idle" /\ status > 0

LEMMA RejectStart ==
  ASSUME FrontInit
  PROVE  RejectInv
BY DEF FrontInit, Init, RejectInv

LEMMA RejectStep ==
  ASSUME ReadInv, RejectInv, [FrontNext]_all_vars
  PROVE  RejectInv'
<1>1. CASE RunTokenizer
  <2>1. /\ TypeOK /\ HandOK /\ phase' = "lex" /\ refused' = refused
    BY <1>1 DEF ReadInv, TextInv, RunTokenizer
  <2>2. pc # "idle" /\ ReadsOn
    BY <1>1, <2>1, RunShape DEF RunTokenizer
  <2>3. rejected = {} \/ refused
    BY <2>2 DEF RejectInv
  <2>4. rejected' = rejected \/ (pc' = "idle" /\ status' > 0)
    BY <2>2 DEF ReadsOn, result_vars
  <2> QED
    BY <2>1, <2>3, <2>4, Zenon DEF RejectInv
<1>2. CASE AfterLexError
  BY <1>2 DEF AfterLexError, GoOn, RejectInv
<1>3. CASE Open \/ Call \/ HandOver \/ RunParser \/ AfterParse
  <2>1. rejected' = rejected
    BY <1>3 DEF Open, Call, HandOver, Give, RunParser, AfterParse, GoOn, vars,
                SetTokenizerFile, CallGetNextToken, result_vars
  <2>2. ~(phase = "lex" /\ pc = "idle" /\ status > 0)
    BY <1>3 DEF Open, Call, HandOver, RunParser, AfterParse, EOF
  <2>3. rejected = {} \/ refused
    BY <2>2 DEF RejectInv
  <2>4. refused' = refused \/ \E error : refused' = (refused \/ error)
    BY <1>3 DEF Open, Call, HandOver, Give, RunParser, AfterParse, GoOn
  <2>5. rejected' = {} \/ refused'
    BY <2>1, <2>3, <2>4, Zenon
  <2> QED
    BY <2>5 DEF RejectInv
<1>4. CASE UNCHANGED all_vars
  BY <1>4 DEF all_vars, vars, result_vars, RejectInv
<1> QED
  BY <1>1, <1>2, <1>3, <1>4 DEF FrontNext, Run
-----------------------------------------------------------------------------
(* What the parser has made of the tokens                                  *)

(* Statements end at these, whatever they are.                             *)
EndsStatement(t) == t.token_type \in {"NEWLINE", "COLON", "EOF"}

(* The tokens l are those of gs from the p-th on.                          *)
TokensFrom(gs, p, l) == \A i \in 1 .. Len(l) : gs[p + i - 1].token = l[i]

(* The first n tokens of gs are those of the statements ls, the k-th from  *)
(* first[k] on, and behind them those of l.                                *)
Cuts(first, gs, n, ls, l) ==
  /\ first \in [1 .. Len(ls) + 1 -> Nat \ {0}] /\ first[1] = 1
  /\ \A k \in 1 .. Len(ls) :
       /\ first[k + 1] = first[k] + Len(ls[k].tokens)
       /\ first[k + 1] <= n + 1
       /\ TokensFrom(gs, first[k], ls[k].tokens)
  /\ first[Len(ls) + 1] + Len(l) = n + 1
  /\ TokensFrom(gs, first[Len(ls) + 1], l)

(* Of the first n tokens, every one behind the end of a statement is an    *)
(* identifier, and behind the last there is no more if it is such an end.  *)
Follow(gs, n, l) ==
  /\ \A j \in 1 .. n : (j = 1 \/ EndsStatement(gs[j - 1].token)) =>
                          Identifier(gs[j].token)
  /\ (n = 0 \/ EndsStatement(gs[n].token)) => l = <<>>

Line == [tokens : Seq(InputToken), clean : BOOLEAN]

LEMMA CutsGiven ==
  ASSUME NEW first, NEW gs, NEW hs, NEW n \in Nat, NEW ls \in Seq(Line),
         NEW l \in Seq(InputToken), Cuts(first, gs, n, ls, l),
         \A j \in 1 .. n : hs[j] = gs[j]
  PROVE  Cuts(first, hs, n, ls, l)
<1>1. Len(ls) \in Nat /\ Len(l) \in Nat
      /\ \A k \in 1 .. Len(ls) : Len(ls[k].tokens) \in Nat
  <2>1. \A k \in 1 .. Len(ls) : ls[k] \in Line
    BY ElementOfSeq
  <2> QED
    BY <2>1, LenProperties DEF Line
<1>2. \A k \in 1 .. Len(ls) + 1 : first[k] \in Nat /\ first[k] >= 1
  <2>1. first \in [1 .. Len(ls) + 1 -> Nat \ {0}]
    BY DEF Cuts
  <2>2. \A x \in Nat \ {0} : x \in Nat /\ x >= 1
    OBVIOUS
  <2> QED
    BY <2>1, <2>2
<1>3. ASSUME NEW p \in Nat, p >= 1, NEW s, Len(s) \in Nat, p + Len(s) <= n + 1,
             TokensFrom(gs, p, s)
      PROVE  TokensFrom(hs, p, s)
  <2>1. \A i \in 1 .. Len(s) : p + i - 1 \in 1 .. n
    BY <1>3
  <2> QED
    BY <1>3, <2>1 DEF TokensFrom
<1>4. ASSUME NEW k \in 1 .. Len(ls)
      PROVE  TokensFrom(hs, first[k], ls[k].tokens)
  <2>1. first[k] \in Nat /\ first[k] >= 1 /\ Len(ls[k].tokens) \in Nat
    BY <1>1, <1>2
  <2>2. first[k] + Len(ls[k].tokens) <= n + 1 /\ TokensFrom(gs, first[k], ls[k].tokens)
    BY DEF Cuts
  <2> QED
    BY <1>3, <2>1, <2>2
<1>5. TokensFrom(hs, first[Len(ls) + 1], l)
  <2>1. Len(ls) + 1 \in 1 .. Len(ls) + 1
    BY <1>1
  <2>2. first[Len(ls) + 1] \in Nat /\ first[Len(ls) + 1] >= 1
    BY <1>2, <2>1
  <2>3. first[Len(ls) + 1] + Len(l) <= n + 1 /\ TokensFrom(gs, first[Len(ls) + 1], l)
    BY <1>1, <2>2 DEF Cuts
  <2> QED
    BY <1>1, <1>3, <2>2, <2>3
<1> QED
  BY <1>4, <1>5 DEF Cuts

LEMMA CutsTake ==
  ASSUME NEW first, NEW gs, NEW n \in Nat, NEW ls \in Seq(Line),
         NEW l \in Seq(InputToken), NEW t \in InputToken,
         Cuts(first, gs, n, ls, l), gs[n + 1].token = t
  PROVE  Cuts(first, gs, n + 1, ls, Append(l, t))
<1>1. Len(ls) \in Nat /\ Len(l) \in Nat
  BY LenProperties
<1>2. PICK m : m = Append(l, t)
  OBVIOUS
<1>3. /\ Len(m) = Len(l) + 1 /\ m[Len(l) + 1] = t
      /\ \A i \in 1 .. Len(l) : m[i] = l[i]
  BY <1>2, AppendProperties
<1>4. first[Len(ls) + 1] \in Nat /\ first[Len(ls) + 1] + Len(l) = n + 1
      /\ TokensFrom(gs, first[Len(ls) + 1], l)
  <2>1. Len(ls) + 1 \in 1 .. Len(ls) + 1
    BY <1>1
  <2> QED
    BY <2>1 DEF Cuts
<1>5. TokensFrom(gs, first[Len(ls) + 1], m)
  <2> SUFFICES ASSUME NEW i \in 1 .. Len(m)
               PROVE  gs[first[Len(ls) + 1] + i - 1].token = m[i]
    BY DEF TokensFrom
  <2>1. CASE i = Len(l) + 1
    <3>1. first[Len(ls) + 1] + i - 1 = n + 1
      BY <1>1, <1>4, <2>1
    <3> QED
      BY <1>3, <2>1, <3>1
  <2>2. CASE i # Len(l) + 1
    <3>1. i \in 1 .. Len(l)
      BY <1>1, <1>3, <2>2
    <3> QED
      BY <1>3, <1>4, <3>1 DEF TokensFrom
  <2> QED
    BY <2>1, <2>2
<1>6. first[Len(ls) + 1] + Len(m) = n + 2
  BY <1>1, <1>3, <1>4
<1>7. ASSUME NEW k \in 1 .. Len(ls)
      PROVE  first[k + 1] <= n + 2
  <2>1. k + 1 \in 1 .. Len(ls) + 1
    BY <1>1
  <2>2. first[k + 1] \in Nat /\ first[k + 1] <= n + 1
    BY <2>1 DEF Cuts
  <2> QED
    BY <2>2
<1>8. Cuts(first, gs, n + 1, ls, m)
  BY <1>5, <1>6, <1>7 DEF Cuts
<1> QED
  BY <1>2, <1>8

LEMMA CutsEnd ==
  ASSUME NEW first, NEW gs, NEW n \in Nat, NEW ls \in Seq(Line),
         NEW l \in Seq(InputToken), NEW x \in Line, x.tokens = l,
         Cuts(first, gs, n, ls, l)
  PROVE  \E f : Cuts(f, gs, n, Append(ls, x), <<>>)
<1>1. Len(ls) \in Nat /\ Len(l) \in Nat /\ Len(<<>>) = 0
  BY LenProperties, EmptySeq
<1>2. PICK ms : ms = Append(ls, x)
  OBVIOUS
<1>3. /\ Len(ms) = Len(ls) + 1 /\ ms[Len(ls) + 1] = x
      /\ \A i \in 1 .. Len(ls) : ms[i] = ls[i]
  BY <1>2, AppendProperties
<1> DEFINE N == Len(ls)
           f == [k \in 1 .. Len(ms) + 1 |-> IF k <= N + 1 THEN first[k] ELSE n + 1]
<1>4. /\ first \in [1 .. N + 1 -> Nat \ {0}] /\ first[1] = 1
      /\ first[N + 1] + Len(l) = n + 1
      /\ TokensFrom(gs, first[N + 1], l)
  BY DEF Cuts
<1>5. f \in [1 .. Len(ms) + 1 -> Nat \ {0}]
  BY <1>1, <1>3, <1>4
<1>6. f[N + 2] = n + 1 /\ \A k \in 1 .. N + 1 : f[k] = first[k]
  BY <1>1, <1>3
<1> HIDE DEF f
<1>7. ASSUME NEW k \in 1 .. N + 1
      PROVE  /\ f[k + 1] = f[k] + Len(ms[k].tokens)
             /\ f[k + 1] <= n + 1
             /\ TokensFrom(gs, f[k], ms[k].tokens)
  <2>1. CASE k = N + 1
    BY <1>1, <1>3, <1>4, <1>6, <2>1
  <2>2. CASE k # N + 1
    <3>1. k \in 1 .. N /\ k + 1 \in 1 .. N + 1 /\ ms[k] = ls[k]
      BY <1>1, <1>3, <2>2
    <3>2. f[k] = first[k] /\ f[k + 1] = first[k + 1]
      BY <1>6, <3>1
    <3> QED
      BY <3>1, <3>2 DEF Cuts
  <2> QED
    BY <2>1, <2>2
<1>8. TokensFrom(gs, f[N + 2], <<>>)
  BY <1>1 DEF TokensFrom
<1>9. f[1] = 1
  BY <1>1, <1>4, <1>6
<1>10. Cuts(f, gs, n, ms, <<>>)
  <2>1. Len(ms) + 1 = N + 2
    BY <1>1, <1>3
  <2> QED
    BY <1>1, <1>3, <1>5, <1>6, <1>7, <1>8, <1>9, <2>1 DEF Cuts
<1> QED
  BY <1>2, <1>10

LEMMA FollowGiven ==
  ASSUME NEW gs, NEW hs, NEW n \in Nat, NEW l, Follow(gs, n, l),
         \A j \in 1 .. n : hs[j] = gs[j]
  PROVE  Follow(hs, n, l)
<1>1. \A j \in 1 .. n : j = 1 \/ j - 1 \in 1 .. n
  OBVIOUS
<1>2. n = 0 \/ n \in 1 .. n
  OBVIOUS
<1> QED
  BY <1>1, <1>2 DEF Follow

LEMMA FollowTake ==
  ASSUME NEW gs, NEW n \in Nat, NEW l, NEW m, Follow(gs, n, l),
         l = <<>> => Identifier(gs[n + 1].token),
         EndsStatement(gs[n + 1].token) => m = <<>>
  PROVE  Follow(gs, n + 1, m)
<1>1. ASSUME NEW j \in 1 .. n + 1, j = 1 \/ EndsStatement(gs[j - 1].token)
      PROVE  Identifier(gs[j].token)
  <2>1. CASE j = n + 1
    <3>1. n = 0 \/ EndsStatement(gs[n].token)
      BY <1>1, <2>1
    <3> QED
      BY <2>1, <3>1 DEF Follow
  <2>2. CASE j # n + 1
    <3>1. j \in 1 .. n
      BY <2>2
    <3> QED
      BY <1>1, <3>1 DEF Follow
  <2> QED
    BY <2>1, <2>2
<1> QED
  BY <1>1 DEF Follow
(* How many of the tokens given the parser has accepted or refused for     *)
(* good: all but the one it is at or has just refused.                     *)
Processed ==
  IF parser_pc = "loop" \/ parser_status # 0 THEN Len(given) - 1 ELSE Len(given)

CleanInv ==
  /\ (parser_pc = "loop" \/ parser_status = 0) => clean
  /\ \A k \in 1 .. Len(lines) : lines[k].clean

LinesInv == \E first : Cuts(first, given, Processed, lines, line)

FollowInv == Follow(given, Processed, line)

(* The pushes, and the colons there was memory for.                        *)
PushInv ==
  /\ \A i \in 1 .. Len(pushed) :
       /\ pushed[i].call \in 1 .. Processed
       /\ pushed[i].fed[1] = TokenAt(pushed[i].call - 1)
       /\ pushed[i].fed[2] = TokenAt(pushed[i].call)
  /\ lost = 0 =>
       \A c \in 1 .. Processed : given[c].token.token_type = "COLON" =>
         \E i \in 1 .. Len(pushed) : pushed[i].call = c

ParsedInv ==
  ~refused => Processed \in Nat /\ CleanInv /\ LinesInv /\ FollowInv /\ PushInv

LEMMA ParsedStart ==
  ASSUME FrontInit
  PROVE  ParsedInv
<1>1. /\ given = <<>> /\ lines = <<>> /\ line = <<>> /\ pushed = <<>> /\ clean
      /\ parser_pc = "idle" /\ parser_status = 0 /\ Len(<<>>) = 0
  BY EmptySeq DEF FrontInit, ParserInit
<1>2. Processed = 0
  BY <1>1 DEF Processed
<1>3. CleanInv /\ FollowInv /\ PushInv
  BY <1>1, <1>2 DEF CleanInv, FollowInv, Follow, PushInv
<1>4. Cuts([k \in 1 .. 1 |-> 1], <<>>, 0, <<>>, <<>>)
  BY <1>1 DEF Cuts, TokensFrom
<1>5. LinesInv
  BY <1>1, <1>2, <1>4 DEF LinesInv
<1> QED
  BY <1>2, <1>3, <1>5 DEF ParsedInv

LEMMA ParsedStays ==
  ASSUME ParsedInv, ~refused' => ~refused, UNCHANGED <<parser_vars, given>>
  PROVE  ParsedInv'
<1>1. /\ UNCHANGED <<given, lines, line, pushed, lost, clean, parser_pc,
                     parser_status>>
  BY DEF parser_vars, history_vars, vector_vars
<1>2. Processed' = Processed
  BY <1>1 DEF Processed
<1>3. LinesInv => LinesInv'
  BY <1>1, <1>2 DEF LinesInv
<1>4. FollowInv => FollowInv'
  BY <1>1, <1>2 DEF FollowInv
<1>5. CleanInv /\ PushInv => CleanInv' /\ PushInv'
  BY <1>1, <1>2 DEF CleanInv, PushInv, TokenAt
<1> QED
  BY <1>2, <1>3, <1>4, <1>5 DEF ParsedInv

(* What the proofs of the next steps take from the types.                  *)
LEMMA ParsedTypes ==
  ASSUME ParseInv, HandInv
  PROVE  /\ lines \in Seq(Line) /\ line \in Seq(InputToken)
         /\ curr_token \in InputToken /\ clean \in BOOLEAN
         /\ Len(given) \in Nat /\ Len(pushed) \in Nat /\ lost \in Nat
         /\ given \in Seq(GivenToken)
         /\ pushed \in Seq([call : Nat, fed : InputToken \X InputToken])
BY LenProperties
DEF ParseInv, LineCore, Core, LineTypes, InputTypes, VectorTypes, HandInv,
    GivenInv, Line

LEMMA ParsedGive ==
  ASSUME ReadInv, ParseInv, HandInv, ParsedInv, HandOver
  PROVE  ParsedInv'
<1> SUFFICES ASSUME ~refused'
             PROVE  Processed' \in Nat /\ CleanInv' /\ LinesInv' /\ FollowInv'
                    /\ PushInv'
  BY DEF ParsedInv
<1>1. /\ Len(given') = Len(given) + 1
      /\ \A j \in 1 .. Len(given) : given'[j] = given[j]
      /\ phase = "lex" /\ UNCHANGED refused
  BY HandOverShape
<1>2. PICK t \in Tokens : ParseOneToken(t)
  BY HandOverShape
<1>3. /\ parser_pc = "idle" /\ parser_pc' = "loop"
      /\ UNCHANGED <<lines, line, clean, pushed, lost>>
  BY <1>2 DEF ParseOneToken, history_vars, vector_vars
<1>4. parser_status = 0 /\ ~refused
  BY <1>1 DEF HandInv, PhaseInv
<1>5. /\ lines \in Seq(Line) /\ line \in Seq(InputToken) /\ Len(given) \in Nat
      /\ given \in Seq(GivenToken)
      /\ pushed \in Seq([call : Nat, fed : InputToken \X InputToken])
  BY ParsedTypes
<1>6. Processed = Len(given) /\ Processed' = Processed /\ Processed \in Nat
  BY <1>1, <1>3, <1>4, <1>5 DEF Processed
<1>7. CleanInv'
  BY <1>3, <1>4 DEF ParsedInv, CleanInv
<1>8. LinesInv'
  <2>1. PICK first : Cuts(first, given, Processed, lines, line)
    BY <1>4 DEF ParsedInv, LinesInv
  <2>2. Cuts(first, given', Processed, lines, line)
    BY <1>1, <1>5, <1>6, <2>1, CutsGiven
  <2> QED
    BY <1>3, <1>6, <2>2 DEF LinesInv
<1>9. FollowInv'
  <2>1. Follow(given, Processed, line)
    BY <1>4 DEF ParsedInv, FollowInv
  <2>2. Follow(given', Processed, line)
    BY <1>1, <1>6, <2>1, FollowGiven
  <2> QED
    BY <1>3, <1>6, <2>2 DEF FollowInv
<1>10. PushInv'
  <2>1. \A j \in Int : j <= Len(given) => TokenAt(j)' = TokenAt(j)
    BY <1>1, <1>5 DEF TokenAt
  <2>2. ASSUME NEW i \in 1 .. Len(pushed)
        PROVE  /\ pushed[i].call \in 1 .. Processed
               /\ pushed[i].fed[1] = TokenAt(pushed[i].call - 1)'
               /\ pushed[i].fed[2] = TokenAt(pushed[i].call)'
    <3>1. /\ pushed[i].call \in 1 .. Processed
          /\ pushed[i].fed[1] = TokenAt(pushed[i].call - 1)
          /\ pushed[i].fed[2] = TokenAt(pushed[i].call)
      BY <1>4 DEF ParsedInv, PushInv
    <3>2. PICK c \in Int : c = pushed[i].call /\ c <= Len(given)
      BY <1>6, <3>1
    <3>3. TokenAt(c)' = TokenAt(c) /\ TokenAt(c - 1)' = TokenAt(c - 1)
      BY <1>5, <2>1, <3>2
    <3>4. pushed'[i] = pushed[i]
      BY <1>3
    <3> QED
      BY <3>1, <3>2, <3>3, <3>4 DEF TokenAt
  <2>3. ASSUME lost = 0, NEW c \in 1 .. Processed,
               given'[c].token.token_type = "COLON"
        PROVE  \E i \in 1 .. Len(pushed) : pushed[i].call = c
    BY <1>1, <1>4, <1>6, <2>3 DEF ParsedInv, PushInv
  <2> QED
    BY <1>3, <1>6, <2>2, <2>3 DEF PushInv
<1> QED
  BY <1>6, <1>7, <1>8, <1>9, <1>10
(* A pass of the loop leaves the tokens accepted as they are, or accepts   *)
(* one more; the first of a statement is an identifier, and a colon is     *)
(* accepted only where its label is pushed.                                *)
Leaves ==
  /\ UNCHANGED <<lines, line, vector_vars>>
  /\ \/ parser_pc' = "loop" /\ UNCHANGED <<parser_status, clean>>
     \/ parser_pc' = "idle" /\ parser_status' # 0

AcceptsMore ==
  /\ ~EndsStatement(curr_token)
  /\ line' = Append(line, curr_token) /\ UNCHANGED <<lines, clean>>

AcceptsLast ==
  /\ EndsStatement(curr_token) /\ line # <<>>
  /\ line' = <<>> /\ clean'
  /\ lines' = Append(lines, [tokens |-> Append(line, curr_token), clean |-> clean])

Accepts ==
  /\ parser_pc' = "idle" /\ parser_status' = 0
  /\ line = <<>> => Identifier(curr_token)
  /\ AcceptsMore \/ AcceptsLast
  /\ \/ curr_token.token_type # "COLON" /\ UNCHANGED vector_vars
     \/ \E s \in Stmt : Push(s)

LEMMA PassShape ==
  ASSUME LineCore, Handle
  PROVE  Leaves \/ Accepts
<1>1. Core /\ LineOfState /\ Flow /\ parser_pc = "loop"
      /\ UNCHANGED input_vars
  BY HandleStep DEF LineCore, LineInv
<1>2. Len(<<>>) = 0
  BY EmptySeq
<1>3. ASSUME NEW next, Await(next)
      PROVE  parser_pc' = "idle" /\ parser_status' = 0
  BY <1>3 DEF Await
<1>4. ASSUME NEW next, Await(next), next \notin {"INIT", "DONE"},
             curr_token.token_type \in {"IDENTIFIER", "INT", "FLOAT", "COMMA"}
      PROVE  AcceptsMore
  BY <1>4 DEF Await, AcceptsMore, EndsStatement
<1>5. CASE Refuses
  BY <1>5 DEF Refuses, FailHere, FailIn, Leaves
<1>6. CASE Spins \/ BeginsData \/ BeginsInstruction \/ SkipsArguments
  BY <1>1, <1>6 DEF Spins, BeginsData, BeginsInstruction, SkipsArguments, Moved,
                    Goto, history_vars, Leaves
<1>7. CASE BeginsSection \/ BeginsOther
  <2>1. Identifier(curr_token) /\ UNCHANGED vector_vars
        /\ \E next \in {"NEEDING_SECTION_NAME", "DETECTING_TYPE"} : Await(next)
    BY <1>7 DEF BeginsSection, BeginsOther, Taken
  <2> QED
    BY <1>3, <1>4, <2>1 DEF Accepts, Identifier
<1>8. CASE ReadsNumber \/ ReadsComma \/ ReadsSize \/ ReadsRegister
  <2>1. /\ state \in {"SETTING_DATA", "DEMANDING_SIZE_COMMA", "REQUIRING_SIZE",
                      "FINDING_ARGUMENT"}
        /\ curr_token.token_type \in {"IDENTIFIER", "INT", "FLOAT", "COMMA"}
        /\ UNCHANGED vector_vars
        /\ \E next \in {"DEMANDING_SIZE_COMMA", "REQUIRING_SIZE",
                        "ANTICIPATING_TERMINATING"} : Await(next)
    BY <1>8 DEF ReadsNumber, ReadsComma, ReadsSize, ReadsRegister, Taken,
                NumberRead, Identifier
  <2>2. line # <<>>
    BY <1>1, <1>2, <2>1 DEF LineOfState
  <2> QED
    BY <1>3, <1>4, <2>1, <2>2 DEF Accepts
<1>9. CASE NamesSection
  <2>1. [kind |-> "INSTRUCTION_STMT", s |-> [name |-> curr_token.span]] \in Stmt
    BY <1>1, TokenTypes, StmtKinds DEF Core, InputTypes, Named
  <2>2. Identifier(curr_token) /\ Await("ANTICIPATING_TERMINATING")
        /\ \E s \in Stmt : Push(s)
    BY <1>9, <2>1 DEF NamesSection
  <2> QED
    BY <1>3, <1>4, <2>2 DEF Accepts, Identifier
<1>10. CASE MarksLabel
  <2>1. Symbol(prev_token) \in Stmt
    BY <1>1, TokenTypes, StmtKinds DEF Core, InputTypes, Symbol, Named
  <2>2. /\ state = "DETECTING_TYPE" /\ curr_token.token_type = "COLON"
        /\ Await("INIT") /\ \E s \in Stmt : Push(s)
    BY <1>10, <2>1 DEF MarksLabel
  <2>3. line # <<>>
    BY <1>1, <1>2, <2>2 DEF LineOfState
  <2>4. AcceptsLast
    BY <2>2, <2>3 DEF Await, AcceptsLast, EndsStatement
  <2> QED
    BY <1>3, <2>2, <2>3, <2>4 DEF Accepts
<1>11. CASE EndsLine
  <2>1. /\ state = "ANTICIPATING_TERMINATING" /\ UNCHANGED vector_vars
        /\ Terminator(curr_token) /\ Await("DONE")
    BY <1>11 DEF EndsLine, Taken
  <2>2. line # <<>>
    BY <1>1, <1>2, <2>1 DEF LineOfState
  <2>3. AcceptsLast
    BY <2>1, <2>2 DEF Await, AcceptsLast, EndsStatement, Terminator
  <2> QED
    BY <1>3, <2>1, <2>2, <2>3 DEF Accepts, Terminator
<1> QED
  BY <1>1, <1>5, <1>6, <1>7, <1>8, <1>9, <1>10, <1>11 DEF Flow

(* A token accepted joins the others.                                      *)
LEMMA LinesTake ==
  ASSUME ParseInv, HandInv, Processed \in Nat, LinesInv, Accepts, UNCHANGED given,
         Processed' = Processed + 1, given[Processed + 1].token = curr_token
  PROVE  LinesInv'
<1>1. /\ lines \in Seq(Line) /\ line \in Seq(InputToken)
      /\ curr_token \in InputToken /\ clean \in BOOLEAN
  BY ParsedTypes
<1>2. PICK first : Cuts(first, given, Processed, lines, line)
  BY DEF LinesInv
<1>3. PICK n \in Nat : n = Processed
  OBVIOUS
<1>4. Cuts(first, given, n + 1, lines, Append(line, curr_token))
  BY <1>1, <1>2, <1>3, CutsTake
<1>5. CASE AcceptsMore
  BY <1>3, <1>4, <1>5 DEF AcceptsMore, LinesInv
<1>6. CASE AcceptsLast
  <2>1. PICK m : m = Append(line, curr_token)
    OBVIOUS
  <2>2. m \in Seq(InputToken)
    BY <1>1, <2>1, AppendProperties
  <2>3. PICK x : x = [tokens |-> m, clean |-> clean]
    OBVIOUS
  <2>4. x \in Line /\ x.tokens = m
    BY <1>1, <2>2, <2>3 DEF Line
  <2>5. Cuts(first, given, n + 1, lines, m) /\ n + 1 \in Nat
    BY <1>4, <2>1
  <2>6. \E f : Cuts(f, given, n + 1, Append(lines, x), <<>>)
    BY ONLY <1>1, <2>2, <2>4, <2>5, CutsEnd
  <2>7. lines' = Append(lines, x) /\ line' = <<>> /\ given' = given
        /\ Processed' = n + 1
    BY <1>3, <1>6, <2>1, <2>3 DEF AcceptsLast
  <2> QED
    BY <2>6, <2>7 DEF LinesInv
<1> QED
  BY <1>5, <1>6 DEF Accepts

LEMMA CleanTake ==
  ASSUME ParseInv, HandInv, CleanInv, parser_pc = "loop", Accepts
  PROVE  CleanInv'
<1>1. /\ lines \in Seq(Line) /\ line \in Seq(InputToken)
      /\ curr_token \in InputToken /\ clean
  BY ParsedTypes DEF CleanInv
<1>2. CASE AcceptsMore
  BY <1>1, <1>2 DEF AcceptsMore, CleanInv
<1>3. CASE AcceptsLast
  <2>1. PICK x : x = [tokens |-> Append(line, curr_token), clean |-> clean]
    OBVIOUS
  <2>2. x \in Line /\ x.clean
    BY <1>1, <2>1, AppendProperties DEF Line
  <2>3. lines' = Append(lines, x) /\ clean'
    BY <1>3, <2>1 DEF AcceptsLast
  <2>4. /\ Len(lines') = Len(lines) + 1 /\ lines'[Len(lines) + 1] = x
        /\ \A i \in 1 .. Len(lines) : lines'[i] = lines[i]
        /\ Len(lines) \in Nat
    BY <1>1, <2>2, <2>3, AppendProperties, LenProperties
  <2> QED
    BY <2>2, <2>3, <2>4 DEF CleanInv
<1> QED
  BY <1>2, <1>3 DEF Accepts
(* A push is recorded with the tokens it is made at, or counted as lost.   *)
LEMMA PushTake ==
  ASSUME ParseInv, HandInv, Processed \in Nat, PushInv, Accepts,
         parser_pc = "loop", UNCHANGED <<given, input_vars>>,
         Processed' = Processed + 1, Processed + 1 = Len(given)
  PROVE  PushInv'
<1>1. /\ Len(given) \in Nat /\ Len(pushed) \in Nat /\ lost \in Nat
      /\ pushed \in Seq([call : Nat, fed : InputToken \X InputToken])
  BY ParsedTypes
<1>2. \A i \in Int : TokenAt(i)' = TokenAt(i)
  BY DEF TokenAt
<1>3. calls = Len(given) /\ fed[1] = TokenAt(Len(given) - 1)
      /\ fed[2] = TokenAt(Len(given)) /\ fed[2] = curr_token
      /\ curr_token = given[Len(given)].token
  <2>1. fed = <<prev_token, curr_token>>
    BY DEF ParseInv, SourceInv
  <2> QED
    BY <1>1, <2>1 DEF HandInv, GivenInv, TokenAt
<1>4. ASSUME NEW i \in 1 .. Len(pushed)
      PROVE  /\ pushed[i].call \in 1 .. Processed + 1
             /\ pushed[i].fed[1] = TokenAt(pushed[i].call - 1)
             /\ pushed[i].fed[2] = TokenAt(pushed[i].call)
  BY <1>4 DEF PushInv
<1>5. CASE pushed' = pushed /\ (lost' = 0 => lost = 0 /\ curr_token.token_type # "COLON")
  <2>1. ASSUME lost' = 0, NEW c \in 1 .. Processed + 1,
               given[c].token.token_type = "COLON"
        PROVE  \E i \in 1 .. Len(pushed) : pushed[i].call = c
    <3>1. c \in 1 .. Processed
      BY <1>3, <1>5, <2>1
    <3> QED
      BY <1>5, <2>1, <3>1 DEF PushInv
  <2> QED
    BY <1>4, <1>5, <2>1 DEF PushInv, TokenAt
<1>6. CASE pushed' = Append(pushed, [call |-> calls, fed |-> fed]) /\ lost' = lost
  <2>1. PICK x : x = [call |-> calls, fed |-> fed]
    OBVIOUS
  <2>2. /\ x \in [call : Nat, fed : InputToken \X InputToken]
        /\ x.call = calls /\ x.fed = fed
    BY <1>1, <1>3, <2>1 DEF ParseInv, LineCore, Core, InputTypes
  <2>3. /\ Len(pushed') = Len(pushed) + 1 /\ pushed'[Len(pushed) + 1] = x
        /\ \A i \in 1 .. Len(pushed) : pushed'[i] = pushed[i]
    BY <1>1, <1>6, <2>1, <2>2, AppendProperties
  <2>4. ASSUME NEW i \in 1 .. Len(pushed) + 1
        PROVE  /\ pushed'[i].call \in 1 .. Processed + 1
               /\ pushed'[i].fed[1] = TokenAt(pushed'[i].call - 1)
               /\ pushed'[i].fed[2] = TokenAt(pushed'[i].call)
    <3>1. CASE i = Len(pushed) + 1
      <4>1. pushed'[i].call = Len(given) /\ pushed'[i].fed = fed
        BY <1>3, <2>2, <2>3, <3>1
      <4>2. Len(given) \in 1 .. Processed + 1
        BY <1>1
      <4> QED
        BY <1>3, <4>1, <4>2
    <3>2. CASE i # Len(pushed) + 1
      <4>1. i \in 1 .. Len(pushed) /\ pushed'[i] = pushed[i]
        BY <1>1, <2>3, <3>2
      <4> QED
        BY <1>4, <4>1
    <3> QED
      BY <3>1, <3>2
  <2>5. ASSUME lost = 0, NEW c \in 1 .. Processed + 1,
               given[c].token.token_type = "COLON"
        PROVE  \E i \in 1 .. Len(pushed') : pushed'[i].call = c
    <3>1. CASE c = Processed + 1
      <4>1. Len(pushed) + 1 \in 1 .. Len(pushed')
            /\ pushed'[Len(pushed) + 1].call = c
        BY <1>1, <1>3, <2>2, <2>3, <3>1
      <4> QED
        BY <4>1
    <3>2. CASE c # Processed + 1
      <4>1. c \in 1 .. Processed
        BY <3>2
      <4>2. PICK i \in 1 .. Len(pushed) : pushed[i].call = c
        BY <2>5, <4>1 DEF PushInv
      <4>3. i \in 1 .. Len(pushed') /\ pushed'[i].call = c
        BY <1>1, <2>3, <4>2
      <4> QED
        BY <4>3
    <3> QED
      BY <3>1, <3>2
  <2> QED
    BY <1>6, <2>3, <2>4, <2>5 DEF PushInv, TokenAt
<1>7. CASE curr_token.token_type # "COLON" /\ UNCHANGED vector_vars
  BY <1>5, <1>7 DEF vector_vars
<1>8. CASE \E s \in Stmt : Push(s)
  BY <1>1, <1>5, <1>6, <1>8 DEF Push
<1> QED
  BY <1>7, <1>8 DEF Accepts

LEMMA ParsedHandle ==
  ASSUME ParseInv, HandInv, ParsedInv, RunParser
  PROVE  ParsedInv'
<1> SUFFICES ASSUME ~refused'
             PROVE  Processed' \in Nat /\ CleanInv' /\ LinesInv' /\ FollowInv'
                    /\ PushInv'
  BY DEF ParsedInv
<1>1. /\ LineCore /\ Handle /\ UNCHANGED <<given, refused, input_vars>>
      /\ parser_pc = "loop"
  BY DEF ParseInv, RunParser, Handle
<1>2. /\ ~refused /\ Processed \in Nat /\ CleanInv /\ LinesInv /\ FollowInv /\ PushInv
  BY <1>1 DEF ParsedInv
<1>3. Len(given) \in Nat /\ Processed = Len(given) - 1
  BY <1>1, ParsedTypes DEF Processed
<1>4. CASE Leaves
  <2>1. Processed' = Processed
    BY <1>1, <1>4 DEF Processed, Leaves
  <2>2. UNCHANGED <<lines, line, given, pushed, lost>>
    BY <1>1, <1>4 DEF Leaves, vector_vars
  <2>3. CleanInv'
    BY <1>1, <1>2, <1>4, <2>2 DEF CleanInv, Leaves
  <2>4. LinesInv' /\ FollowInv'
    BY <1>2, <2>1, <2>2 DEF LinesInv, FollowInv
  <2>5. PushInv'
    BY <1>2, <2>1, <2>2 DEF PushInv, TokenAt
  <2> QED
    BY <1>2, <2>1, <2>3, <2>4, <2>5
<1>5. CASE Accepts
  <2>1. Processed' = Processed + 1 /\ Processed + 1 = Len(given)
    BY <1>1, <1>3, <1>5 DEF Processed, Accepts
  <2>2. given[Processed + 1].token = curr_token
    BY <1>2, <1>3, <2>1 DEF HandInv, GivenInv, TokenAt
  <2>3. FollowInv'
    <3>1. EndsStatement(curr_token) => line' = <<>>
      BY <1>5 DEF Accepts, AcceptsMore, AcceptsLast
    <3>2. line = <<>> => Identifier(curr_token)
      BY <1>5 DEF Accepts
    <3>3. Follow(given, Processed + 1, line')
      <4>1. PICK n \in Nat : n = Processed
        BY <1>2
      <4>2. PICK l, m : l = line /\ m = line'
        OBVIOUS
      <4>3. Follow(given, n, l)
        BY <1>2, <4>1, <4>2 DEF FollowInv
      <4>4. Follow(given, n + 1, m)
        BY <2>2, <3>1, <3>2, <4>1, <4>2, <4>3, FollowTake
      <4> QED
        BY <4>1, <4>2, <4>4
    <3> QED
      BY <1>1, <2>1, <3>3 DEF FollowInv
  <2>4. CleanInv' /\ LinesInv' /\ PushInv'
    BY <1>1, <1>2, <1>5, <2>1, <2>2, CleanTake, LinesTake, PushTake
  <2> QED
    BY <1>2, <2>1, <2>3, <2>4
<1> QED
  BY <1>1, <1>4, <1>5, PassShape

LEMMA ParsedStep ==
  ASSUME ReadInv, ParseInv, HandInv, ParsedInv, [FrontNext]_all_vars
  PROVE  ParsedInv'
<1>1. CASE Open \/ Call \/ RunTokenizer \/ AfterLexError \/ AfterParse
           \/ UNCHANGED all_vars
  <2>1. UNCHANGED <<parser_vars, given>>
    BY <1>1 DEF Open, Call, RunTokenizer, AfterLexError, AfterParse, GoOn, all_vars
  <2>2. refused' = refused \/ \E error : refused' = (refused \/ error)
    BY <1>1 DEF Open, Call, RunTokenizer, AfterLexError, AfterParse, GoOn, all_vars
  <2>3. ~refused' => ~refused
    BY ONLY <2>2, Zenon
  <2> QED
    BY <2>1, <2>3, ParsedStays
<1> QED
  BY <1>1, ParsedGive, ParsedHandle DEF FrontNext, Run

-----------------------------------------------------------------------------
(* The inductive invariant of the two together                             *)
FrontInv == ReadInv /\ ParseInv /\ HandInv /\ RejectInv /\ ParsedInv

LEMMA FrontInvariant == FrontSpec => []FrontInv
<1>1. FrontInit => FrontInv
  <2>1. FrontInit => Init /\ ParserInit
    BY DEF FrontInit
  <2> QED
    BY <2>1, ReadStart, ParseStart, HandStart, RejectStart, ParsedStart
    DEF FrontInv
<1>2. FrontInv /\ [FrontNext]_all_vars => FrontInv'
  BY ReadStep, ParseStep, HandsStep, RejectStep, ParsedStep DEF FrontInv
<1> QED
  BY <1>1, <1>2, PTL DEF FrontSpec
-----------------------------------------------------------------------------
(* Least numbers, and sets that are matched                                *)

LEMMA LeastOf ==
  ASSUME NEW S, S \subseteq Nat, S # {}
  PROVE  \E m \in S : \A k \in S : m <= k
<1>1. IsWellFoundedOn(OpToRel(<, Nat), Nat)
  BY NatLessThanWellFounded
<1>2. PICK x \in S : \A y \in S : ~(<<y, x>> \in OpToRel(<, Nat))
  BY <1>1, WFMin
<1>3. \A y \in S : ~(y < x)
  BY <1>2 DEF OpToRel
<1> QED
  BY <1>3

LEMMA SameCount ==
  ASSUME NEW S, NEW T, IsFiniteSet(S), NEW f \in [S -> T],
         \A x, y \in S : f[x] = f[y] => x = y,
         \A z \in T : \E x \in S : f[x] = z
  PROVE  IsFiniteSet(T) /\ Cardinality(T) = Cardinality(S)
<1>1. f \in Injection(S, T)
  BY DEF Injection, IsInjective
<1>2. f \in Surjection(S, T)
  BY DEF Surjection
<1>3. ExistsBijection(S, T)
  BY <1>1, <1>2 DEF ExistsBijection, Bijection
<1> QED
  BY <1>3, FS_Bijection

(* A matching that keeps the order keeps the ranks.                        *)
Rank(S, x) == Cardinality({y \in S : y <= x})

InOrderOnto(f, S, T) ==
  /\ f \in [S -> T] /\ S \subseteq Int /\ T \subseteq Int
  /\ \A x, y \in S : x < y => f[x] < f[y]
  /\ \A z \in T : \E x \in S : f[x] = z

LEMMA SameRank ==
  ASSUME NEW S, NEW T, NEW f, IsFiniteSet(S), InOrderOnto(f, S, T)
  PROVE  \A x \in S : Rank(T, f[x]) = Rank(S, x)
<1> SUFFICES ASSUME NEW x \in S PROVE Rank(T, f[x]) = Rank(S, x)
  OBVIOUS
<1> USE DEF InOrderOnto
<1> DEFINE A == {y \in S : y <= x}
           B == {z \in T : z <= f[x]}
           g == [y \in A |-> f[y]]
<1>1. \A y, z \in S : y <= z <=> f[y] <= f[z]
  <2> SUFFICES ASSUME NEW y \in S, NEW z \in S PROVE y <= z <=> f[y] <= f[z]
    OBVIOUS
  <2>1. f[y] \in Int /\ f[z] \in Int /\ y \in Int /\ z \in Int
    OBVIOUS
  <2>2. (y < z => f[y] < f[z]) /\ (z < y => f[z] < f[y])
    OBVIOUS
  <2> QED
    BY <2>1, <2>2
<1>2. IsFiniteSet(A)
  BY FS_Subset
<1>3. g \in [A -> B]
  BY <1>1
<1>4. \A y, z \in A : g[y] = g[z] => y = z
  <2> SUFFICES ASSUME NEW y \in A, NEW z \in A, f[y] = f[z] PROVE y = z
    OBVIOUS
  <2>1. y \in S /\ z \in S /\ y \in Int /\ z \in Int /\ f[y] \in Int
    OBVIOUS
  <2> QED
    BY <1>1, <2>1
<1>5. \A z \in B : \E y \in A : g[y] = z
  <2> SUFFICES ASSUME NEW z \in B PROVE \E y \in A : g[y] = z
    OBVIOUS
  <2>1. PICK y \in S : f[y] = z
    OBVIOUS
  <2>2. y \in A
    BY <1>1, <2>1
  <2> QED
    BY <2>1, <2>2
<1> HIDE DEF g, A, B
<1>6. Cardinality(B) = Cardinality(A)
  BY <1>2, <1>3, <1>4, <1>5, SameCount
<1> QED
  BY <1>6 DEF A, B, Rank

-----------------------------------------------------------------------------
(* The lines of the text                                                   *)

LEMMA SameLine ==
  ASSUME NEW a \in Position, NEW b \in Position, a <= b,
         \A r \in a .. b - 1 : ~EndsALine(r)
  PROVE  LineOf(b) = LineOf(a)
<1>1. \A r \in 1 .. b - 1 : r \in 1 .. a - 1 \/ r \in a .. b - 1
  BY DEF Position
<1>2. \A r \in 1 .. a - 1 : r \in 1 .. b - 1
  BY DEF Position
<1>3. {q \in 1 .. b - 1 : EndsALine(q)} = {q \in 1 .. a - 1 : EndsALine(q)}
  BY <1>1, <1>2
<1> QED
  BY <1>3 DEF LineOf
-----------------------------------------------------------------------------
(* The text of the tokens returned                                         *)

(* The i-th token returned has p.                                          *)
Has(i, p) == i \in 1 .. Len(returned) /\ p \in Elements(returned[i].span)

LEMMA HasTypes ==
  ASSUME ReadInv
  PROVE  /\ Len(returned) \in Nat /\ Settled \in Nat /\ Consumed \in Nat
         /\ Settled <= Consumed /\ Consumed <= fread_pos /\ fread_pos \in Nat
         /\ fread_pos <= Len(input) /\ Len(input) \in Nat
         /\ \A i, p : Has(i, p) => p \in 1 .. Settled
<1>1. /\ TypeOK /\ HandOK /\ InOrder
  BY DEF ReadInv, TextInv
<1>2. /\ Len(returned) \in Nat /\ Settled \in Nat /\ Consumed \in Nat
      /\ Consumed <= fread_pos /\ fread_pos \in Nat /\ Settled <= Consumed
      /\ fread_pos <= Len(input) /\ Len(input) \in Nat
  BY <1>1, LenProperties, SettledType DEF TypeOK
<1>3. \A i \in 1 .. Len(returned) : Elements(returned[i].span) \subseteq Position
  BY <1>1, TokenSpans DEF TypeOK
<1>4. \A i \in 1 .. Len(returned) : \A p \in Elements(returned[i].span) : p <= Settled
  BY <1>1 DEF InOrder, Ordered, Within
<1>5. ASSUME NEW i, NEW p, Has(i, p)
      PROVE  p \in 1 .. Settled
  <2>1. p \in Position /\ p <= Settled
    BY <1>3, <1>4, <1>5 DEF Has
  <2> QED
    BY <1>2, <2>1 DEF Position
<1> QED
  BY <1>2, <1>5

(* The order of the text is the order of the tokens.                       *)
LEMMA HasOrder ==
  ASSUME ReadInv, NEW a, NEW b, NEW p, NEW q, Has(a, p), Has(b, q)
  PROVE  /\ a < b => p < q
         /\ p <= q => a <= b
<1>1. /\ a \in 1 .. Len(returned) /\ b \in 1 .. Len(returned)
      /\ Len(returned) \in Nat /\ p \in Int /\ q \in Int
  BY HasTypes DEF Has
<1>2. \A i \in 1 .. Len(returned) : \A k \in 1 .. i - 1 :
        AllBefore(Elements(returned[k].span), Elements(returned[i].span))
  BY DEF ReadInv, TextInv, InOrder, Ordered
<1>3. a < b => p < q
  BY <1>1, <1>2 DEF Has, AllBefore
<1>4. b < a => q < p
  BY <1>1, <1>2 DEF Has, AllBefore
<1> QED
  BY <1>1, <1>3, <1>4

(* What type the token of a character is of.                               *)
LEMMA TypeOfText ==
  ASSUME ReadInv, NEW i, NEW p, Has(i, p)
  PROVE  /\ returned[i].token_type = "NEWLINE" <=> IsNewline(input[p])
         /\ returned[i].token_type = "COLON" <=> input[p] = "colon"
         /\ returned[i].token_type = "COLON" => returned[i].span[1] = p
<1>1. HasText(returned[i].token_type, returned[i].span)
  BY DEF ReadInv, SpansInv, Has
<1>2. PICK k \in 1 .. Len(returned[i].span) : returned[i].span[k] = p
  BY DEF Has, Elements
<1>3. returned[i].span \in Seq(Position)
  BY TokenSpans DEF ReadInv, TypeOK, Has
<1>4. Len(returned[i].span) \in Nat
  BY <1>3, LenProperties
<1>5. CASE returned[i].token_type = "NEWLINE"
  BY <1>1, <1>2, <1>4, <1>5 DEF HasText, IsNewline
<1>6. CASE returned[i].token_type = "COLON"
  BY <1>1, <1>2, <1>4, <1>6 DEF HasText, IsNewline
<1>7. CASE returned[i].token_type \notin {"NEWLINE", "COLON"}
  BY <1>1, <1>7 DEF HasText, IsNewline, Has
<1> QED
  BY <1>5, <1>6, <1>7

(* The text of a token is text, and what is text and was not rejected is   *)
(* in some token.                                                          *)
LEMMA TextOfToken ==
  ASSUME ReadInv, NEW i, NEW p, Has(i, p)
  PROVE  ~Blank(p) /\ ~Commented(p)
<1>1. p \in 1 .. Settled
  BY HasTypes
<1>2. p \in Kept
  BY DEF Kept, Has
<1> QED
  BY <1>1, <1>2 DEF ReadInv, TextInv, Accounted

LEMMA TextIsInToken ==
  ASSUME ReadInv, NEW p \in 1 .. Settled, p \notin Elements(token),
         p \notin rejected, ~Blank(p), ~Commented(p)
  PROVE  \E i \in 1 .. Len(returned) : Has(i, p)
<1>1. p \in Kept
  BY DEF ReadInv, TextInv, Accounted
<1> QED
  BY <1>1 DEF Kept, Has

(* Newlines and colons are text, a newline also at the end of a comment.   *)
LEMMA TokenOfText ==
  ASSUME ReadInv, NEW p \in 1 .. Settled, p \notin Elements(token),
         \/ IsNewline(input[p])
         \/ input[p] = "colon" /\ ~Commented(p)
  PROVE  \E i \in 1 .. Len(returned) : Has(i, p)
<1>1. ~Blank(p) /\ p \notin rejected
  BY DEF Blank, ReadInv, SpansInv, IsNewline
<1>2. ~Commented(p)
  <2>1. CASE IsNewline(input[p])
    BY <2>1 DEF Commented
  <2> QED
    BY <2>1
<1> QED
  BY <1>1, <1>2, TextIsInToken

(* Between the text of two tokens a line ends only at the end of a newline *)
(* token.                                                                  *)
LEMMA LineEndBetween ==
  ASSUME ReadInv, NEW a, NEW b, NEW p, NEW x, Has(a, p), Has(b, x),
         NEW r \in p .. x - 1, EndsALine(r)
  PROVE  \E i \in a .. b : /\ i < b /\ Has(i, r)
                           /\ returned[i].token_type = "NEWLINE"
                           /\ \A y : Has(i, y) => y <= r
<1>1. /\ p \in 1 .. Settled /\ x \in 1 .. Settled /\ Settled \in Nat
      /\ r \in 1 .. Settled /\ p <= r /\ r < x
  <2>1. p \in 1 .. Settled /\ x \in 1 .. Settled /\ Settled \in Nat
    BY HasTypes
  <2> QED
    BY <2>1
<1>2. r \notin Elements(token)
  <2>1. AllBefore(Elements(returned[b].span), Elements(token))
    BY DEF ReadInv, TextInv, InOrder, Ordered, Has
  <2>2. ASSUME r \in Elements(token) PROVE x < r
    BY <2>1, <2>2 DEF AllBefore, Has
  <2> QED
    BY <1>1, <2>2
<1>3. IsNewline(input[r])
  BY DEF EndsALine
<1>4. PICK i \in 1 .. Len(returned) : Has(i, r)
  BY <1>1, <1>2, <1>3, TokenOfText
<1>5. returned[i].token_type = "NEWLINE"
  BY <1>3, <1>4, TypeOfText
<1>6. HasText("NEWLINE", returned[i].span)
  BY <1>4, <1>5 DEF ReadInv, SpansInv
<1>7. PICK s \in Seq(Position) : s = returned[i].span
  BY <1>4, TokenSpans DEF ReadInv, TypeOK
<1>8. \A y : Has(i, y) <=> \E k \in 1 .. Len(s) : s[k] = y
  BY <1>4, <1>7 DEF Has, Elements
<1>9. \A y : Has(i, y) => y <= r
  <2>1. CASE Len(s) = 1
    BY <1>1, <1>4, <1>8, <2>1
  <2>2. CASE /\ Len(s) = 2 /\ s[2] = s[1] + 1
             /\ input[s[1]] = "cr" /\ input[s[2]] = "lf"
    <3>1. s[1] \in 1 .. Settled /\ s[2] \in 1 .. Settled
      <4>1. Has(i, s[1]) /\ Has(i, s[2])
        BY <1>8, <2>2
      <4> QED
        BY <4>1, HasTypes
    <3>2. s[1] < Len(input) /\ s[1] \in Nat
      BY <1>1, <2>2, <3>1, HasTypes
    <3>3. r # s[1]
      BY <2>2, <3>2 DEF EndsALine
    <3>4. r = s[2]
      <4>1. PICK k \in 1 .. Len(s) : s[k] = r
        BY <1>4, <1>8
      <4> QED
        BY <2>2, <3>3, <4>1
    <3>5. \A k \in 1 .. Len(s) : s[k] <= r
      BY <2>2, <3>1, <3>4
    <3> QED
      BY <1>8, <3>5
  <2> QED
    BY <1>6, <1>7, <2>1, <2>2 DEF HasText
<1>10. a <= i /\ i <= b
  BY <1>1, <1>4, HasOrder
<1>11. i # b
  <2>1. ASSUME i = b PROVE x <= r
    BY <1>9, <2>1
  <2> QED
    BY <1>1, <2>1
<1>12. a \in Int /\ b \in Int
  BY HasTypes DEF Has
<1> QED
  BY <1>4, <1>5, <1>9, <1>10, <1>11, <1>12

(* So without a newline token in between they are on one line.             *)
LEMMA NoLineBetween ==
  ASSUME ReadInv, NEW a, NEW b, NEW p, NEW x, Has(a, p), Has(b, x), p <= x,
         \A i \in a .. b : i < b => returned[i].token_type # "NEWLINE"
  PROVE  LineOf(x) = LineOf(p)
<1>1. p \in Position /\ x \in Position
  BY HasTypes DEF Position
<1>2. \A r \in p .. x - 1 : ~EndsALine(r)
  BY LineEndBetween
<1> QED
  BY <1>1, <1>2, SameLine
-----------------------------------------------------------------------------
(* Statements and lines                                                    *)

(* The tokens given are those returned, and the end of the file.           *)
LEMMA GivenText ==
  ASSUME HandInv, NEW j \in 1 .. Len(given)
  PROVE  /\ \A p : p \in Elements(given[j].span) <=> Has(j, p)
         /\ j <= Len(returned) =>
              given[j].token.token_type = returned[j].token_type
         /\ ~(j <= Len(returned)) => given[j].token = EofToken
<1>1. Len(given) \in Nat /\ Elements(<<>>) = {}
  BY LenProperties, EmptySeq DEF HandInv, GivenInv, Elements
<1>2. CASE j <= Len(returned)
  <2>1. /\ given[j].span = returned[j].span
        /\ given[j].token.token_type = returned[j].token_type
    BY <1>2 DEF HandInv, GivenInv
  <2>2. j \in 1 .. Len(returned)
    BY <1>1, <1>2
  <2> QED
    BY <1>2, <2>1, <2>2 DEF Has
<1>3. CASE ~(j <= Len(returned))
  <2>1. given[j].span = <<>> /\ given[j].token = EofToken
    BY <1>3 DEF HandInv, GivenInv
  <2>2. j \notin 1 .. Len(returned)
    BY <1>3
  <2> QED
    BY <1>1, <1>3, <2>1, <2>2 DEF Has
<1> QED
  BY <1>2, <1>3

(* A statement begins with an identifier and has a newline only at its end. *)
LEMMA LineTokens ==
  ASSUME NEW l \in Seq(InputToken), AcceptedLine(l)
  PROVE  /\ Len(l) \in Nat /\ Len(l) >= 2 /\ Identifier(l[1])
         /\ \A i \in 1 .. Len(l) - 1 : l[i].token_type # "NEWLINE"
<1>1. Len(l) \in Nat
  BY LenProperties
<1>2. CASE IsLabel(l)
  BY <1>1, <1>2 DEF IsLabel, Identifier
<1>3. CASE IsSection(l)
  BY <1>1, <1>3 DEF IsSection, Identifier
<1>4. CASE IsData(l)
  BY <1>1, <1>4 DEF IsData, Identifier
<1>5. CASE IsInstruction(l)
  BY <1>1, <1>5 DEF IsInstruction, Identifier
<1> QED
  BY <1>2, <1>3, <1>4, <1>5 DEF AcceptedLine

(* There is one way to count on from 1 by the sizes of the statements.     *)
Counts(F, ls) ==
  F = [k \in 1 .. Len(ls) + 1 |-> IF k = 1 THEN 1
                                  ELSE F[k - 1] + Len(ls[k - 1].tokens)]

LEMMA CutsCount ==
  ASSUME NEW first, NEW gs, NEW n, NEW ls \in Seq(Line), NEW l,
         Cuts(first, gs, n, ls, l)
  PROVE  Counts(first, ls)
<1>1. Len(ls) \in Nat
  BY LenProperties
<1>2. first \in [1 .. Len(ls) + 1 -> Nat \ {0}] /\ first[1] = 1
  BY DEF Cuts
<1>3. ASSUME NEW k \in 1 .. Len(ls) + 1, k # 1
      PROVE  first[k] = first[k - 1] + Len(ls[k - 1].tokens)
  <2>1. PICK i \in 1 .. Len(ls) : i + 1 = k
    BY <1>1, <1>3
  <2>2. first[i + 1] = first[i] + Len(ls[i].tokens) /\ k - 1 = i
    BY <2>1 DEF Cuts
  <2> QED
    BY <2>1, <2>2
<1> QED
  BY <1>2, <1>3 DEF Counts

LEMMA CountUnique ==
  ASSUME NEW F, NEW G, NEW ls \in Seq(Line), Counts(F, ls), Counts(G, ls)
  PROVE  F = G
<1>1. Len(ls) \in Nat
  BY LenProperties
<1> DEFINE Bad == {k \in 1 .. Len(ls) + 1 : F[k] # G[k]}
           Step(H, k) == IF k = 1 THEN 1 ELSE H[k - 1] + Len(ls[k - 1].tokens)
<1>2. F = [k \in 1 .. Len(ls) + 1 |-> Step(F, k)]
  BY DEF Counts
<1>3. G = [k \in 1 .. Len(ls) + 1 |-> Step(G, k)]
  BY DEF Counts
<1>4. SUFFICES ASSUME Bad # {} PROVE FALSE
  <2>1. SUFFICES ASSUME Bad = {} PROVE F = G
    OBVIOUS
  <2>2. \A k \in 1 .. Len(ls) + 1 : F[k] = G[k]
    BY <2>1
  <2>3. /\ F = [k \in 1 .. Len(ls) + 1 |-> F[k]]
        /\ G = [k \in 1 .. Len(ls) + 1 |-> G[k]]
    <3> HIDE DEF Step
    <3> QED
      BY <1>2, <1>3
  <2> QED
    BY <2>2, <2>3
<1>5. Bad \subseteq Nat
  BY <1>1
<1>6. PICK k \in Bad : \A j \in Bad : k <= j
  BY <1>4, <1>5, LeastOf
<1>7. k \in 1 .. Len(ls) + 1 /\ F[k] # G[k]
  BY <1>6
<1>8. k # 1
  BY <1>7 DEF Counts
<1>9. k - 1 \in 1 .. Len(ls) + 1 /\ k - 1 \notin Bad
  BY <1>1, <1>6, <1>7, <1>8
<1>10. F[k - 1] = G[k - 1]
  BY <1>9
<1> QED
  BY <1>7, <1>8, <1>10 DEF Counts

(* Every statement is on a line.                                           *)
LEMMA OneLine ==
  ASSUME ReadInv, HandInv,
         NEW a \in Nat, NEW l \in Seq(InputToken), AcceptedLine(l), TokensFrom(given, a, l),
         a >= 1, a + Len(l) <= Len(given) + 1
  PROVE  \E n : UNION {{LineOf(p) : p \in Elements(given[j].span)} :
                        j \in a .. a + Len(l) - 1} = {n}
<1>1. /\ Len(l) \in Nat /\ Len(l) >= 2 /\ Identifier(l[1])
      /\ \A i \in 1 .. Len(l) - 1 : l[i].token_type # "NEWLINE"
  BY LineTokens
<1>2. Len(given) \in Nat
  BY LenProperties DEF HandInv, GivenInv
<1> DEFINE here == a .. a + Len(l) - 1
<1>3. here \subseteq 1 .. Len(given) /\ a \in here
  BY <1>1, <1>2
<1>4. \A j \in here : given[j].token = l[j - a + 1]
  <2> SUFFICES ASSUME NEW j \in here PROVE given[j].token = l[j - a + 1]
    OBVIOUS
  <2>1. j - a + 1 \in 1 .. Len(l) /\ a + (j - a + 1) - 1 = j
    BY <1>1
  <2> QED
    BY <2>1 DEF TokensFrom
<1>5. \A j \in here : j < a + Len(l) - 1 => given[j].token.token_type # "NEWLINE"
  <2> SUFFICES ASSUME NEW j \in here, j < a + Len(l) - 1
               PROVE  given[j].token.token_type # "NEWLINE"
    OBVIOUS
  <2>1. j - a + 1 \in 1 .. Len(l) - 1
    BY <1>1
  <2> QED
    BY <1>1, <1>4, <2>1
<1>6. a <= Len(returned) /\ returned[a].span # <<>>
  <2>1. given[a].token = l[1]
    BY <1>3, <1>4
  <2>2. given[a].token # EofToken
    BY <1>1, <2>1 DEF Identifier, EofToken, NoToken
  <2>3. a \in 1 .. Len(given)
    BY <1>3
  <2>4. a <= Len(returned)
    BY <2>2, <2>3, GivenText
  <2>5. a \in 1 .. Len(returned)
    BY <2>4, HasTypes
  <2> QED
    BY <2>4, <2>5 DEF ReadInv, TextInv, Maximal, ReturnedMaximal
<1>7. PICK p0 : Has(a, p0)
  <2>1. a \in 1 .. Len(returned)
    BY <1>6, HasTypes
  <2>2. returned[a].span \in Seq(Position)
    BY <2>1, TokenSpans DEF ReadInv, TypeOK
  <2>3. Last(returned[a].span) \in Elements(returned[a].span)
    BY <1>6, <2>2, LastElement
  <2> QED
    BY <2>1, <2>3 DEF Has
<1>8. ASSUME NEW b \in here, NEW c \in here, NEW p, NEW x, Has(b, p), Has(c, x), p <= x
      PROVE  LineOf(x) = LineOf(p)
  <2>1. \A i \in b .. c : i < c => returned[i].token_type # "NEWLINE"
    <3> SUFFICES ASSUME NEW i \in b .. c, i < c
                 PROVE  returned[i].token_type # "NEWLINE"
      OBVIOUS
    <3>1. i \in here /\ i < a + Len(l) - 1 /\ i \in 1 .. Len(given)
      BY <1>1, <1>3
    <3>2. i <= Len(returned)
      BY <1>8, HasTypes DEF Has
    <3> QED
      BY <1>5, <3>1, <3>2, GivenText
  <2> QED
    BY <1>8, <2>1, NoLineBetween
<1>9. ASSUME NEW b \in here, NEW p, Has(b, p)
      PROVE  LineOf(p) = LineOf(p0)
  <2>1. p \in Int /\ p0 \in Int
    BY <1>7, <1>9, HasTypes
  <2>2. CASE p0 <= p
    BY <1>3, <1>7, <1>8, <1>9, <2>2
  <2>3. CASE p <= p0
    BY <1>3, <1>7, <1>8, <1>9, <2>3
  <2> QED
    BY <2>1, <2>2, <2>3
<1>10. \A j \in here : \A p : p \in Elements(given[j].span) <=> Has(j, p)
  BY <1>3, GivenText
<1>11. UNION {{LineOf(p) : p \in Elements(given[j].span)} : j \in here} = {LineOf(p0)}
  <2>1. \A j \in here : \A p \in Elements(given[j].span) : LineOf(p) = LineOf(p0)
    BY <1>9, <1>10
  <2>2. p0 \in Elements(given[a].span)
    BY <1>3, <1>7, <1>10
  <2> HIDE DEF here
  <2> QED
    BY <1>3, <2>1, <2>2
<1> QED
  BY <1>11
(* Until an error is found the statements accepted are cut from the tokens *)
(* given one after the other, and each is on its line.                     *)
LEMMA StatementsAreOnLines ==
  ASSUME ReadInv, ParseInv, HandInv, ParsedInv
  PROVE  StatementsOnLines
<1> SUFFICES ASSUME ~refused PROVE StatementsOnLines
  BY DEF StatementsOnLines
<1> DEFINE Size(k) == Len(lines[k].tokens)
           First[k \in 1 .. Len(lines) + 1] ==
             IF k = 1 THEN 1 ELSE First[k - 1] + Size(k - 1)
           At(j) == {LineOf(p) : p \in Elements(given[j].span)}
           Goal(k) ==
             LET span == First[k] .. First[k] + Size(k) - 1
             IN  /\ span \subseteq 1 .. Len(given)
                 /\ \A j \in span : given[j].token = lines[k].tokens[j - First[k] + 1]
                 /\ Cardinality(UNION {At(j) : j \in span}) = 1
<1>1. /\ Processed \in Nat /\ Processed <= Len(given)
      /\ CleanInv /\ Len(given) \in Nat
  <2>1. Len(given) \in Nat
    BY LenProperties DEF HandInv, GivenInv
  <2> QED
    BY <2>1 DEF ParsedInv, Processed
<1>2. lines \in Seq(Line) /\ Len(lines) \in Nat
  BY LenProperties DEF ParseInv, LineCore, Core, LineTypes, Line
<1>3. PICK first : Cuts(first, given, Processed, lines, line)
  BY DEF ParsedInv, LinesInv
<1>4. Counts(first, lines)
  BY <1>2, <1>3, CutsCount
<1>5. Counts(First, lines)
  <2>1. First = CHOOSE f : f = [k \in 1 .. Len(lines) + 1 |->
                                  IF k = 1 THEN 1 ELSE f[k - 1] + Size(k - 1)]
    OBVIOUS
  <2>2. first = [k \in 1 .. Len(lines) + 1 |->
                   IF k = 1 THEN 1 ELSE first[k - 1] + Size(k - 1)]
    BY <1>4 DEF Counts
  <2> HIDE DEF First
  <2>3. First = [k \in 1 .. Len(lines) + 1 |->
                   IF k = 1 THEN 1 ELSE First[k - 1] + Size(k - 1)]
    BY <2>1, <2>2
  <2> QED
    BY <2>3 DEF Counts
<1>6. First = first
  <2> HIDE DEF First
  <2> QED
    BY <1>2, <1>4, <1>5, CountUnique
<1> HIDE DEF First
<1>7. ASSUME NEW k \in 1 .. Len(lines)
      PROVE  Goal(k)
  <2>1. lines[k] \in Line /\ lines[k].tokens \in Seq(InputToken) /\ lines[k].clean
    <3>1. lines[k] \in Line
      BY <1>2, ElementOfSeq
    <3>2. lines[k].clean
      BY DEF ParsedInv, CleanInv
    <3> QED
      BY <3>1, <3>2 DEF Line
  <2>2. AcceptedLine(lines[k].tokens)
    BY <2>1 DEF ParseInv, AcceptedStatements, AcceptedLine
  <2>3. Size(k) \in Nat
    BY <2>1, LenProperties
  <2>4. PICK a \in Nat : a = first[k] /\ a >= 1
    <3>1. first \in [1 .. Len(lines) + 1 -> Nat \ {0}]
      BY <1>3 DEF Cuts
    <3>2. k \in 1 .. Len(lines) + 1
      BY <1>2
    <3>3. first[k] \in Nat \ {0}
      BY <3>1, <3>2
    <3>4. first[k] \in Nat /\ first[k] >= 1
      BY <3>3
    <3> QED
      BY <3>4
  <2>5. /\ a + Size(k) <= Processed + 1
        /\ TokensFrom(given, a, lines[k].tokens)
    BY <1>3, <2>4 DEF Cuts
  <2>6. a + Size(k) <= Len(given) + 1
    BY <1>1, <2>3, <2>5
  <2>7. a .. a + Size(k) - 1 \subseteq 1 .. Len(given)
    BY <1>1, <2>3, <2>4, <2>6
  <2>8. \A j \in a .. a + Size(k) - 1 : given[j].token = lines[k].tokens[j - a + 1]
    <3> SUFFICES ASSUME NEW j \in a .. a + Size(k) - 1
                 PROVE  given[j].token = lines[k].tokens[j - a + 1]
      OBVIOUS
    <3>1. j - a + 1 \in 1 .. Size(k) /\ a + (j - a + 1) - 1 = j
      BY <2>3
    <3> QED
      BY <2>5, <3>1 DEF TokensFrom
  <2>9. PICK l \in Seq(InputToken) : l = lines[k].tokens
    BY <2>1
  <2>10. PICK n : UNION {At(j) : j \in a .. a + Size(k) - 1} = {n}
    <3>1. AcceptedLine(l) /\ TokensFrom(given, a, l) /\ a + Len(l) <= Len(given) + 1
      BY <2>2, <2>5, <2>6, <2>9
    <3>2. \E n : UNION {{LineOf(p) : p \in Elements(given[j].span)} :
                          j \in a .. a + Len(l) - 1} = {n}
      BY ONLY ReadInv, HandInv, <2>4, <3>1, OneLine
    <3> QED
      BY <2>9, <3>2
  <2>11. Cardinality(UNION {At(j) : j \in a .. a + Size(k) - 1}) = 1
    BY <2>10, FS_Singleton
  <2>12. First[k] = a
    BY <1>6, <2>4
  <2> HIDE DEF At, Size
  <2> QED
    BY <2>7, <2>8, <2>11, <2>12
<1> QED
  BY <1>7 DEF StatementsOnLines, First
-----------------------------------------------------------------------------
(* The text accepted                                                       *)

(* At the end of a file accepted all of the text is in the tokens given,   *)
(* and the parser was fed each of them.                                    *)
LEMMA EndOfText ==
  ASSUME ReadInv, HandInv, ParsedInv, Accepted
  PROVE  /\ Settled = Consumed /\ token = <<>>
         /\ Len(given) = Len(returned) + 1 /\ Processed = Len(given)
         /\ given[Len(given)].token = EofToken
<1>1. status = EOF /\ pc = "idle" /\ parser_pc = "idle" /\ parser_status = 0
  BY DEF HandInv, PhaseInv, Accepted
<1>2. Len(given) = Len(returned) + 1
  BY <1>1 DEF HandInv, CountInv
<1>3. Processed = Len(given)
  BY <1>1 DEF Processed
<1>4. token = <<>> /\ last_char = NO_LAST_CHAR
  BY <1>1 DEF ReadInv, EofLeft
<1>5. Settled = Consumed
  BY <1>1, <1>4 DEF Settled
<1>6. given[Len(given)].token = EofToken
  <2>1. Len(returned) \in Nat
    BY HasTypes
  <2>2. Len(given) \in 1 .. Len(given) /\ ~(Len(given) <= Len(returned))
    BY <1>2, <2>1
  <2> QED
    BY <2>2 DEF HandInv, GivenInv
<1> QED
  BY <1>2, <1>3, <1>4, <1>5, <1>6

(* What the client was told nothing bad of is in the tokens given.         *)
LEMMA WholeTextIsTaken ==
  ASSUME ReadInv, HandInv, RejectInv, ParsedInv
  PROVE  WholeTextTaken
<1> SUFFICES ASSUME Accepted
             PROVE  /\ line = <<>>
                    /\ \A p \in 1 .. Consumed :
                         ~(Blank(p) \/ Commented(p)) =>
                           \E j \in 1 .. Len(given) : p \in Elements(given[j].span)
  BY DEF WholeTextTaken
<1>1. /\ Settled = Consumed /\ token = <<>>
      /\ Len(given) = Len(returned) + 1 /\ Processed = Len(given)
      /\ given[Len(given)].token = EofToken
  BY EndOfText
<1>2. Len(returned) \in Nat
  BY HasTypes
<1>3. line = <<>>
  <2>1. Follow(given, Processed, line)
    BY DEF ParsedInv, FollowInv, Accepted
  <2>2. EndsStatement(given[Processed].token)
    BY <1>1 DEF EndsStatement, EofToken
  <2> QED
    BY <2>1, <2>2 DEF Follow
<1>4. rejected = {}
  BY DEF RejectInv, Accepted
<1>5. ASSUME NEW p \in 1 .. Consumed, ~Blank(p), ~Commented(p)
      PROVE  \E j \in 1 .. Len(given) : p \in Elements(given[j].span)
  <2>1. p \notin Elements(token) /\ p \notin rejected
    BY <1>1, <1>4, EmptySeq DEF Elements
  <2>2. PICK i \in 1 .. Len(returned) : Has(i, p)
    BY <1>1, <1>5, <2>1, TextIsInToken
  <2>3. i \in 1 .. Len(given)
    BY <1>1, <1>2
  <2>4. p \in Elements(given[i].span)
    BY <2>2, <2>3, GivenText
  <2> QED
    BY <2>3, <2>4
<1> QED
  BY <1>3, <1>5
-----------------------------------------------------------------------------
(* The symbols                                                             *)

(* The colons of the text, the tokens they are, and the symbols pushed.    *)
Colons == {p \in 1 .. Consumed : input[p] = "colon" /\ ~Commented(p)}
ColonTokens == {c \in 1 .. Len(given) : given[c].token.token_type = "COLON"}
Symbols == {i \in 1 .. Len(statements) : statements[i].kind = "SYMBOL_STMT"}

(* A colon of the text and a token of type colon are the same thing.       *)
LEMMA ColonToken ==
  ASSUME ReadInv, HandInv, ParsedInv, Accepted, NEW c \in 1 .. Len(given)
  PROVE  /\ c \in ColonTokens <=> Elements(given[c].span) \subseteq Colons
                                  /\ given[c].span # <<>>
         /\ c \in ColonTokens => /\ c \in 1 .. Len(returned)
                                 /\ Has(c, given[c].span[1])
                                 /\ given[c].span[1] \in Colons
<1>1. /\ Settled = Consumed
      /\ Len(given) = Len(returned) + 1 /\ Len(returned) \in Nat
  BY EndOfText, HasTypes
<1>2. /\ \A p : p \in Elements(given[c].span) <=> Has(c, p)
      /\ c <= Len(returned) =>
           /\ given[c].token.token_type = returned[c].token_type
           /\ given[c].span = returned[c].span
      /\ ~(c <= Len(returned)) => given[c].token = EofToken /\ given[c].span = <<>>
  <2>1. /\ \A p : p \in Elements(given[c].span) <=> Has(c, p)
        /\ c <= Len(returned) =>
             given[c].token.token_type = returned[c].token_type
        /\ ~(c <= Len(returned)) => given[c].token = EofToken
    BY GivenText
  <2>2. IF c <= Len(returned) THEN given[c].span = returned[c].span
                              ELSE given[c].span = <<>>
    BY DEF HandInv, GivenInv
  <2> QED
    BY <2>1, <2>2
<1>3. CASE ~(c <= Len(returned))
  BY <1>2, <1>3 DEF ColonTokens, EofToken, NoToken
<1>4. CASE c <= Len(returned)
  <2>1. c \in 1 .. Len(returned)
    BY <1>1, <1>4
  <2>2. /\ returned[c].span # <<>> /\ returned[c].span \in Seq(Position)
        /\ Len(returned[c].span) \in Nat /\ Len(returned[c].span) # 0
    <3>1. returned[c].span # <<>>
      BY <2>1 DEF ReadInv, TextInv, Maximal, ReturnedMaximal
    <3>2. returned[c].span \in Seq(Position)
      BY <2>1, TokenSpans DEF ReadInv, TypeOK
    <3> QED
      BY <3>1, <3>2, EmptySeq, LenProperties
  <2>3. PICK p : p = given[c].span[1] /\ Has(c, p)
    <3>1. returned[c].span[1] \in Elements(returned[c].span)
      BY <2>2 DEF Elements
    <3> QED
      BY <1>2, <1>4, <2>1, <3>1 DEF Has
  <2>4. ASSUME c \in ColonTokens, NEW x, Has(c, x)
        PROVE  x \in Colons
    <3>1. returned[c].token_type = "COLON"
      BY <1>2, <1>4, <2>4 DEF ColonTokens
    <3>2. input[x] = "colon"
      BY <2>4, <3>1, TypeOfText
    <3>3. ~Commented(x)
      BY <2>4, TextOfToken
    <3>4. x \in 1 .. Settled
      BY <2>4, HasTypes
    <3> QED
      BY <1>1, <3>2, <3>3, <3>4 DEF Colons
  <2>5. ASSUME p \in Colons
        PROVE  c \in ColonTokens
    <3>1. returned[c].token_type = "COLON"
      BY <2>3, <2>5, TypeOfText DEF Colons
    <3> QED
      BY <1>2, <1>4, <3>1 DEF ColonTokens
  <2>6. given[c].span # <<>>
    BY <1>2, <1>4, <2>2
  <2> QED
    BY <1>2, <2>1, <2>3, <2>4, <2>5, <2>6
<1> QED
  BY <1>3, <1>4

(* There are as many colons as tokens of that type.                        *)
LEMMA CountColons ==
  ASSUME ReadInv, HandInv, ParsedInv, Accepted, IsFiniteSet(ColonTokens)
  PROVE  Cardinality(Colons) = Cardinality(ColonTokens)
<1>1. /\ Settled = Consumed /\ token = <<>>
      /\ Len(given) = Len(returned) + 1 /\ Len(returned) \in Nat
  BY EndOfText, HasTypes
<1> DEFINE g == [c \in ColonTokens |-> given[c].span[1]]
<1>2. \A c \in ColonTokens : /\ c \in 1 .. Len(returned)
                             /\ Has(c, g[c]) /\ g[c] \in Colons
  <2> SUFFICES ASSUME NEW c \in ColonTokens
               PROVE  /\ c \in 1 .. Len(returned)
                      /\ Has(c, g[c]) /\ g[c] \in Colons
    OBVIOUS
  <2>1. c \in 1 .. Len(given)
    BY DEF ColonTokens
  <2> QED
    BY <2>1, ColonToken
<1>3. g \in [ColonTokens -> Colons]
  BY <1>2
<1>4. ASSUME NEW c \in ColonTokens, NEW d \in ColonTokens, g[c] = g[d]
      PROVE  c = d
  <2>1. PICK p : p = g[c] /\ p = g[d]
    BY <1>4
  <2> HIDE DEF g
  <2>2. Has(c, p) /\ Has(d, p)
    BY <1>2, <2>1
  <2>3. /\ c \in Int /\ d \in Int /\ p \in Int
    BY <1>2, <2>2, HasTypes
  <2>4. c <= d /\ d <= c
    BY <2>2, <2>3, HasOrder
  <2> QED
    BY <2>3, <2>4
<1>5. ASSUME NEW p \in Colons
      PROVE  \E c \in ColonTokens : g[c] = p
  <2>1. p \in 1 .. Settled /\ input[p] = "colon" /\ ~Commented(p)
    BY <1>1 DEF Colons
  <2>2. p \notin Elements(token)
    BY <1>1, EmptySeq DEF Elements
  <2>3. PICK c \in 1 .. Len(returned) : Has(c, p)
    BY <2>1, <2>2, TokenOfText
  <2>4. returned[c].token_type = "COLON" /\ returned[c].span[1] = p
    BY <2>1, <2>3, TypeOfText
  <2>5. c \in 1 .. Len(given) /\ c <= Len(returned)
    BY <1>1
  <2>6. given[c].token.token_type = "COLON" /\ given[c].span = returned[c].span
    BY <2>4, <2>5 DEF HandInv, GivenInv
  <2> QED
    BY <2>4, <2>5, <2>6 DEF ColonTokens
<1> HIDE DEF g
<1> QED
  BY <1>3, <1>4, <1>5, SameCount
(* A symbol was pushed at a colon, by the name of the token before.        *)
LEMMA SymbolCall ==
  ASSUME ReadInv, ParseInv, HandInv, ParsedInv, Accepted, NEW i \in Symbols
  PROVE  /\ pushed[i].call \in ColonTokens
         /\ pushed[i].call - 1 \in 1 .. Len(given) - 1
         /\ statements[i].s.name = given[pushed[i].call - 1].token.span
<1>1. /\ Len(given) = Len(returned) + 1 /\ Processed = Len(given)
      /\ Len(returned) \in Nat /\ Len(given) \in Nat
  BY EndOfText, HasTypes
<1>2. PICK c \in 1 .. Len(given) : c = pushed[i].call
  BY <1>1 DEF Symbols, ParsedInv, PushInv, Accepted, ParseInv, SourceInv,
              StatementsFromSource
<1>3. pushed[i].fed[1] = TokenAt(c - 1) /\ pushed[i].fed[2] = TokenAt(c)
  BY <1>2 DEF Symbols, ParsedInv, PushInv, Accepted, ParseInv, SourceInv,
              StatementsFromSource
<1>4. /\ pushed[i].fed[2].token_type = "COLON"
      /\ statements[i].s.name = pushed[i].fed[1].span
  BY DEF Symbols, ParseInv, SourceInv, StatementsFromSource
<1>5. c \in ColonTokens
  BY <1>3, <1>4 DEF ColonTokens, TokenAt
<1>6. c # 1
  <2>1. SUFFICES ASSUME c = 1 PROVE FALSE
    OBVIOUS
  <2>2. Follow(given, Processed, line)
    BY DEF ParsedInv, FollowInv, Accepted
  <2>3. Identifier(given[1].token)
    BY <1>1, <2>1, <2>2 DEF Follow
  <2> QED
    BY <1>5, <2>1, <2>3 DEF ColonTokens, Identifier
<1>7. c - 1 \in 1 .. Len(given) - 1 /\ c - 1 \in 1 .. Len(given)
  BY <1>1, <1>6
<1>8. TokenAt(c - 1) = given[c - 1].token
  BY <1>7 DEF TokenAt
<1> QED
  BY <1>2, <1>3, <1>4, <1>5, <1>7, <1>8

(* And at every colon, while there is memory, in the order of the text.    *)
LEMMA SymbolsMatch ==
  ASSUME ParseInv, HandInv, ParsedInv, ReadInv, Accepted
  PROVE  /\ \A i, j \in Symbols : i < j => pushed[i].call < pushed[j].call
         /\ lost = 0 => \A c \in ColonTokens : \E i \in Symbols : pushed[i].call = c
         /\ IsFiniteSet(Symbols) /\ Symbols \subseteq Nat
<1>1. /\ Len(pushed) = Len(statements) /\ Processed = Len(given)
      /\ Len(statements) \in Nat
  <2>1. Len(statements) \in Nat
    BY LenProperties DEF ParseInv, LineCore, Core, VectorTypes
  <2> QED
    BY <2>1, EndOfText DEF ParseInv, SourceInv, StatementsFromSource
<1>2. ASSUME NEW i \in Symbols, NEW j \in Symbols, i < j
      PROVE  pushed[i].call < pushed[j].call
  <2>1. j \in 1 .. Len(statements) /\ i \in 1 .. j - 1
    BY <1>1, <1>2 DEF Symbols
  <2> QED
    BY <2>1 DEF ParseInv, SourceInv, StatementsFromSource
<1>3. ASSUME lost = 0, NEW c \in ColonTokens
      PROVE  \E i \in Symbols : pushed[i].call = c
  <2>1. c \in 1 .. Processed /\ given[c].token.token_type = "COLON"
        /\ c \in 1 .. Len(given)
    BY <1>1 DEF ColonTokens
  <2>2. PICK i \in 1 .. Len(statements) : pushed[i].call = c
    BY <1>1, <1>3, <2>1 DEF ParsedInv, PushInv, Accepted
  <2>3. pushed[i].fed[2] = given[c].token
    BY <1>1, <2>1, <2>2 DEF ParsedInv, PushInv, Accepted, TokenAt
  <2>4. ~Identifier(pushed[i].fed[2])
    BY <2>1, <2>3 DEF Identifier
  <2>5. statements[i].kind = "SYMBOL_STMT"
    BY <2>4 DEF ParseInv, SourceInv, StatementsFromSource
  <2> QED
    BY <2>2, <2>5 DEF Symbols
<1>4. IsFiniteSet(Symbols) /\ Symbols \subseteq Nat
  <2>1. IsFiniteSet(1 .. Len(statements))
    BY <1>1, FS_Interval
  <2> QED
    BY <1>1, <2>1, FS_Subset DEF Symbols
<1> QED
  BY <1>2, <1>3, <1>4

LEMMA SymbolsAreOfText ==
  ASSUME ReadInv, ParseInv, HandInv, ParsedInv
  PROVE  SymbolsOfText
<1> DEFINE labels == {j \in 1 .. Len(given) - 1 :
                        Elements(given[j + 1].span) \subseteq Colons
                        /\ given[j + 1].span # <<>>}
           Goal == /\ Cardinality(Symbols) = Cardinality(Colons)
                   /\ \A j \in labels : \E i \in Symbols :
                        /\ Rank(Symbols, i) = Rank(labels, j)
                        /\ statements[i].s.name = given[j].token.span
<1>1. ASSUME Accepted, lost = 0
      PROVE  Goal
  <2> DEFINE h == [i \in Symbols |-> pushed[i].call]
             f == [i \in Symbols |-> pushed[i].call - 1]
  <2>1. Len(given) \in Nat
    BY LenProperties DEF HandInv, GivenInv
  <2>2. /\ \A i, j \in Symbols : i < j => pushed[i].call < pushed[j].call
        /\ \A c \in ColonTokens : \E i \in Symbols : pushed[i].call = c
        /\ IsFiniteSet(Symbols) /\ Symbols \subseteq Nat
    BY <1>1, SymbolsMatch
  <2>3. \A i \in Symbols :
          /\ pushed[i].call \in ColonTokens
          /\ pushed[i].call - 1 \in 1 .. Len(given) - 1
          /\ statements[i].s.name = given[pushed[i].call - 1].token.span
    BY <1>1, SymbolCall
  <2>4. ColonTokens \subseteq 1 .. Len(given)
    BY DEF ColonTokens
  <2>5. \A c \in ColonTokens : c \in Int
    BY <2>1, <2>4
  <2>6. \A j \in 1 .. Len(given) - 1 : j \in labels <=> j + 1 \in ColonTokens
    <3> SUFFICES ASSUME NEW j \in 1 .. Len(given) - 1
                 PROVE  j \in labels <=> j + 1 \in ColonTokens
      OBVIOUS
    <3>1. j + 1 \in 1 .. Len(given)
      BY <2>1
    <3>2. PICK c \in 1 .. Len(given) : c = j + 1
      BY <3>1
    <3>3. c \in ColonTokens <=> Elements(given[c].span) \subseteq Colons
                                /\ given[c].span # <<>>
      BY <1>1, ColonToken
    <3> QED
      BY <3>2, <3>3
  <2>7. Cardinality(Symbols) = Cardinality(Colons)
    <3>1. h \in [Symbols -> ColonTokens]
      BY <2>3
    <3>2. ASSUME NEW i \in Symbols, NEW j \in Symbols, h[i] = h[j]
          PROVE  i = j
      <4>1. i \in Int /\ j \in Int /\ pushed[i].call \in Int
        BY <2>2, <2>3, <2>5
      <4>2. ~(i < j) /\ ~(j < i)
        BY <2>2, <2>3, <2>5, <3>2
      <4> QED
        BY <4>1, <4>2
    <3>3. \A c \in ColonTokens : \E i \in Symbols : h[i] = c
      BY <2>2
    <3> HIDE DEF h
    <3>4. IsFiniteSet(ColonTokens) /\ Cardinality(ColonTokens) = Cardinality(Symbols)
      BY <2>2, <3>1, <3>2, <3>3, SameCount
    <3> QED
      BY <1>1, <3>4, CountColons
  <2>8. f \in [Symbols -> labels]
    <3> SUFFICES ASSUME NEW i \in Symbols PROVE pushed[i].call - 1 \in labels
      OBVIOUS
    <3>1. pushed[i].call \in ColonTokens /\ pushed[i].call - 1 \in 1 .. Len(given) - 1
      BY <2>3
    <3>2. (pushed[i].call - 1) + 1 = pushed[i].call
      BY <2>5, <3>1
    <3> HIDE DEF labels
    <3> QED
      BY <2>6, <3>1, <3>2
  <2>9. \A i, j \in Symbols : i < j => f[i] < f[j]
    <3> SUFFICES ASSUME NEW i \in Symbols, NEW j \in Symbols, i < j
                 PROVE  pushed[i].call - 1 < pushed[j].call - 1
      OBVIOUS
    <3>1. pushed[i].call < pushed[j].call
      BY <2>2
    <3>2. pushed[i].call \in Int /\ pushed[j].call \in Int
      BY <2>3, <2>5
    <3> QED
      BY <3>1, <3>2
  <2>10. \A j \in labels : \E i \in Symbols : f[i] = j
    <3> SUFFICES ASSUME NEW j \in labels PROVE \E i \in Symbols : f[i] = j
      OBVIOUS
    <3>1. j \in 1 .. Len(given) - 1
      OBVIOUS
    <3> HIDE DEF labels
    <3>2. j + 1 \in ColonTokens
      BY <2>6, <3>1
    <3>3. PICK i \in Symbols : pushed[i].call = j + 1
      BY <2>2, <3>2
    <3>4. pushed[i].call - 1 = j
      BY <2>1, <3>1, <3>3
    <3> QED
      BY <3>4
  <2>11. Symbols \subseteq Int /\ labels \subseteq Int
    BY <2>1, <2>2
  <2>12. \A i \in Symbols : statements[i].s.name = given[f[i]].token.span
    BY <2>3
  <2> HIDE DEF f, labels
  <2>13. \A i \in Symbols : Rank(labels, f[i]) = Rank(Symbols, i)
    <3>1. InOrderOnto(f, Symbols, labels)
      BY <2>8, <2>9, <2>10, <2>11 DEF InOrderOnto
    <3>2. IsFiniteSet(Symbols)
      BY <2>2
    <3> QED
      BY ONLY <3>1, <3>2, SameRank
  <2> QED
    BY <2>7, <2>10, <2>12, <2>13
<1>2. Accepted /\ lost = 0 => Goal
  BY <1>1
<1> QED
  BY <1>2 DEF SymbolsOfText, Symbols, Colons, Rank
-----------------------------------------------------------------------------
(* The properties                                                          *)

(* An accepted text is accepted whole: every character of it that is not   *)
(* blank or commented was in a token the parser was handed, and no         *)
(* statement is left half read (get_next_token, parse_one_token).          *)
THEOREM WholeTextCorrect == FrontSpec => []WholeTextTaken
<1>1. FrontInv => WholeTextTaken
  BY WholeTextIsTaken DEF FrontInv
<1> QED
  BY FrontInvariant, <1>1, PTL

(* Until one of them finds an error, every statement the parser accepts is *)
(* on one line of the text, and its tokens are those of the text, taken    *)
(* one after the other: both take the same newlines for the end of a line. *)
THEOREM StatementsOnLinesCorrect == FrontSpec => []StatementsOnLines
<1>1. FrontInv => StatementsOnLines
  BY StatementsAreOnLines DEF FrontInv
<1> QED
  BY FrontInvariant, <1>1, PTL

(* The symbols made of an accepted text are the names before its colons,   *)
(* one for each and in their order, unless malloc or realloc failed        *)
(* (detecting_type).                                             *)
THEOREM SymbolsOfTextCorrect == FrontSpec => []SymbolsOfText
<1>1. FrontInv => SymbolsOfText
  BY SymbolsAreOfText DEF FrontInv
<1> QED
  BY FrontInvariant, <1>1, PTL
=============================================================================
