------------------------------ MODULE FrontEnd ------------------------------
(***************************************************************************)
(* The tokenizer and the parser joined as their interfaces ask for: each   *)
(* token of a file goes to parse_one_token once, and make_eof_token's      *)
(* after the last. No program of the repository does it yet (main.c stops  *)
(* at the tokens), so the client is external.                              *)
(*                                                                         *)
(* A character stands for a run of characters of its class, so that a word *)
(* of one character may be any word.                                       *)
(*                                                                         *)
(* `given` and `refused` are history variables.                            *)
(***************************************************************************)
EXTENDS Tokenizer, Parser

CONSTANT GivesUp  \* whether the client may stop at an error

(* The token_t get_next_token has filled in, as the parser reads it.       *)
Spelled(type) == {t \in Tokens : t.token_type = type}

ASSUME SpellingsAssumption ==
  /\ EofToken \in Tokens
  /\ \A type \in TokenType \ {"UNKNOWN"} : Spelled(type) # {}
ASSUME ClientAssumption == GivesUp \in BOOLEAN

VARIABLES
  phase,   \* "open", "call", "lex" and "parse" in the loop, "done"
  given,   \* history: the tokens handed to the parser, with their spans
  refused  \* history: whether the tokenizer or the parser found an error

all_vars == <<vars, parser_vars, phase, given, refused>>

FrontInit ==
  /\ Init
  /\ ParserInit
  /\ phase = "open"
  /\ given = <<>>
  /\ refused = FALSE

Open ==
  /\ phase = "open"
  /\ SetTokenizerFile
  /\ phase' = "call"
  /\ UNCHANGED <<parser_vars, given, refused>>

Call ==
  /\ phase = "call"
  /\ CallGetNextToken
  /\ phase' = "lex"
  /\ UNCHANGED <<parser_vars, given, refused>>

RunTokenizer ==
  /\ phase = "lex"
  /\ Fetch \/ Dispatch
  /\ UNCHANGED <<parser_vars, phase, given, refused>>

Give(t, span) ==
  /\ ParseOneToken(t)
  /\ given' = Append(given, [token |-> t, span |-> span])
  /\ phase' = "parse"
  /\ UNCHANGED <<vars, refused>>

HandOver ==
  /\ phase = "lex" /\ pc = "idle"
  /\ \/ /\ status = 0
        /\ LET t == returned[Len(returned)]
           IN  \E s \in Spelled(t.token_type) : Give(s, t.span)
     \/ status = EOF /\ Give(EofToken, <<>>)

(* After an error the client stops or goes on with the next token.         *)
GoOn(error, last) ==
  /\ refused' = (refused \/ error)
  /\ phase' \in {IF last THEN "done" ELSE "call"}
                \cup IF error /\ GivesUp THEN {"done"} ELSE {}
  /\ UNCHANGED <<vars, parser_vars, given>>

AfterLexError == phase = "lex" /\ pc = "idle" /\ status > 0 /\ GoOn(TRUE, FALSE)

RunParser ==
  /\ phase = "parse"
  /\ Handle
  /\ UNCHANGED <<vars, phase, given, refused>>

AfterParse ==
  /\ phase = "parse" /\ parser_pc = "idle"
  /\ GoOn(parser_status # 0, status = EOF)

Run == Call \/ RunTokenizer \/ HandOver \/ AfterLexError \/ RunParser \/ AfterParse

FrontNext == Open \/ Run

(* Once a file is open the client, one process, runs on to its end.        *)
FrontSpec == FrontInit /\ [][FrontNext]_all_vars /\ WF_all_vars(Run)

-----------------------------------------------------------------------------
(* The line of the text a position is on: how many lines end before it, at *)
(* a CR, an LF or the two together, the end of a comment included.         *)
EndsALine(q) ==
  /\ IsNewline(input[q])
  /\ ~(input[q] = "cr" /\ q < Len(input) /\ input[q + 1] = "lf")
LineOf(p) == Cardinality({q \in 1 .. p - 1 : EndsALine(q)})

Accepted == phase = "done" /\ ~refused

(* A text is accepted whole: when the client ends without an error, every  *)
(* character that was read and is neither blank nor part of a comment was  *)
(* in a token the parser was handed, the last of them too, which only the  *)
(* end of the file ends; and no statement is left half read. (The end of   *)
(* the file is a token like any other, which one handler knows.)           *)
WholeTextTaken ==
  Accepted =>
    /\ line = <<>>
    /\ \A p \in 1 .. Consumed :
         ~(Blank(p) \/ Commented(p)) =>
           \E j \in 1 .. Len(given) : p \in Elements(given[j].span)

(* Until an error is found a statement stays on its line of the text, also *)
(* if the line ends in a comment, and the next begins behind it: the       *)
(* tokens of the statements accepted are, in turn, the tokens of the text. *)
StatementsOnLines ==
  ~refused =>
    LET Size(k) == Len(lines[k].tokens)
        First[k \in 1 .. Len(lines) + 1] ==
          IF k = 1 THEN 1 ELSE First[k - 1] + Size(k - 1)
        At(j) == {LineOf(p) : p \in Elements(given[j].span)}
    IN  \A k \in 1 .. Len(lines) :
          LET span == First[k] .. First[k] + Size(k) - 1
          IN  /\ span \subseteq 1 .. Len(given)
              /\ \A j \in span : given[j].token = lines[k].tokens[j - First[k] + 1]
              /\ Cardinality(UNION {At(j) : j \in span}) = 1

(* Of an accepted text every name before a colon is there as a symbol, and *)
(* nothing else is, in the order of the text, if there was memory for it.  *)
SymbolsOfText ==
  LET symbols == {i \in 1 .. Len(statements) : statements[i].kind = "SYMBOL_STMT"}
      colons  == {p \in 1 .. Consumed : input[p] = "colon" /\ ~Commented(p)}
      labels  == {j \in 1 .. Len(given) - 1 : Elements(given[j + 1].span) \subseteq colons
                                              /\ given[j + 1].span # <<>>}
      Rank(S, x) == Cardinality({y \in S : y <= x})
  IN  (Accepted /\ lost = 0) =>
        /\ Cardinality(symbols) = Cardinality(colons)
        /\ \A j \in labels : \E i \in symbols :
             /\ Rank(symbols, i) = Rank(labels, j)
             /\ statements[i].s.name = given[j].token.span

(* The end of a file is reached, unless the parser is in the call that     *)
(* never returns, for want of the name of a section.                       *)
ReachesEnd ==
  phase = "call" ~>
    [](\/ phase = "done"
       \/ phase = "parse" /\ parser_pc = "loop" /\ state = "NEEDING_SECTION_NAME")
=============================================================================
