------------------------------- MODULE Minias -------------------------------
(***************************************************************************)
(* The program minias (src/minias/main.c): it runs the tokenizer over one  *)
(* file until the first error or the end of the file and prints the        *)
(* tokens. It gets no further yet: there is neither parsing nor output.    *)
(***************************************************************************)
EXTENDS Tokenizer

CONSTANT OpenFails   \* whether fopen or malloc may return NULL

ASSUME OpenAssumption == OpenFails \in BOOLEAN

VARIABLES
  phase,      \* "start", "call" and "wait" in the loop, "exited"
  exit_code,  \* what main returned, or CRASHED
  printed     \* the tokens printed: an index in returned, or Stale

minias_vars == <<phase, exit_code, printed>>
all_vars == <<vars, minias_vars>>

CRASHED == -1

(* What is printed when get_next_token left the token as it was: the token *)
(* before it once more, or memory nobody wrote.                            *)
Stale == 0

MiniasInit ==
  /\ Init
  /\ phase = "start"
  /\ exit_code = 0
  /\ printed = <<>>

Exit(code) ==
  /\ phase' = "exited"
  /\ exit_code' = code

(* The wrong number of arguments.                                          *)
Usage ==
  /\ phase = "start"
  /\ Exit(1)
  /\ UNCHANGED <<vars, printed>>

(* A NULL from malloc or fopen is used as if it were none.                 *)
NoFile ==
  /\ phase = "start"
  /\ OpenFails
  /\ Exit(CRASHED)
  /\ UNCHANGED <<vars, printed>>

Open ==
  /\ phase = "start"
  /\ SetTokenizerFile
  /\ phase' = "call"
  /\ UNCHANGED <<exit_code, printed>>

Call ==
  /\ phase = "call"
  /\ CallGetNextToken
  /\ phase' = "wait"
  /\ UNCHANGED <<exit_code, printed>>

RunTokenizer ==
  /\ phase = "wait"
  /\ Fetch \/ Dispatch
  /\ UNCHANGED minias_vars

(* Mutant: an error does not end the loop.                                 *)
AfterCallIgnoresErrors ==
  /\ phase = "wait" /\ pc = "idle"
  /\ printed' = IF status > 0 THEN printed
                ELSE Append(printed, IF status = EOF THEN Stale ELSE Len(returned))
  /\ IF status = EOF THEN Exit(0)
     ELSE phase' = "call" /\ UNCHANGED exit_code
  /\ UNCHANGED vars

(* The rest of the loop after get_next_token has returned.                 *)
AfterCall ==
  /\ phase = "wait" /\ pc = "idle"
  /\ CASE status > 0   -> Exit(status) /\ UNCHANGED printed
       [] status = EOF -> Exit(0) /\ printed' = Append(printed, Stale)
       [] OTHER        -> /\ phase' = "call"
                          /\ printed' = Append(printed, Len(returned))
                          /\ UNCHANGED exit_code
  /\ UNCHANGED vars

MiniasNext == Usage \/ NoFile \/ Open \/ Call \/ RunTokenizer \/ AfterCall

(* The program is one process that runs on until it exits.                 *)
MiniasSpec == MiniasInit /\ [][MiniasNext]_all_vars /\ WF_all_vars(MiniasNext)

-----------------------------------------------------------------------------
(* The program exits, whatever is in the file and wherever reading fails.  *)
Exits == <>(phase = "exited")

PrintedText ==
  UNION {Elements(returned[i].span) : i \in Elements(printed) \ {Stale}}

(* An exit code of 0 says that the whole file was tokens, blanks and       *)
(* comments: each character that was read is in a token that was printed   *)
(* or is none of a token, the tokens were printed once each and in order,  *)
(* and reading stopped at the end of the file, at a read error or, where   *)
(* char is signed, at the byte 0xFF.                                       *)
ExitZeroMeansLexed ==
  (phase = "exited" /\ exit_code = 0) =>
    /\ rejected = {}
    /\ printed = Append([i \in 1 .. Len(returned) |-> i], Stale)
    /\ \A p \in 1 .. Consumed : p \in PrintedText <=> ~(Blank(p) \/ Commented(p))
    /\ \/ Consumed = Len(input)
       \/ ShortReads
       \/ CharSigned /\ input[Consumed] = "xff"

(* An error of the tokenizer is an exit code that names it, and what was   *)
(* printed before it is all there is before the character at fault.        *)
ErrorMeansRejected ==
  (phase = "exited" /\ exit_code > 0 /\ files_set > 0) =>
    /\ exit_code = status /\ rejected = {cur} /\ cur = Consumed
    /\ printed = [i \in 1 .. Len(returned) |-> i]
    /\ \A p \in 1 .. cur - 1 :
         p \in PrintedText \cup Elements(token) <=> ~(Blank(p) \/ Commented(p))
=============================================================================
