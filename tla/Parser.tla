------------------------------- MODULE Parser -------------------------------
(***************************************************************************)
(* The parser of minias (src/minias/parser.c): a client hands it one token *)
(* per call of parse_one_token, whose loop follows the flowchart of        *)
(* parser_state_t until a new token is needed, and adds the statements it  *)
(* completes to a prebytecode_t.                                           *)
(*                                                                         *)
(* One step is the start of a call or one pass of the loop, the handler of *)
(* one state. The client may be any: it goes on after errors and after the *)
(* end of the program.                                                     *)
(*                                                                         *)
(* `calls`, `fed`, `line`, `clean`, `lines`, `pushed` and `lost` are       *)
(* history variables.                                                      *)
(***************************************************************************)
EXTENDS Prebytecode, Data, FiniteSets

CONSTANTS
  Tokens,        \* the tokens the client hands over; NoToken stands for NULL
  MaxTokens,     \* bound on the calls of parse_one_token
  CapacityStep,  \* the slots a full prebytecode_t grows by: 8
  MayFail        \* whether malloc and realloc may return NULL

InputTokenType == {"UNKNOWN", "IDENTIFIER", "INT", "FLOAT", "COMMA", "NEWLINE",
              "COLON", "EOF"}

(* A token: the characters of its span and, for an INT, the number they    *)
(* spell.                                                                  *)
InputToken == [token_type : InputTokenType, span : Seq(STRING), value : Nat]

(* init_token                                                              *)
NoToken == [token_type |-> "UNKNOWN", span |-> <<>>, value |-> 0]

(* make_eof_token                                                          *)
EofToken == [NoToken EXCEPT !.token_type = "EOF"]

ASSUME TokensAssumption ==
  /\ \A t \in Tokens : t \in InputToken
  /\ MaxTokens \in Nat
  /\ CapacityStep \in Nat \ {0}
  /\ MayFail \in BOOLEAN

ParserState ==
  {"INIT", "DONE", "GETTING_INITIAL", "DETECTING_TYPE", "SETTING_DATA",
   "FINDING_ARGUMENT", "AWAITING_ARG_COMMA", "NEEDING_SECTION_NAME",
   "EXPECTING_COLON", "DEMANDING_SIZE_COMMA", "REQUIRING_SIZE",
   "ANTICIPATING_TERMINATING"}

section == <<"s", "e", "c", "t", "i", "o", "n">>
data == <<"d", "a", "t", "a">>

VARIABLES
  prev_token, curr_token, need_new_token, state, stmt,  \* *p
  statements, stmts_capacity, block,                    \* *b
  push_status,  \* what the latest push_prebytecode_stmt returned, unread
  parser_pc,     \* "loop" inside parse_one_token, "idle" outside
  parser_status, \* what the latest parse_one_token returned
  calls,        \* history: how often parse_one_token was called
  fed,          \* history: the two tokens handed over last
  line,         \* history: the tokens accepted since the latest statement
  clean,        \* history: whether none was refused in between
  lines,        \* history: the statements accepted, by their tokens
  pushed,       \* history: for each statement, the call that pushed it and fed
  lost          \* history: how many statements there was no memory for

input_vars   == <<prev_token, curr_token, calls, fed>>
vector_vars  == <<statements, stmts_capacity, block, push_status, pushed, lost>>
history_vars == <<line, clean, lines>>
parser_vars == <<input_vars, need_new_token, state, stmt, vector_vars, parser_pc, parser_status,
          history_vars>>

Named == [name : Seq(STRING)]
Register == [id : 0 .. UINT_MAX, type : Nat, size : Nat]
Value == [value : Block, type : Nat, size : Nat]
Argument == [kind : {"REGISTER_ARG"}, a : Register]
            \cup [kind : {"SYMBOL_ARG"}, a : Named]
            \cup [kind : {"VALUE_ARG"}, a : Value]
Instruction == [mnemonic : {"INVALID"} \cup DOMAIN Spelling,
                arg_1 : Argument, arg_2 : Argument]
DataStmt == [data : Block \cup {NullData}, length : Nat, size : Nat, type : Nat]

(* The statements the parser builds: the kind and the member of the union. *)
Stmt == [kind : {"INSTRUCTION_STMT"}, s : Instruction \cup Named]
        \cup [kind : {"DATA_STMT"}, s : DataStmt]
        \cup [kind : {"SYMBOL_STMT"}, s : Named]

Vector == INSTANCE StatementVector
            WITH Statement <- Stmt, StmtSize <- 1, Capacities <- {},
                 MaxStatements <- MaxTokens, status <- push_status

-----------------------------------------------------------------------------
(* init_parser, on a new prebytecode_t                                     *)
ParserInit ==
  /\ prev_token = NoToken
  /\ curr_token = NoToken
  /\ need_new_token = TRUE
  /\ state = "INIT"
  /\ stmt = init_statement
  /\ Vector!Init
  /\ parser_pc = "idle"
  /\ parser_status = 0
  /\ calls = 0
  /\ fed = <<NoToken, NoToken>>
  /\ line = <<>>
  /\ clean = TRUE
  /\ lines = <<>>
  /\ pushed = <<>>
  /\ lost = 0

(* parse_one_token up to its loop, push_token included.                    *)
ParseOneToken(t) ==
  /\ parser_pc = "idle"
  /\ calls < MaxTokens
  /\ calls' = calls + 1
  /\ prev_token' = curr_token
  /\ curr_token' = t
  /\ fed' = <<fed[2], t>>
  /\ state' = IF state \in {"INIT", "DONE"} THEN "GETTING_INITIAL" ELSE state
  /\ need_new_token' = FALSE
  /\ parser_pc' = "loop"
  /\ UNCHANGED <<stmt, vector_vars, parser_status, history_vars>>

(* How a pass of the loop ends: with another pass, with the return of 0 to *)
(* fetch a new token, or with an error return, after which the parser      *)
(* stays in the state it failed in.                                        *)
Goto(next) ==
  /\ state' = next
  /\ UNCHANGED <<need_new_token, parser_pc, parser_status, history_vars>>

Await(next) ==
  /\ state' = next
  /\ need_new_token' = TRUE
  /\ parser_pc' = "idle"
  /\ parser_status' = 0
  /\ IF next \in {"INIT", "DONE"}
     THEN /\ lines' = Append(lines, [tokens |-> Append(line, curr_token),
                                     clean |-> clean])
          /\ line' = <<>>
          /\ clean' = TRUE
     ELSE /\ line' = Append(line, curr_token)
          /\ UNCHANGED <<clean, lines>>

FailIn(next, need, code) ==
  /\ state' = next
  /\ need_new_token' = need
  /\ parser_status' = code
  /\ parser_pc' = "idle"
  /\ clean' = (line = <<>>)
  /\ UNCHANGED <<line, lines>>

FailHere(code) == FailIn(state, need_new_token, code)

(* push_prebytecode_stmt, as the parser calls it: it may fail unnoticed.   *)
Push(s) ==
  /\ Vector!PushPrebytecodeStmt(s)
  /\ IF push_status' = 0
     THEN pushed' = Append(pushed, [call |-> calls, fed |-> fed]) /\ lost' = lost
     ELSE lost' = lost + 1 /\ pushed' = pushed

-----------------------------------------------------------------------------
(* The handlers                                                            *)

GettingInitial ==
  /\ stmt' = init_statement
  /\ IF curr_token.token_type = "IDENTIFIER"
     THEN Await(IF curr_token.span = section THEN "NEEDING_SECTION_NAME"
                                             ELSE "DETECTING_TYPE")
     ELSE FailHere(1)
  /\ UNCHANGED vector_vars

(* Mutant: the symbol is named after the colon instead of what is before.  *)
SymbolOfColon(token) ==
  [kind |-> "SYMBOL_STMT", s |-> [name |-> curr_token.span]]

Symbol(token) == [kind |-> "SYMBOL_STMT", s |-> [name |-> token.span]]

DetectingType ==
  IF curr_token.token_type = "COLON"
  THEN /\ stmt' = Symbol(prev_token)
       /\ Push(Symbol(prev_token))
       /\ Await("INIT")
  ELSE /\ UNCHANGED vector_vars
       /\ CASE prev_token.token_type # "IDENTIFIER" ->
                 FailHere(1) /\ UNCHANGED stmt
            [] prev_token.token_type = "IDENTIFIER" /\ prev_token.span = data ->
                 /\ stmt' = [kind |-> "DATA_STMT", s |-> init_data_stmt]
                 /\ Goto("SETTING_DATA")
            [] OTHER ->
                 \E r \in parse_instruction_mnemonic(prev_token.span,
                                                     init_instruction) :
                   /\ stmt' = [kind |-> "INSTRUCTION_STMT", s |-> r.i]
                   /\ IF r.status # 0 THEN FailHere(r.status)
                                      ELSE Goto("FINDING_ARGUMENT")

(* The block for the number is allocated before the number is read.        *)
SettingData ==
  LET DataIs(bytes, length, type) ==
        \/ MayFail /\ FailHere(1) /\ UNCHANGED stmt
        \/ /\ stmt' = [stmt EXCEPT !.s.data = bytes, !.s.length = length,
                                   !.s.type = type]
           /\ Await("DEMANDING_SIZE_COMMA")
      integer == StrToUint64(curr_token.value)
  IN  /\ CASE curr_token.token_type = "INT" ->
                  DataIs(IntBlock(integer), LeIntWidth(integer, 0),
                         UNSIGNED_INT_TYPE)
             [] curr_token.token_type = "FLOAT" ->
                  DataIs(StrToFloatBytes, 8, FLOAT_TYPE)
             [] OTHER -> FailHere(1) /\ UNCHANGED stmt
      /\ UNCHANGED vector_vars

(* Mutant: a register that was not set is not told from one that was.      *)
SetRegisterUnchecked(s, dest, def) == parse_register(s, def)

(* _set_register: the status and what is in *dest afterwards. A conflict   *)
(* is found when part of *dest is already overwritten.                     *)
SetRegister(s, dest, def) ==
  LET p == parse_register(s, def)
  IN  CASE p.status # 0 -> [status |-> p.status, reg |-> dest]
        [] p.status = 0 /\ dest.type \notin {UNKNOWN_TYPE, p.reg.type} ->
             [status |-> 1, reg |-> [dest EXCEPT !.id = p.reg.id]]
        [] p.status = 0 /\ dest.type \in {UNKNOWN_TYPE, p.reg.type}
                        /\ dest.size \notin {UNKNOWN_SIZE, p.reg.size} ->
             [status |-> 1, reg |-> [p.reg EXCEPT !.size = dest.size]]
        [] OTHER -> [status |-> 0, reg |-> p.reg]

DefaultRegister == [id |-> UNKNOWN_REG, type |-> UNSIGNED_INT_TYPE,
                    size |-> QWORD_SIZE]

FindingRegister(arg, next) ==
  LET set == SetRegister(curr_token.span, stmt.s[arg].a, DefaultRegister)
  IN  IF curr_token.token_type # "IDENTIFIER"
      THEN FailHere(1) /\ UNCHANGED stmt
      ELSE /\ stmt' = [stmt EXCEPT !.s[arg].a = set.reg]
           /\ IF set.status # 0 THEN FailHere(set.status) ELSE Await(next)

(* An arg_1 without a register holds Enum(-1), which is not UNKNOWN_REG,   *)
(* and so passes for one that is set; were it not, the register would go   *)
(* to arg_2.                                                               *)
FindingTwoRegisters ==
  IF stmt.s.arg_1.a.id = UNKNOWN_REG
  THEN FindingRegister("arg_2", "AWAITING_ARG_COMMA")
  ELSE FindingRegister("arg_1", "ANTICIPATING_TERMINATING")

(* The two values of a set instruction, in the room its register has. The  *)
(* eighth byte of an integer is stored behind value, over the low byte of  *)
(* the type, which for all types is all of it.                             *)
FindingInteger ==
  LET reg  == stmt.s.arg_1.a
      n    == StrToUint64(curr_token.value)
      type == IF reg.type = UNKNOWN_TYPE THEN SIGNED_INT_TYPE ELSE reg.type
      size == IF reg.size = UNKNOWN_SIZE THEN QWORD_SIZE ELSE reg.size
      Args(sz, value) == stmt' = [stmt EXCEPT !.s.arg_1.a.type = type,
                                              !.s.arg_1.a.size = sz,
                                              !.s.arg_2 = value]
  IN  IF reg.type = FLOAT_TYPE
      THEN FailHere(1) /\ UNCHANGED stmt
      ELSE IF reg.size = UNKNOWN_SIZE \/ LeIntWidth(n, 0) <= 2^size
           THEN /\ Args(size, value_arg(IntBlock(n), type, 2^size))
                /\ Await("ANTICIPATING_TERMINATING")
           ELSE /\ Args(reg.size, value_arg(IntBlock(n), Byte(n, WORD_BYTES),
                                            UNKNOWN_SIZE))
                /\ FailHere(1)

FindingFloat ==
  LET reg  == stmt.s.arg_1.a
      size == IF reg.size = UNKNOWN_SIZE THEN QWORD_SIZE ELSE reg.size
      Args(sz, bytes, value_size) ==
        stmt' = [stmt EXCEPT !.s.arg_1.a.type = FLOAT_TYPE, !.s.arg_1.a.size = sz,
                             !.s.arg_2 = value_arg(bytes, FLOAT_TYPE, value_size)]
      Done == Await("ANTICIPATING_TERMINATING")
  IN  CASE reg.type \notin {FLOAT_TYPE, UNKNOWN_TYPE} -> FailHere(1) /\ UNCHANGED stmt
        [] reg.type \in {FLOAT_TYPE, UNKNOWN_TYPE} /\ size = QWORD_SIZE ->
             Args(size, StrToFloatBytes, size) /\ Done
        [] reg.type \in {FLOAT_TYPE, UNKNOWN_TYPE} /\ size = DWORD_SIZE ->
             Args(size, DoubleToFloatBytes(StrToFloatBytes), size) /\ Done
        [] OTHER -> Args(size, StrToFloatBytes, UNKNOWN_SIZE) /\ FailHere(1)

FindingSetArgument ==
  IF stmt.s.arg_1.a.id = UNKNOWN_REG
  THEN FindingRegister("arg_1", "AWAITING_ARG_COMMA")
  ELSE CASE curr_token.token_type = "INT"   -> FindingInteger
         [] curr_token.token_type = "FLOAT" -> FindingFloat
         [] curr_token.token_type = "IDENTIFIER" ->
              /\ stmt' = [stmt EXCEPT !.s.arg_2 = symbol_arg(curr_token.span)]
              /\ Await("ANTICIPATING_TERMINATING")
         [] OTHER -> FailHere(1) /\ UNCHANGED stmt

(* The state is advanced also where the register is refused.               *)
FindingCvtArgument ==
  LET p == parse_register(curr_token.span, init_register_arg)
  IN  /\ stmt' = [stmt EXCEPT !.s.arg_1.a.id = p.reg.id, !.s.arg_2.a = p.reg]
      /\ IF p.status = 0 THEN Await("ANTICIPATING_TERMINATING")
         ELSE FailIn("ANTICIPATING_TERMINATING", TRUE, p.status)

(* What is no number is neither accepted nor refused.                      *)
FindingInterrupt ==
  LET n == StrToUint64(curr_token.value)
  IN  IF curr_token.token_type # "INT"
      THEN Goto("FINDING_ARGUMENT") /\ UNCHANGED stmt
      ELSE /\ stmt' = [stmt EXCEPT !.s.arg_1 = value_arg(IntBlock(n),
                                                  Byte(n, WORD_BYTES), BYTE_SIZE)]
           /\ IF LeIntWidth(n, 0) > 1 THEN FailHere(1)
                                      ELSE Await("ANTICIPATING_TERMINATING")

(* Mutant: the state is not advanced for a mnemonic without arguments.     *)
FindingArgumentStays ==
  /\ IF stmt.s.mnemonic = "ADD" THEN FindingTwoRegisters
     ELSE Goto("FINDING_ARGUMENT") /\ UNCHANGED stmt
  /\ UNCHANGED vector_vars

(* The default case prints an error and changes nothing.                   *)
FindingArgument ==
  /\ CASE stmt.s.mnemonic \in {"NOP", "HLT"} ->
            Goto("ANTICIPATING_TERMINATING") /\ UNCHANGED stmt
       [] stmt.s.mnemonic \in {"NOT", "PSH", "POP", "JEQ", "JNE", "JLT", "JLE",
                               "JGT", "JGE"} ->
            FindingRegister("arg_1", "ANTICIPATING_TERMINATING")
       [] stmt.s.mnemonic \in {"ADD", "SUB", "MUL", "DIV", "AND", "IOR", "XOR",
                               "SHL", "SHR", "SAL", "SAR", "ROL", "ROR", "MOV",
                               "LDR", "STR", "XCG", "CMP", "JZR", "JNZ"} ->
            FindingTwoRegisters
       [] stmt.s.mnemonic = "SET" -> FindingSetArgument
       [] stmt.s.mnemonic = "CVT" -> FindingCvtArgument
       [] stmt.s.mnemonic = "INT" -> FindingInterrupt
       [] OTHER -> Goto("FINDING_ARGUMENT") /\ UNCHANGED stmt
  /\ UNCHANGED vector_vars

(* awaiting_arg_comma, expecting_colon and demanding_size_comma.           *)
Expect(type, next) ==
  /\ IF curr_token.token_type = type THEN Await(next) ELSE FailHere(1)
  /\ UNCHANGED <<stmt, vector_vars>>

(* Mutant: the section is not added to the prebytecode_t.                  *)
SectionNotPushed ==
  IF curr_token.token_type = "IDENTIFIER"
  THEN /\ stmt' = [stmt EXCEPT !.s = [name |-> curr_token.span]]
       /\ UNCHANGED vector_vars
       /\ Await("ANTICIPATING_TERMINATING")
  ELSE /\ Goto("NEEDING_SECTION_NAME")
       /\ UNCHANGED <<stmt, vector_vars>>

(* The kind of the statement stays that of init_statement. What is no name *)
(* is neither accepted nor refused: status is 0 and need_new_token is not  *)
(* set, and the loop comes back to the same token.                         *)
NeedingSectionName ==
  IF curr_token.token_type = "IDENTIFIER"
  THEN LET named == [stmt EXCEPT !.s = [name |-> curr_token.span]]
       IN  /\ stmt' = named
           /\ Push(named)
           /\ Await("ANTICIPATING_TERMINATING")
  ELSE /\ Goto("NEEDING_SECTION_NAME")
       /\ UNCHANGED <<stmt, vector_vars>>

(* An integer takes 1, 2, 4 or 8 bytes and no fewer than it has; a float   *)
(* takes 8, or 4 once it is converted. Data of another type, of which      *)
(* there is none, would take any size and not keep it.                     *)
RequiringSize ==
  LET size == StrToUint64(curr_token.value)
      ds   == stmt.s
      Sized(s) == stmt' = [stmt EXCEPT !.s = s]
                  /\ Await("ANTICIPATING_TERMINATING")
  IN  /\ CASE curr_token.token_type # "INT" -> FailHere(1) /\ UNCHANGED stmt
           [] /\ curr_token.token_type = "INT"
              /\ ds.type \in {UNSIGNED_INT_TYPE, SIGNED_INT_TYPE} ->
                 IF size \in {1, 2, 4, 8} /\ size >= ds.length
                 THEN Sized([ds EXCEPT !.size = size])
                 ELSE FailHere(1) /\ UNCHANGED stmt
           [] curr_token.token_type = "INT" /\ ds.type = FLOAT_TYPE ->
                 CASE size = 4 -> Sized([ds EXCEPT !.size = size,
                                                   !.data = DoubleToFloatBytes(@)])
                   [] size = 8 -> Sized([ds EXCEPT !.size = size])
                   [] OTHER    -> FailHere(1) /\ UNCHANGED stmt
           [] OTHER -> Sized(ds)
      /\ UNCHANGED vector_vars

(* Mutant: whatever follows is dropped.                                    *)
AnticipatingAnything ==
  /\ Await("DONE")
  /\ UNCHANGED <<stmt, vector_vars>>

AnticipatingTerminating ==
  /\ IF curr_token.token_type \in {"NEWLINE", "EOF"} THEN Await("DONE")
                                                     ELSE FailHere(1)
  /\ UNCHANGED <<stmt, vector_vars>>

(* One pass of the loop. PARSER_INIT and PARSER_DONE end a call, so the    *)
(* default case of the switch is for them alone.                           *)
Handle ==
  /\ parser_pc = "loop"
  /\ CASE state = "GETTING_INITIAL"      -> GettingInitial
       [] state = "DETECTING_TYPE"       -> DetectingType
       [] state = "SETTING_DATA"         -> SettingData
       [] state = "FINDING_ARGUMENT"     -> FindingArgument
       [] state = "AWAITING_ARG_COMMA"   -> Expect("COMMA", "FINDING_ARGUMENT")
       [] state = "NEEDING_SECTION_NAME" -> NeedingSectionName
       [] state = "EXPECTING_COLON"      -> Expect("COLON", "FINDING_ARGUMENT")
       [] state = "DEMANDING_SIZE_COMMA" -> Expect("COMMA", "REQUIRING_SIZE")
       [] state = "REQUIRING_SIZE"       -> RequiringSize
       [] state = "ANTICIPATING_TERMINATING" -> AnticipatingTerminating
       [] OTHER -> FailHere(1) /\ UNCHANGED <<stmt, vector_vars>>
  /\ UNCHANGED input_vars

ParserNext == (\E t \in Tokens : ParseOneToken(t)) \/ Handle

(* The loop of parse_one_token runs on; when to call is up to the client.  *)
ParserSpec == ParserInit /\ [][ParserNext]_parser_vars /\ WF_parser_vars(Handle)

-----------------------------------------------------------------------------
(* Properties                                                              *)

(* The type invariant. It tells which member of the union s the handler of *)
(* a state finds there: none reads a member that was not written last.     *)
ParserTypeOK ==
  /\ prev_token \in InputToken /\ curr_token \in InputToken
  /\ need_new_token \in BOOLEAN
  /\ state \in ParserState
  /\ stmt \in Stmt
  /\ state = "FINDING_ARGUMENT" =>
       stmt.kind = "INSTRUCTION_STMT" /\ stmt.s \in Instruction
  /\ state \in {"SETTING_DATA", "DEMANDING_SIZE_COMMA", "REQUIRING_SIZE"} =>
       stmt.kind = "DATA_STMT"
  /\ Vector!TypeOK
  /\ parser_pc \in {"idle", "loop"}
  /\ parser_status \in {0, 1}
  /\ calls \in 0 .. MaxTokens
  /\ fed \in InputToken \X InputToken
  /\ line \in Seq(InputToken)
  /\ clean \in BOOLEAN
  /\ lines \in Seq([tokens : Seq(InputToken), clean : BOOLEAN])
  /\ pushed \in Seq([call : Nat, fed : InputToken \X InputToken])
  /\ lost \in Nat

Terminator(t) == t.token_type \in {"NEWLINE", "EOF"}
Identifier(t) == t.token_type = "IDENTIFIER"

IsLabel(l) ==
  Len(l) = 2 /\ Identifier(l[1]) /\ l[1].span # section
             /\ l[2].token_type = "COLON"
IsSection(l) ==
  /\ Len(l) = 3
  /\ Identifier(l[1]) /\ l[1].span = section
  /\ Identifier(l[2]) /\ Terminator(l[3])
IsData(l) ==
  /\ Len(l) = 5
  /\ Identifier(l[1]) /\ l[1].span = data
  /\ l[3].token_type = "COMMA" /\ l[4].token_type = "INT" /\ Terminator(l[5])
  /\ \/ /\ l[2].token_type = "INT"
        /\ l[4].value \in {1, 2, 4, 8}
        /\ StrToUint64(l[2].value) < Power(l[4].value)
     \/ l[2].token_type = "FLOAT" /\ l[4].value \in {4, 8}
IsInstruction(l) ==
  LET Ends == {"UNKNOWN", "COLON", "NEWLINE", "EOF"}
  IN  /\ Len(l) >= 2
      /\ Identifier(l[1]) /\ l[1].span \notin {section, data}
      /\ \A j \in 1 .. Len(l) - 1 : l[j].token_type \notin Ends
      /\ Terminator(l[Len(l)])

(* What the parser accepts without an error is a sequence of labels, of    *)
(* section directives with one name, of data of a size that holds them and *)
(* of instructions, each ended in time: a label by its colon, the others   *)
(* by a newline or the end, and no statement runs on over a terminator or  *)
(* a colon. Which words are mnemonics and how many arguments each takes is *)
(* left open here: there the code does not do what its comments say.       *)
AcceptedStatements ==
  \A i \in 1 .. Len(lines) :
    lines[i].clean => LET l == lines[i].tokens
                      IN  IsLabel(l) \/ IsSection(l) \/ IsData(l) \/ IsInstruction(l)

(* What a prebytecode_t holds comes from the source, in its order and once *)
(* each: a symbol is named by the token before a colon, a section by the   *)
(* identifier right after the word section.                                *)
StatementsFromSource ==
  /\ Len(pushed) = Len(statements)
  /\ \A i \in 1 .. Len(statements) :
       LET before == pushed[i].fed[1]
           now    == pushed[i].fed[2]
           s      == statements[i]
       IN  /\ \A j \in 1 .. i - 1 : pushed[j].call < pushed[i].call
           /\ \/ /\ s.kind = "SYMBOL_STMT"
                 /\ now.token_type = "COLON"
                 /\ s.s.name = before.span
              \/ /\ s.kind = "INSTRUCTION_STMT"
                 /\ before.span = section
                 /\ Identifier(now)
                 /\ s.s.name = now.span

(* The tokens at which a statement was due in the prebytecode_t.           *)
Pushes(l) == \/ Len(l) >= 2 /\ l[1].span = section
             \/ Len(l) = 2 /\ l[2].token_type = "COLON"

(* And every label and every section directive that was accepted is there, *)
(* also when a later token of the line is refused, but for those there was *)
(* no memory for.                                                          *)
StatementsComplete ==
  Len(statements) + lost
    = Cardinality({i \in 1 .. Len(lines) : Pushes(lines[i].tokens)})
      + IF Pushes(line) THEN 1 ELSE 0

(* requiring_size, "size explicitly given is smaller than width of         *)
(* integer": the size accepted is wide enough for the number the source    *)
(* spells, and a float is converted exactly once, if its size is 4,        *)
(* whatever was refused in between. (Where in the block the bytes of the   *)
(* number are is another matter: see LeIntBuffer.)                         *)
SizeFitsNumber ==
  (stmt.kind = "DATA_STMT" /\ state = "ANTICIPATING_TERMINATING") =>
    LET ds     == stmt.s
        number == line[2]
    IN  \/ /\ number.token_type = "INT" /\ ds.data.form = "int"
           /\ ds.size \in {1, 2, 4, 8}
           /\ StrToUint64(number.value) < Power(ds.size)
        \/ /\ number.token_type = "FLOAT"
           /\ \/ ds.data.form = "double" /\ ds.size = 8
              \/ ds.data.form = "float" /\ ds.size = 4

(* _set_register: "If the register `s` has a data type or size that        *)
(* conflicts with that in `dest`, a non-zero error code is returned". A    *)
(* typed instruction is completed with a register of its type alone, also  *)
(* after registers of other types were refused.                            *)
RegisterAgrees ==
  (/\ state \in {"ANTICIPATING_TERMINATING", "DONE"}
   /\ stmt.kind = "INSTRUCTION_STMT" /\ stmt.s \in Instruction
   /\ stmt.s.mnemonic = "ADD")
  => stmt.s.arg_1.a.type = stmt.s.arg_2.a.type

(* And of _set_register too: what the mnemonic or a register before has    *)
(* set of the argument, its type or its size, no register changes, not one *)
(* that is refused when part of it was already written either.             *)
KeepsBound ==
  LET before == stmt.s.arg_1.a
      after  == stmt'.s.arg_1.a
  IN  (state = "FINDING_ARGUMENT" /\ parser_pc = "loop") =>
        /\ before.type # UNKNOWN_TYPE => after.type = before.type
        /\ before.size # UNKNOWN_SIZE => after.size = before.size

MnemonicBinds == [][KeepsBound]_parser_vars

(* Every call of parse_one_token returns, but for the one that is handed   *)
(* something else than a name after the word section.                      *)
CallReturnsButInSection ==
  (parser_pc = "loop") ~> (parser_pc = "idle" \/ state = "NEEDING_SECTION_NAME")

(* What the comment on the loop says, "traverse the flowchart until a new  *)
(* token is needed": every call returns.                                   *)
EveryCallReturns == (parser_pc = "loop") ~> (parser_pc = "idle")

(* parser.h on PARSER_DETECTING_TYPE: "if current token matches one of the *)
(* instruction mnemonics, goto PARSER_FINDING_ARGUMENT", and no other.     *)
MnemonicDetected ==
  (parser_pc = "loop" /\ state = "FINDING_ARGUMENT") =>
    \E m \in DOMAIN Spelling : StartsWith(prev_token.span, Spelling[m])
=============================================================================
