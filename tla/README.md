# MiniISA in TLA+

MiniISA is an assembler (`minias`) for a small instruction set, written in C,
and a library (`libminiisa`) for the object files the assembler is to produce.
This directory holds TLA+ modules of the code, TLC runs that check them on
small instances and TLAPS proofs of some of the results for every instance.
Paths below are relative to the repository.

## 1. Inventory

| Part | Source | State | Operations |
| --- | --- | --- | --- |
| tokenizer | `src/minias/tokenizer.c` | `tokenizer_t`: `FILE *`, a buffer filled by `fread`, the token under construction, its type, `last_char`, `is_comment` | `init_tokenizer`, `set_tokenizer_file`, `get_next_token` |
| token | `src/minias/token.c` | `token_t`: type, span, line, column | `init_token`, `copy_token`, `make_eof_token` (meant for a client of the parser) |
| parser | `src/minias/parser.c` | `parser_t`: two tokens, a state of the flowchart, the statement under construction | `init_parser`, `parse_one_token` and one handler per state |
| prebytecode | `src/minias/prebytecode.c` | `prebytecode_t`: a growing array of statements | init, `set_prebytecode_capacity`, `push_prebytecode_stmt` |
| registers and mnemonics | `src/minias/prebytecode.c` | none | `parse_register`, `parse_instruction_mnemonic` |
| statement constructors | `src/minias/prebytecode.c` | none | `init_statement`, `init_instruction`, ... |
| number conversions | `src/miniisa/data.c` | none | number to little-endian bytes, strings to numbers |
| object file arrays | `src/miniisa/bytecode.c` | `miniisa_bytecode_t`: arrays of sections and symbols | init, `..._new_section`, `..._new_symbol`, `..._terminate_last_...` |
| sections, symbols | `src/miniisa/section.c`, `symbol.c` | a name and a range of bytes each | init, `..._set_name` |
| program | `src/minias/main.c` | locals of `main` | the token-printing loop |
| instruction codec | `src/miniisa/instruction.c` | none | stubs that return 0 |

How they interact. `main` opens one file, hands it to a tokenizer and prints
tokens until `get_next_token` returns an error or EOF. A client of the parser
(there is none yet: `main` does not get that far) gives it one token per call of
`parse_one_token`; the parser copies the token, follows its flowchart until it
needs another one, asks `parse_register`, `parse_instruction_mnemonic` and the
conversions about spans, and pushes what it completes on a `prebytecode_t`.
Nothing yet turns a `prebytecode_t` into a `miniisa_bytecode_t`; the object file
library stands alone. All calls are synchronous, by one thread; nothing is
persisted. The environment is `fread`, `fopen`, `malloc` and `realloc`, which
may fail.

What is hard, then, is not concurrency but long sequences of calls:

* state that survives a return: what an error return leaves behind in the
  tokenizer and the parser, and what the next call makes of it; files exchanged
  between two calls; a statement pieced together from tokens around an error;
* the same character or token looked at twice or not at all (`last_char`,
  `need_new_token`), at the end of the buffer or of the file as well;
* a loop that must come to an end (`get_next_token`, `parse_one_token`, `main`);
* allocation that fails in the middle of an operation;
* boundaries: the longest token and name, the byte 0xFF, the width of a number,
  unsigned numbers compared with -1.

What makes each part correct:

* tokenizer: every character of the input is in exactly one token, in order,
  or is a blank, a comment or the one an error names; tokens are as long as they
  can be; a call returns;
* parser: no statement it accepts runs on over its end, every label and
  section directive is pushed once and in order, a size holds its number, what was
  bound by an argument stays bound, a call returns;
* tokenizer and parser together: an accepted text is taken whole, a statement stays
  on its line, labels become symbols in the text's order, its end is reached;
* prebytecode: an append-only list whose count stays within its capacity, in a
  block that is large enough;
* registers and mnemonics: a name stands for the register or mnemonic it spells
  and nothing else does;
* conversions: the bytes are those of the number, in order;
* object file: blocks as large as the arrays, ranges within the bytes, elements
  that are final once another follows, names that read back as they were set;
* program: an exit code of 0 exactly when the whole file was tokens.

## 2. Modules

| Module | Models | Steps |
| --- | --- | --- |
| `Tokenizer` | `tokenizer.c` | a character fetched; a pass of the loop body; a call; a new file |
| `Lexemes` | abstract: the words of the language and what is passed over | operators |
| `Lexer` | abstract: what `get_next_token` promises | a token cut, a character rejected, the end found, another file |
| `TokenizerRefinement` | the mapping from `Tokenizer` to `Lexer` | |
| `Minias` | `main.c`, on top of `Tokenizer` | usage, `fopen`, a call, a step of the tokenizer, the rest of the loop |
| `Data` | `data.c`: the conversions | operators |
| `Conversions` | calls of `miniisa_str_to_le_int` on a cleared buffer | the call |
| `Prebytecode` | `prebytecode.c`: registers, mnemonics and the inits | operators |
| `RegisterNames` | one call of `parse_register`, against the names in `NOTES` | the call |
| `StatementList` | abstract: a bounded list to which statements are appended, or not | push, failure |
| `StatementVector` | `prebytecode.c`: the growing array | set capacity, push |
| `Parser` | `parser.c`, with `StatementVector`, `Prebytecode` and `Data` | the start of a call; a pass of the loop |
| `FrontEnd` | `Tokenizer` and `Parser` joined by a client | a file, a call, a step of either, a token handed over, an error |
| `Bytecode` | `bytecode.c` | one call each; a byte appended by the environment |
| `ObjectNames` | the names of `section.c` and `symbol.c` | the two `init` and the two `set_name` |
| `ObjectFile` | `Bytecode` and `ObjectNames` joined: elements with their names | a call of either |
| `*Proofs` | TLAPS proofs about the module they extend | |
| `MC*` | values of the constants for TLC | |

Each module names its variables after the C fields and its actions after the C
functions. How the data is abstracted:

* `Tokenizer`. A character of the file is its class: the eleven classes are the
  ones the `if`s of `get_next_token` and the `switch` tell apart, for the C locale.
  A token is the sequence of the *positions* of its characters in the input, so
  that a property can say which characters became which token; `input` grows
  when a file is set, and what the buffer still holds of the old file stays in
  front. `buffer[i]` is not kept, since `fread` filled the buffer with the last
  `buf_len` characters read. Whether plain `char` is signed is a constant,
  because 0xFF is EOF where it is.
* `Parser`. A span is a short sequence of characters, because mnemonics and
  registers are looked up by prefix and by suffix; the value of a number is kept
  instead of its digits, its double value is not kept at all (a float of size 4 or
  8 has only a form). The name of a state is that of `parser_state_t` without its
  prefix. `prev_token` and `curr_token` are values, for `copy_token` copies.
  Which member of a union is live is visible in its shape. All cases of
  `finding_argument` are there, also those of the 32 mnemonics that
  `parse_instruction_mnemonic`, as it compares, never returns: that they are dead
  follows from its comparison (`MnemonicResults` in the proofs) and is neither a
  decision of the model nor something it asks for. An integer's block is the one the
  conversion leaves, byte i of the number at offset i (`IntBlock`, from `data.c:22-29`);
  what the source spelled is in the token. The byte behind the
  terminator that `match_mnemonic` reads for a name of three characters is a
  choice over everything it may be.
* `FrontEnd`. The tokenizer knows classes of characters and the parser spellings:
  where a token is handed over, its spelling is a choice over the `Tokens` of its
  type (`Spelled`), for a character of the file stands for a run of its
  class. The client is external: it does what `main` does with tokens and what the
  comments of `parser.h` ask for, each token once and an EOF token after the last,
  and stops at an error or goes on. The properties speak of the lines of the text as
  an editor shows them: CR, LF and CR LF end one (`EndsALine`), in a comment too. The
  text is what was `Consumed`: the whole file, unless `fread` fails or a byte 0xFF
  reads as EOF.
* `StatementVector`. The array is what was stored in it, and `block` the number of
  bytes it was allocated; that a store may lie outside of the block is the
  subject of a run and not a reason for the model to stop.
* `Bytecode`. An element is its range; a block is its size; `size_t` arithmetic
  is modulo `SIZE_MAX + 1`. The assembler that appends bytes and adds elements
  where the bytes end does not exist yet: it is marked external.
* `ObjectNames`. The buffers with every character, on memory that held anything.
* `ObjectFile`. The client has one struct for all sections and one for all
  symbols; the call copies it, name buffer and all, into the array.

How `Tokenizer` maps to `Lexer`. The abstract state is the text, what is left of it
and the tokens handed out. What is left, in the middle of a call as well as
between two, is the unfinished token, the character put back, the one in hand, and
what has not left the buffer or the file, in this order and without what is passed
over at its front. A call of `get_next_token` is one step of `Lexer` when it
returns and stutters before. Two things of the code show in the abstract
specification because a client can see them: the character that is looked at behind
a word is gone if it was the byte 0xFF read as EOF, and an error removes the
character at fault and leaves the beginning of the token to the next call.

History variables (`returned`, `rejected`, `eof_at`; `calls`, `fed`, `line`,
`clean`, `lines`, `pushed`, `lost`; `printed`; `given`, `refused`; `set`,
`section_sets`, `symbol_sets`) are read by no guard but for
the bound on `calls`.

## 3. Runs

| Run | Bounds | What it shows |
| --- | --- | --- |
| `tokenizer` | all files of up to 4 characters of all 11 classes, buffer 2, token 3 | The tokenizer implements `Lexer`; the type and the text of the unfinished token agree, EOF is the end, three of the error codes cannot occur; also with a client that goes on after errors |
| `tokenizer_files` | two files of up to 2 characters of 4 classes, buffer 2, token 2, failing `fread` | The text comes out in order and complete and tokens are maximal, also where files are exchanged in the middle of a token or comment and reads fail; every call returns |
| `minias` | files of up to 4 characters of 7 classes, failing `fopen` and `fread` | The program exits; 0 means lexed; an error code names the character at fault |
| `parser` | 5 tokens of 17 sorts, failing allocation | Each accepted line has the shape of a statement and ends in time, labels and sections are pushed once and in order, a size is wide enough for the number in the source, a register agrees in type with the default and no register changes what was bound before it; a call returns but in one state |
| `parser_section` | 3 tokens | **Violated**: after `section`, a token that is no name makes `parse_one_token` loop forever |
| `parser_mnemonic` | 3 tokens | **Violated**: a word that begins with no mnemonic is taken for one |
| `register_names` | all names of up to 4 characters over 9 letters, and more | Every register is recognised under every name, and nothing else is taken for one of the 16 |
| `statement_vector` | capacities 0, 1, 4, up to 6 statements, failing `realloc` | The count stays within the capacity, and the array implements `StatementList` |
| `statement_vector_block` | 2 statements | **Violated**: a statement is stored outside of the block |
| `conversions_buffer` | numbers around every power of the byte | **Violated**: the first byte is not at `buf[0]` |
| `front_end` | all files of up to 4 of 8 pieces (a word, a word or number behind a space, comma, colon, CR, LF, semicolon), 4 words | A text accepted was handed over whole and left no statement half read; the statements are cut from the text one after the other and each stays on its line, comments included; labels become symbols in the order of the text; the end is reached but for `section` without a name |
| `object_file` | 3 elements, 1 byte, an allocator with room for 2 of each, names of up to 3 characters in a buffer for 2 | Blocks are as large as the arrays, ranges lie within the bytes, elements are final, and each keeps the name it was added with |

Why the bounds are enough:

* *Buffer of 2, token of 2 or 3, files of 4.* The refill depends on
  `buf_idx >= buf_len` alone. With a buffer of 2, a file of 4 characters has a
  refill in front of, inside and behind each token of two or three characters,
  each CR LF and each comment, and may end at the end of the buffer or before it.
  A token of `MaxTokenLen` and one that is too long occur; an error in the
  middle of a token is followed by up to three more characters.
* *5 tokens for the parser.* The longest statement, data, takes five; a label
  or a section followed by the start of another statement, and a statement with
  one or two refused tokens, fit as well. `CapacityStep` is 1 so that the vector
  grows at every push, and may fail each time. A byte is a digit of base 8
  (`ByteBase`) so that the widths 1, 2, 4 and 8 are numbers TLC can hold.
* *`UINT_MAX` of 65535.* Only -1, -2, 0xFF and 0 to 19 matter for a register id;
  that 0xFF is not `UINT_MAX` is kept.
* *4 pieces for the front end.* With the separators in the pieces, a data statement
  (`data 1 , 1`), a section, a label with its instruction, two instructions on two
  lines and each of these in front of a comment fit; the EOF token ends the last.
  CR and LF are pieces of their own, so that CR LF, CR CR and LF CR occur. The
  proofs cover longer files.
* *The object file.* `SIZE_MAX` is 15 and the allocator has 10 bytes, so that
  both arrays meet the refusal: the third section (of 4 bytes) and the third symbol
  (of 5) find no room. Names are shorter than the limit, at it and beyond. The
  proofs cover the rest.

Deadlock. The tokenizer's client stops at nothing and its runs check for
deadlock. The parser's stops at `MaxTokens`, the front end's at the end of the file, a
program exits and a call of `parse_register` is made once: these runs do not.

Fairness. The loops of `get_next_token` and `parse_one_token` run in one thread
without waiting: weak fairness of the steps inside a call. The client's calls
have none, except in `Minias`, where the client is `main`, a program that keeps
running, and in `FrontEnd`, where tokenizer, parser and client are one thread once
a file is open (weak fairness of `Run`; opening the file is not required). `fread` is part of a step: it returns.

Each property is paired with a mutated definition (marked "Mutant" where it
stands) under which TLC finds it violated, so that none holds by the shape of the
model alone.

## 4. Proofs

| Theorem | Statement |
| --- | --- |
| `TokenizerProofs!TypeCorrect` | `Spec => []TypeOK` |
| `TokenizerProofs!TokenStateCorrect` | `Spec => [](TokenStateOK /\ NoImpossibleError)` |
| `TokenizerProofs!NoImpossibleErrorCorrect` | `Spec => []NoImpossibleError` |
| `TokenizerProofs!TextInOrderCorrect` | `Spec => []TextInOrder` |
| `TokenizerProofs!TextAccountedForCorrect` | `Spec => []TextAccountedFor` |
| `TokenizerProofs!TokensMaximalCorrect` | `Spec => []TokensMaximal` |
| `TokenizerProofs!EofMeansEndCorrect` | `Spec => EofMeansEnd`, if `~ShortReads` |
| `TokenizerRefinementProofs!ImplementsLexerCorrect` | `Spec => ImplementsLexer`, if `~ShortReads` |
| `MiniasProofs!ExitZeroCorrect` | `MiniasSpec => []ExitZeroMeansLexed` |
| `MiniasProofs!ErrorCorrect` | `MiniasSpec => []ErrorMeansRejected` |
| `ParserProofs!ParserTypeCorrect` | `ParserSpec => []ParserTypeOK` |
| `ParserProofs!DataCorrect` | `ParserSpec => []SizeFitsNumber` |
| `ParserProofs!RegisterCorrect` | `ParserSpec => []RegisterAgrees` |
| `ParserProofs!BindingCorrect` | `ParserSpec => MnemonicBinds` |
| `ParserProofs!AcceptedCorrect` | `ParserSpec => []AcceptedStatements` |
| `ParserProofs!SourceCorrect` | `ParserSpec => []StatementsFromSource` |
| `ParserProofs!CompleteCorrect` | `ParserSpec => []StatementsComplete` |
| `FrontEndProofs!WholeTextCorrect` | `FrontSpec => []WholeTextTaken` |
| `FrontEndProofs!StatementsOnLinesCorrect` | `FrontSpec => []StatementsOnLines` |
| `FrontEndProofs!SymbolsOfTextCorrect` | `FrontSpec => []SymbolsOfText` |
| `RegisterNamesProofs!RecognisedCorrect` | `Spec => []RegistersRecognised` |
| `RegisterNamesProofs!NoOtherCorrect` | `Spec => []NoOtherRegister` |
| `RegisterNamesProofs!FailureCorrect` | `Spec => []FailureKeepsDefault` |
| `StatementVectorProofs!TypeCorrect` | `Spec => []TypeOK` |
| `StatementVectorProofs!VectorCorrect` | `Spec => [](TypeOK /\ CountWithinCapacity)` |
| `StatementVectorProofs!VectorImplementsList` | `Spec => ImplementsList` |
| `ObjectFileProofs!TypeCorrect` | `Spec => []TypeOK` |
| `ObjectFileProofs!BlocksCorrect` | `Spec => [](TypeOK /\ BlocksFit)` |
| `ObjectFileProofs!RangesCorrect` | `Spec => []RangesInBytes` |
| `ObjectFileProofs!ElementsCorrect` | `Spec => ElementsFinal` |
| `ObjectFileProofs!NamesCorrect` | `NamesSpec => [](NamesTypeOK /\ SymbolNameReads /\ SectionNameReads)` |
| `ObjectFileProofs!NamesTypeCorrect` | `NamesSpec => []NamesTypeOK` |
| `ObjectFileProofs!SectionNamesCorrect` | `NamesSpec => []SectionNameReads` |
| `ObjectFileProofs!FileImplementsParts` | `FileSpec => Spec /\ NamesSpec` |
| `ObjectFileProofs!StoredNamesCorrect` | `FileSpec => []StoredNamesRead` |

They hold for every value of the constants that satisfies the assumptions. Most
of these are types; `SpellingsAssumption` of `FrontEnd` only says that there is a
token of each type to hand over. Two say more: `MaxTokenLen >= 2` (it is far larger in the
code; with 1, CR LF would not fit into the token), and `RoomAssumption` of `Bytecode`: between what
the allocator can hand out and `SIZE_MAX` there is room for one more element.
No allocation comes near the address space, so it holds wherever the code runs; it is
what makes the arithmetic of `expand_vector` exact. `EofMeansEnd` and
`ImplementsLexer` are false where `fread` fails in the middle of a file, hence
their hypothesis.

* *Tokenizer, types.* `TypeOK` is inductive: `GrowToken` checks the length before it
  stores, and the buffer's index is only used below `buf_len`. The proof has one
  lemma for each way a pass of the loop ends (`ReturnToken`, `GrowToken`, `Fail`,
  `NextCharacter`), one for the `switch`, one for the loop body and one for the
  fetch. `TokenStateOK` is inductive together with `TypeOK`; in particular a NEWLINE
  token is never left over between two calls, which is why
  `TOKENIZER_ERR_BAD_NEWLINE_SEQUENCE` is dead code, and an empty token has no
  type, which is why the two others are.
* *Tokenizer, text.* The properties about the text speak of all characters that
  left the buffer but the undecided one, which may be in `last_char` or in hand.
  `Settled` is the position up to which all is decided, and the inductive
  invariant `TextInv` says, up to there: there is at most one character undecided
  and it is the last one (`HandOK`); the text is in order (`InOrder`); `is_comment`
  tells whether the settled text ends in a comment (`CommentOK`); each settled
  character is kept, blank, commented or rejected (`Accounted`); a token ends where
  it may end, judged by characters that were read already, so that another file
  cannot change the verdict (`Maximal`); EOF in hand has a reason (`EndReached`).
  The steps of the code are first reduced to what they do to the text, three
  ways to fetch (`Took`) and six to dispatch (`Dispatched`: the end, skipped, put
  back, kept, joined to the token returned, rejected), and each part of the
  invariant is then carried through these.
* *Tokenizer, refinement.* `Lexer` is proved to be implemented in three layers.
  The first is about its operators only: `KindIs` and `KindGrows` say, case by case,
  what a sequence of characters spells and when one more character can go on with
  it; `KindPrefix` that every beginning of a token is one, so that the
  longest token is the one that the next character cannot go on with
  (`LongestBegins`); `SkipIs` and `SkipDrop` where `Skip` stops. The second states
  each action of `Lexer` by what is left (`TakesToken`, `RejectsCharacter`,
  `FindEndIs`, `ChangeFileIs`). The third goes through the steps: what is left is
  the unfinished token and the text from `Start` on (`LeftIs`), a step that moves no
  character between them is a stutter, and each of the six ways to dispatch is
  one action or a stutter (`SkipsRefines` to `RejectsRefines`). The invariant is
  `RefInv`: the tokenizer's own, `KindOK` (`detected_token_type` is what the
  unfinished token spells) and `EofInHand` (whether EOF in hand is a character
  that was read).
* *Minias.* A step of the program is a step of the tokenizer's client or leaves
  the tokenizer alone, so the tokenizer's invariants hold in it
  (`TokenizerStays`). `LoopInv` adds what `main`'s loop knows: the tokens printed
  are those returned, the result it looks at is the tokenizer's status.
* *Parser.* `Flow` names the paths of the flowchart that are alive, one disjunct
  each; each handler has a lemma that says it takes one of them, from the
  statement its state implies (`StmtOfState`: the member of the union that is
  live). That the cases of thirty mnemonics are dead needs the lemmas, at the
  front of the module, about `parse_instruction_mnemonic` (`MnemonicResults`: it
  returns NOP or ADD or fails) and `parse_register`. `Core` is the inductive
  invariant behind `ParserTypeOK` and `RegisterAgrees`; `MnemonicBinds` is a property
  of its steps, by what `_set_register` writes before it refuses. On top of it,
  `LineInv` relates the state to the tokens of the line so far (`AcceptedStatements`
  and, with `WidthFits`, that a number fits into its own width, `SizeFitsNumber`),
  `SourceInv` the array to the tokens it was pushed at
  (`StatementsFromSource`), and the lemma `DueGrows` counts the pushes due
  (`StatementsComplete`).
* *Front end.* A step of the whole is a step or a stutter of the tokenizer and one
  of the parser, so the invariants of both hold (`ReadInv`, `ParseInv`; the
  tokenizer's is strengthened by `SpansInv`, what the type of a token says of its
  characters, and `EofLeft`, that nothing is left in hand at EOF). Two invariants
  join them. `HandInv` is about the client: the tokens given are those returned, in
  order, and the parser holds the last two. `ParsedInv` is about the parser as long
  as nothing is refused: the tokens given are those of the lines, cut one after the
  other (`Cuts`), a token behind a newline or a colon is an identifier (`Follow`),
  and a symbol was pushed at each colon there was memory for (`PushInv`).
  `FrontInv` is their conjunction. The properties follow from it through lemmas about
  the text: between two tokens a line ends only with a newline token (`LineEndBetween`),
  which is where CR LF and the newline behind a comment come in, so a statement is on
  one line (`OneLine`). That an accepted text is taken whole (`WholeTextTaken`) needs
  that the end was read after all else (`EndOfText`), that an EOF token finishes the
  line (`Follow`), and `RejectInv`: a character the tokenizer rejects is an error the
  client knows of, at once or already. Symbols, colon tokens and colons of the text are counted by
  matching them (`SameCount`), and a matching that keeps the order keeps the ranks
  (`SameRank`).
* *Register names.* There is one step, so the invariant (`CallInv`) is short and
  the work is in the operators, for every name: a register's name that no digit
  follows is read as that register (`Reading`), a name that is read as one of the 16
  begins with its name (`Converse`), and of what follows exactly the type letters,
  the size letters and their pairs are taken (`SuffixSets`).
* *StatementVector.* `CountWithinCapacity` is inductive with the types; that the
  array is only freed at a count of 0 follows from the clamp of the capacity.
  Each step then maps to a push or a stutter of `StatementList`.
* *Bytecode.* `TypeOK` bounds the counters and the two counts by `SIZE_MAX`.
  `BlocksFit` with `block <= MemoryMax` (in `TypeOK`) bounds the count
  of elements, hence, by `RoomAssumption`, neither the new length nor the product
  wraps (`ProductFits`), hence the new block is of the new size (`AddedFits`).
  `RangesInBytes` is not inductive, for an element may be ended in any later state: the
  invariant adds that every element starts within the bytes. `ElementsFinal` is a
  property of steps: each call appends to an array, changes the end of its last
  element or leaves it alone.
* *ObjectNames.* The strengthening is that the last character of a symbol's buffer
  stays NUL, which `symbol_init` writes and `strncpy` never reaches. Nothing like
  it holds of a section's buffer, hence the shorter limit of `SectionNameReads`.
* *ObjectFile.* Each step of the whole is a step or a stutter of each part, so the
  theorems about the parts carry over by citation (`FileImplementsParts`).
  `StoredNamesRead` is inductive once the names read in the structs, at the moment
  they are copied, are known to: that is `NamesCorrect`.

Every invariant, step property and refinement of the passing runs is proved. Only
model-checked: liveness (`CallReturns`, `CallReturnsButInSection`, `ReachesEnd`,
`Exits`), which is out of the prover's reach. So is what the loops over the bytes
of a number compute, which needs induction over data.

## 5. What the code does otherwise than it says

The four violated runs show these, each against a comment in the repository:

* `data.c:24`: the loop over the bytes of a number runs from 1 to 8: `buf[0]` is
  not written and `buf[8]` is (`data.h:13-17`). A number that needs every byte of the
  size given for it has its top byte behind them: `SizeFitsNumber` is about the
  size and the number in the source, not about where its bytes lie.
* `prebytecode.c:306`: `realloc` is passed a number of statements instead of bytes.
* `parser.c:417`: `needing_section_name` sets `need_new_token` to 0 where it
  meets something else than a name, and the loop never ends.
* `prebytecode.c:149`: `match_mnemonic` takes a `strncmp` other than 0 for a match.

Others show in the model, without a run of their own:

* `line_no` and `col_no` are set to 1 and never advanced (`tokenizer.c:66`).
* The result -2 for an id above 15 is unsigned and not found by `< 0`
  (`prebytecode.c:53`), so r18 is a register of an id no register has.
  `NoOtherRegister` says no more than that it is none of the 16.
* "Not set" is written as -1 and tested as 0xFF (`parser.c:233`), so the second
  register is never asked for, where `parser.h:66-70` and `parser.c:223-225` say
  that it is. `AcceptedStatements` leaves open how many arguments there are.
* `PARSER_DONE` refuses an empty line and the end of the program
  (`parser.c:47`), where `parser.h:22-24` allows it; a label leads to
  `PARSER_INIT`, which refuses the end of its line. Every program of the repository
  has such lines (`examples/func.min`), and no property here asks for either.
* `match_mnemonic` may read the size from the byte behind the terminator of a short
  word (`prebytecode.c:168`): a free choice in the model.
* A section is pushed with the kind `INSTRUCTION_STMT` (`parser.c:412`), and
  data and instructions are never pushed.
* `section_init` clears one character less than the buffer has: a name of full
  length has no NUL of its own. `SectionNameReads` stops one character short.
* At the end of the file `main` prints the token once more (`main.c:47`).

## 6. Not modelled

* `instruction.c`: the two conversions are stubs. The encoding in `NOTES` and the
  virtual machine of the README have no code.
* `set_data`, which nothing calls.
* Floating-point values, line and column numbers beyond what is above, the
  contents of the object file's bytes, permissions, logging, allocation macros.
* The build files, tests and examples.
* The storage of a token handed to the parser as NULL is modelled (`NoToken`);
  a `malloc` that fails in `main` only as a crash.

## 7. Plan

The order is that of importance: the tokenizer and the parser do nearly all the
work the program does.

1. Done: the modules and runs of sections 2 and 3, the theorems of section 4; with
   them the front end (`FrontEnd`), the object file as a whole (`ObjectFile`) and
   the abstract lexer with its refinement (`Lexer`, `TokenizerRefinement`), which
   takes the place of separate properties about order, completeness and form.
2. Done: the proofs of all invariants the passing runs check, of their step
   properties and of the two refinements, the front end's last.
3. When the repository joins tokenizer and parser, turns a `prebytecode_t` into an
   object file or fills in the instruction codec: `FrontEnd`'s client becomes a
   module of that code, and `ObjectFile` gets its caller.
