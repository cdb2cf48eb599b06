------------------------------ MODULE Bytecode ------------------------------
(***************************************************************************)
(* miniisa_bytecode_t (src/miniisa/bytecode.c): the sections and symbols   *)
(* of an object file, in two arrays that grow by one element per call, and *)
(* the range of bytes each of them covers.                                 *)
(***************************************************************************)
EXTENDS Integers, Sequences

CONSTANTS
  SIZE_MAX,     \* the largest size_t
  MemoryMax,    \* bytes the allocator can hand out for one array
  SectionSize,  \* sizeof(miniisa_section_t)
  SymbolSize,   \* sizeof(miniisa_symbol_t)
  MaxBytes,     \* bound on bytes_count
  MaxElements   \* bound on the elements of an array

ASSUME SizesAssumption ==
  /\ SIZE_MAX \in Nat /\ MemoryMax \in Nat
  /\ SectionSize \in Nat \ {0} /\ SymbolSize \in Nat \ {0}
  /\ MaxBytes \in 0 .. SIZE_MAX /\ MaxElements \in Nat

(* No array fills the address space: there is room for one more element    *)
(* between what the allocator hands out and what a size_t can count.       *)
ASSUME RoomAssumption ==
  /\ MemoryMax + SectionSize <= SIZE_MAX
  /\ MemoryMax + SymbolSize <= SIZE_MAX

VARIABLES
  bytes_count,    \* b->bytes_count
  sections,       \* b->sections[0 .. sections_count-1]
  symbols,        \* b->symbols[0 .. symbols_count-1]
  section_block,  \* bytes allocated for b->sections
  symbol_block,   \* bytes allocated for b->symbols
  status          \* what the latest call returned

vars == <<bytes_count, sections, symbols, section_block, symbol_block, status>>

(* A section or a symbol: the bytes from start up to end.                  *)
Extent == [start : 0 .. SIZE_MAX, end : 0 .. SIZE_MAX]

(* miniisa_bytecode_init                                                   *)
Init ==
  /\ bytes_count = 0
  /\ sections = <<>> /\ section_block = 0
  /\ symbols = <<>> /\ symbol_block = 0
  /\ status = 0

(* size_t arithmetic.                                                      *)
Wrap(n) == n % (SIZE_MAX + 1)

(* Mutant: the element is counted even where there was no room for it.     *)
AddedAnyway(v, block, size, r) ==
  LET bytes == Wrap(size * Wrap(Len(v) + 1))
  IN  [v      |-> Append(v, r),
       block  |-> IF bytes <= MemoryMax THEN bytes ELSE block,
       status |-> 0]

(* expand_vector by one element, and the assignment of *s to it: the array *)
(* and its block afterwards, and the result. Nothing is changed where the  *)
(* new length has wrapped around or realloc, which is external, has no     *)
(* room.                                                                   *)
Added(v, block, size, r) ==
  LET new_length == Wrap(Len(v) + 1)
      bytes      == Wrap(size * new_length)
  IN  IF new_length > Len(v) /\ bytes <= MemoryMax
      THEN [v |-> Append(v, r), block |-> bytes, status |-> 0]
      ELSE [v |-> v, block |-> block,
            status |-> IF new_length <= Len(v) THEN 1 ELSE 2]

NewSection(r) ==
  LET added == Added(sections, section_block, SectionSize, r)
  IN  /\ sections' = added.v /\ section_block' = added.block
      /\ status' = added.status
      /\ UNCHANGED <<bytes_count, symbols, symbol_block>>

NewSymbol(r) ==
  LET added == Added(symbols, symbol_block, SymbolSize, r)
  IN  /\ symbols' = added.v /\ symbol_block' = added.block
      /\ status' = added.status
      /\ UNCHANGED <<bytes_count, sections, section_block>>

(* Mutant: every element that was never ended is ended.                    *)
EndedAll(v) == [i \in 1 .. Len(v) |-> [v[i] EXCEPT !.end = bytes_count]]

(* Mutants: the end is the last byte, or the one after the next.           *)
EndedInclusive(v) ==
  IF v = <<>> THEN v ELSE [v EXCEPT ![Len(v)].end = bytes_count - 1]
EndedPast(v) ==
  IF v = <<>> THEN v ELSE [v EXCEPT ![Len(v)].end = bytes_count + 1]

(* The end of the last element is where the bytes end now.                 *)
Ended(v) == IF v = <<>> THEN v ELSE [v EXCEPT ![Len(v)].end = bytes_count]

TerminateLastSection ==
  /\ sections' = Ended(sections)
  /\ status' = 0
  /\ UNCHANGED <<bytes_count, symbols, section_block, symbol_block>>

TerminateLastSymbol ==
  /\ symbols' = Ended(symbols)
  /\ status' = 0
  /\ UNCHANGED <<bytes_count, sections, section_block, symbol_block>>

(* External: an assembler appends a byte.                                  *)
AppendByte ==
  /\ bytes_count < MaxBytes
  /\ bytes_count' = bytes_count + 1
  /\ UNCHANGED <<sections, symbols, section_block, symbol_block, status>>

(* External: a section or symbol is added where the bytes end now, as      *)
(* section_init and symbol_init made it otherwise.                         *)
Here == [start |-> bytes_count, end |-> 0]

Next ==
  \/ Len(sections) < MaxElements /\ NewSection(Here)
  \/ Len(symbols) < MaxElements /\ NewSymbol(Here)
  \/ TerminateLastSection
  \/ TerminateLastSymbol
  \/ AppendByte

Spec == Init /\ [][Next]_vars

-----------------------------------------------------------------------------
(* The type invariant: every counter and every offset is a size_t, and a   *)
(* block is one the allocator can hand out.                                *)
TypeOK ==
  /\ bytes_count \in 0 .. SIZE_MAX
  /\ sections \in Seq(Extent) /\ Len(sections) <= SIZE_MAX
  /\ symbols \in Seq(Extent) /\ Len(symbols) <= SIZE_MAX
  /\ section_block \in 0 .. MemoryMax /\ symbol_block \in 0 .. MemoryMax
  /\ status \in 0 .. 2

(* Each array has a block of exactly its size, whatever failed before: no  *)
(* element is stored where there is no room, and the product in            *)
(* expand_vector does not wrap to a block that is too small.               *)
BlocksFit ==
  /\ section_block = Len(sections) * SectionSize
  /\ symbol_block = Len(symbols) * SymbolSize

OthersFinal(v, w) ==
  /\ Len(v) <= Len(w)
  /\ \A i \in 1 .. Len(v) - 1 : w[i] = v[i]
  /\ v # <<>> => w[Len(v)].start = v[Len(v)].start

(* What lies before the last element of an array is final: no call moves,  *)
(* reopens or drops it, and a failing call changes nothing at all.         *)
ElementsFinal ==
  [][/\ OthersFinal(sections, sections')
     /\ OthersFinal(symbols, symbols')
     /\ status' # 0 => UNCHANGED <<sections, symbols>>]_vars

(* A range that was ended lies within the bytes and is not reversed, also  *)
(* when it is ended more than once.                                        *)
RangesInBytes ==
  LET InBytes(r) == r.end # 0 => r.start <= r.end /\ r.end <= bytes_count
  IN  /\ \A i \in 1 .. Len(sections) : InBytes(sections[i])
      /\ \A i \in 1 .. Len(symbols) : InBytes(symbols[i])
=============================================================================
