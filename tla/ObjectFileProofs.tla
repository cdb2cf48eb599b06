-------------------------- MODULE ObjectFileProofs --------------------------
(***************************************************************************)
(* The arrays of miniisa_bytecode_t always have blocks of their size,      *)
(* because no array comes near the largest size_t; their ranges lie within *)
(* the bytes, and what is before the last element of an array is final.    *)
(* The names of sections and symbols read back as they were set, for every *)
(* length of the buffers and of the names; and the object file as a whole  *)
(* keeps what Bytecode promises of its arrays and ObjectNames of the       *)
(* client's structs, and the names it has copied.                          *)
(***************************************************************************)
EXTENDS ObjectFile, SequenceTheorems, TLAPS

-----------------------------------------------------------------------------
(* The arrays                                                              *)

IInv == TypeOK /\ BlocksFit

LEMMA ProductFits ==
  ASSUME NEW n \in Nat, NEW size \in Nat \ {0}, n * size <= MemoryMax,
         MemoryMax + size <= SIZE_MAX
  PROVE  /\ Wrap(n + 1) = n + 1
         /\ Wrap(size * Wrap(n + 1)) = n * size + size
         /\ n * size + size = (n + 1) * size
<1>1. n <= n * size /\ n * size \in Nat
  OBVIOUS
<1>2. n + 1 <= SIZE_MAX
  BY <1>1, SizesAssumption
<1>3. Wrap(n + 1) = n + 1
  BY <1>2, SizesAssumption DEF Wrap
<1>4. size * (n + 1) = n * size + size /\ (n + 1) * size = n * size + size
  OBVIOUS
<1>5. n * size + size <= SIZE_MAX /\ n * size + size \in Nat
  BY <1>1, SizesAssumption
<1> QED
  BY <1>3, <1>4, <1>5, SizesAssumption DEF Wrap

(* An array that has a block of its size has no more elements than a       *)
(* size_t can count.                                                       *)
LEMMA LengthFits ==
  ASSUME NEW n \in Nat, NEW size \in Nat \ {0}, n * size <= MemoryMax,
         MemoryMax + size <= SIZE_MAX
  PROVE  n <= SIZE_MAX
<1>1. n <= n * size /\ n * size \in Nat
  OBVIOUS
<1> QED
  BY <1>1, SizesAssumption

LEMMA AddedFits ==
  ASSUME NEW v \in Seq(Extent), NEW block \in 0 .. MemoryMax,
         NEW size \in Nat \ {0}, MemoryMax + size <= SIZE_MAX,
         NEW r \in Extent, block = Len(v) * size
  PROVE  LET added == Added(v, block, size, r)
         IN  /\ added.v \in Seq(Extent) /\ Len(added.v) <= SIZE_MAX
             /\ added.block \in 0 .. MemoryMax
             /\ added.block = Len(added.v) * size
             /\ added.status \in 0 .. 2
<1>1. Len(v) \in Nat
  BY LenProperties
<1>2. /\ Wrap(Len(v) + 1) = Len(v) + 1
      /\ Wrap(size * Wrap(Len(v) + 1)) = Len(v) * size + size
      /\ Len(v) * size + size = (Len(v) + 1) * size
  BY <1>1, ProductFits, SizesAssumption
<1>3. Append(v, r) \in Seq(Extent) /\ Len(Append(v, r)) = Len(v) + 1
  BY AppendProperties
<1>4. CASE Wrap(size * Wrap(Len(v) + 1)) <= MemoryMax
  <2>1. Added(v, block, size, r) =
          [v |-> Append(v, r), block |-> Wrap(size * Wrap(Len(v) + 1)), status |-> 0]
    BY <1>1, <1>2, <1>4 DEF Added
  <2>2. Wrap(size * Wrap(Len(v) + 1)) = block + size
    BY <1>2
  <2>3. block + size \in 0 .. MemoryMax /\ block + size = (Len(v) + 1) * size
    BY <1>1, <1>2, <1>4, <2>2
  <2>4. /\ Added(v, block, size, r).v = Append(v, r)
        /\ Added(v, block, size, r).block = block + size
        /\ Added(v, block, size, r).status \in 0 .. 2
    BY <2>1, <2>2
  <2>5. block + size = Len(Append(v, r)) * size
    BY <1>3, <2>3
  <2>6. Len(Append(v, r)) <= SIZE_MAX
    <3>1. PICK n : n = Len(Append(v, r))
      OBVIOUS
    <3>2. n \in Nat /\ n * size <= MemoryMax
      BY <1>1, <1>3, <2>3, <2>5, <3>1
    <3> QED
      BY <3>1, <3>2, LengthFits
  <2> QED
    BY ONLY <1>3, <2>3, <2>4, <2>5, <2>6, Zenon
<1>5. CASE ~(Wrap(size * Wrap(Len(v) + 1)) <= MemoryMax)
  <2>1. /\ Added(v, block, size, r).v = v
        /\ Added(v, block, size, r).block = block
        /\ Added(v, block, size, r).status \in 1 .. 2
    BY <1>5 DEF Added
  <2>2. Len(v) <= SIZE_MAX
    BY <1>1, LengthFits
  <2> QED
    BY <2>1, <2>2
<1> QED
  BY <1>4, <1>5

(* The extent of an element that is opened here.                           *)
LEMMA HereTypes ==
  ASSUME bytes_count \in 0 .. SIZE_MAX
  PROVE  Here \in Extent
<1>1. 0 \in 0 .. SIZE_MAX
  BY SizesAssumption
<1> QED
  BY <1>1 DEF Here, Extent

LEMMA EndedTypes ==
  ASSUME TypeOK, NEW v \in Seq(Extent)
  PROVE  Ended(v) \in Seq(Extent) /\ Len(Ended(v)) = Len(v)
<1>1. CASE v = <<>>
  BY <1>1 DEF Ended
<1>2. CASE v # <<>>
  <2>1. Len(v) \in 1 .. Len(v) /\ v[Len(v)] \in Extent
    BY <1>2, EmptySeq, LenProperties, ElementOfSeq
  <2>2. [v[Len(v)] EXCEPT !.end = bytes_count] \in Extent
    BY <2>1 DEF Extent, TypeOK
  <2>3. Ended(v) = [v EXCEPT ![Len(v)] = [v[Len(v)] EXCEPT !.end = bytes_count]]
    BY <1>2 DEF Ended
  <2> QED
    BY <2>2, <2>3, <2>1, ExceptSeq
<1> QED
  BY <1>1, <1>2

(* Every value is of its type, and each array always has a block of        *)
(* exactly its size: neither the element count nor the product with the    *)
(* element size ever wraps around.                                         *)
THEOREM BlocksCorrect == Spec => [](TypeOK /\ BlocksFit)
<1>1. Init => IInv
  BY SizesAssumption, EmptySeq DEF Init, IInv, TypeOK, BlocksFit
<1>2. IInv /\ [Next]_vars => IInv'
  <2> SUFFICES ASSUME IInv, [Next]_vars PROVE IInv'
    OBVIOUS
  <2> USE DEF IInv, TypeOK, BlocksFit
  <2>1. Here \in Extent
    BY HereTypes
  <2>2. CASE NewSection(Here)
    <3>1. /\ sections \in Seq(Extent) /\ section_block \in 0 .. MemoryMax
          /\ section_block = Len(sections) * SectionSize
          /\ SectionSize \in Nat \ {0} /\ MemoryMax + SectionSize <= SIZE_MAX
      BY SizesAssumption, RoomAssumption
    <3>2. LET added == Added(sections, section_block, SectionSize, Here)
          IN  /\ added.v \in Seq(Extent) /\ Len(added.v) <= SIZE_MAX
              /\ added.block \in 0 .. MemoryMax
              /\ added.block = Len(added.v) * SectionSize
              /\ added.status \in 0 .. 2
      BY ONLY <2>1, <3>1, AddedFits
    <3> QED
      BY <2>2, <3>2 DEF NewSection
  <2>3. CASE NewSymbol(Here)
    <3>1. /\ symbols \in Seq(Extent) /\ symbol_block \in 0 .. MemoryMax
          /\ symbol_block = Len(symbols) * SymbolSize
          /\ SymbolSize \in Nat \ {0} /\ MemoryMax + SymbolSize <= SIZE_MAX
      BY SizesAssumption, RoomAssumption
    <3>2. LET added == Added(symbols, symbol_block, SymbolSize, Here)
          IN  /\ added.v \in Seq(Extent) /\ Len(added.v) <= SIZE_MAX
              /\ added.block \in 0 .. MemoryMax
              /\ added.block = Len(added.v) * SymbolSize
              /\ added.status \in 0 .. 2
      BY ONLY <2>1, <3>1, AddedFits
    <3> QED
      BY <2>3, <3>2 DEF NewSymbol
  <2>4. CASE TerminateLastSection
    BY <2>4, EndedTypes DEF TerminateLastSection
  <2>5. CASE TerminateLastSymbol
    BY <2>5, EndedTypes DEF TerminateLastSymbol
  <2>6. CASE AppendByte
    BY <2>6, SizesAssumption DEF AppendByte
  <2>7. CASE UNCHANGED vars
    BY <2>7 DEF vars
  <2> QED
    BY <2>2, <2>3, <2>4, <2>5, <2>6, <2>7 DEF Next
<1>3. IInv => TypeOK /\ BlocksFit
  BY DEF IInv
<1> QED
  BY <1>1, <1>2, <1>3, PTL DEF Spec

(* And every variable of the object file is always of its type.            *)
THEOREM TypeCorrect == Spec => []TypeOK
<1>1. TypeOK /\ BlocksFit => TypeOK
  OBVIOUS
<1> QED
  BY <1>1, BlocksCorrect, PTL

-----------------------------------------------------------------------------
(* The elements: what a call does to each array.                           *)

LEMMA AddedElements ==
  ASSUME NEW v \in Seq(Extent), NEW block, NEW size, NEW r \in Extent
  PROVE  \/ /\ Added(v, block, size, r).v = Append(v, r)
            /\ Added(v, block, size, r).status = 0
         \/ /\ Added(v, block, size, r).v = v
            /\ Added(v, block, size, r).status # 0
BY DEF Added

LEMMA EndedElements ==
  ASSUME bytes_count \in 0 .. SIZE_MAX, NEW v \in Seq(Extent)
  PROVE  /\ Len(Ended(v)) = Len(v)
         /\ \A i \in 1 .. Len(v) - 1 : Ended(v)[i] = v[i]
         /\ v # <<>> => /\ Ended(v)[Len(v)].start = v[Len(v)].start
                        /\ Ended(v)[Len(v)].end = bytes_count
<1>1. CASE v = <<>>
  BY <1>1 DEF Ended
<1>2. CASE v # <<>>
  <2>1. Len(v) \in 1 .. Len(v) /\ v[Len(v)] \in Extent
    BY <1>2, EmptySeq, LenProperties, ElementOfSeq
  <2>2. [v[Len(v)] EXCEPT !.end = bytes_count] \in Extent
    BY <2>1 DEF Extent
  <2>3. Ended(v) = [v EXCEPT ![Len(v)] = [v[Len(v)] EXCEPT !.end = bytes_count]]
    BY <1>2 DEF Ended
  <2>4. /\ Len(Ended(v)) = Len(v)
        /\ \A i \in 1 .. Len(v) - 1 : Ended(v)[i] = v[i]
        /\ Ended(v)[Len(v)] = [v[Len(v)] EXCEPT !.end = bytes_count]
    BY <2>1, <2>2, <2>3, ExceptSeq
  <2>5. /\ [v[Len(v)] EXCEPT !.end = bytes_count].start = v[Len(v)].start
        /\ [v[Len(v)] EXCEPT !.end = bytes_count].end = bytes_count
    BY <2>1 DEF Extent
  <2> QED
    BY <2>4, <2>5
<1> QED
  BY <1>1, <1>2

(* Every element starts within the bytes there are, and one that was ended *)
(* ends there. The first half is what makes RangesInBytes inductive: an    *)
(* element may be ended in any later state.                                *)
Within(v) ==
  \A i \in 1 .. Len(v) :
    /\ v[i].start <= bytes_count
    /\ v[i].end # 0 => v[i].start <= v[i].end /\ v[i].end <= bytes_count

LEMMA AppendWithin ==
  ASSUME bytes_count \in 0 .. SIZE_MAX, NEW v \in Seq(Extent), Within(v)
  PROVE  Within(Append(v, Here))
<1> SUFFICES ASSUME NEW i \in 1 .. Len(v) + 1
             PROVE  LET e == Append(v, Here)[i]
                    IN  /\ e.start <= bytes_count
                        /\ e.end # 0 => e.start <= e.end /\ e.end <= bytes_count
  BY AppendProperties DEF Within
<1>1. Here \in Extent
  BY HereTypes
<1>2. CASE i \in 1 .. Len(v)
  <2>1. Append(v, Here)[i] = v[i]
    BY <1>1, <1>2, AppendProperties
  <2> QED
    BY <1>2, <2>1 DEF Within
<1>3. CASE i = Len(v) + 1
  <2>1. Append(v, Here)[i] = Here
    BY <1>1, <1>3, AppendProperties
  <2> QED
    BY <2>1 DEF Here
<1> QED
  BY <1>2, <1>3, LenProperties

LEMMA EndedWithin ==
  ASSUME bytes_count \in 0 .. SIZE_MAX, NEW v \in Seq(Extent), Within(v)
  PROVE  Within(Ended(v))
<1> SUFFICES ASSUME NEW i \in 1 .. Len(v)
             PROVE  LET e == Ended(v)[i]
                    IN  /\ e.start <= bytes_count
                        /\ e.end # 0 => e.start <= e.end /\ e.end <= bytes_count
  BY EndedElements DEF Within
<1>1. Len(v) \in Nat /\ v # <<>>
  BY LenProperties
<1>2. CASE i = Len(v)
  <2>1. Ended(v)[i].start = v[i].start /\ Ended(v)[i].end = bytes_count
    BY <1>1, <1>2, EndedElements
  <2> QED
    BY <2>1 DEF Within
<1>3. CASE i # Len(v)
  <2>1. Ended(v)[i] = v[i]
    BY <1>1, <1>3, EndedElements
  <2> QED
    BY <2>1 DEF Within
<1> QED
  BY <1>2, <1>3

(* Every range that was ended lies within the bytes and is not reversed,   *)
(* however often elements are added and ended.                             *)
THEOREM RangesCorrect == Spec => []RangesInBytes
<1> DEFINE RInv == TypeOK /\ Within(sections) /\ Within(symbols)
<1>1. Init => RInv
  BY SizesAssumption, EmptySeq DEF Init, TypeOK, Within
<1>2. TypeOK /\ TypeOK' /\ RInv /\ [Next]_vars => RInv'
  <2> SUFFICES ASSUME TypeOK, TypeOK', RInv, [Next]_vars
               PROVE  Within(sections)' /\ Within(symbols)'
    OBVIOUS
  <2>0. /\ bytes_count \in 0 .. SIZE_MAX /\ sections \in Seq(Extent) /\ symbols \in Seq(Extent)
        /\ Here \in Extent
    BY HereTypes DEF TypeOK
  <2>2. CASE NewSection(Here)
    <3>1. sections' \in {sections, Append(sections, Here)}
      BY <2>0, <2>2, AddedElements DEF NewSection
    <3>2. bytes_count' = bytes_count /\ symbols' = symbols
      BY <2>2 DEF NewSection
    <3> QED
      BY <2>0, <3>1, <3>2, AppendWithin DEF Within
  <2>3. CASE NewSymbol(Here)
    <3>1. symbols' \in {symbols, Append(symbols, Here)}
      BY <2>0, <2>3, AddedElements DEF NewSymbol
    <3>2. bytes_count' = bytes_count /\ sections' = sections
      BY <2>3 DEF NewSymbol
    <3> QED
      BY <2>0, <3>1, <3>2, AppendWithin DEF Within
  <2>4. CASE TerminateLastSection
    BY <2>0, <2>4, EndedWithin DEF TerminateLastSection, Within
  <2>5. CASE TerminateLastSymbol
    BY <2>0, <2>5, EndedWithin DEF TerminateLastSymbol, Within
  <2>6. CASE AppendByte
    <3>1. /\ bytes_count' = bytes_count + 1
          /\ sections' = sections /\ symbols' = symbols
      BY <2>6 DEF AppendByte
    <3>2. ASSUME NEW v \in Seq(Extent), Within(v), NEW i \in 1 .. Len(v)
          PROVE  /\ v[i].start <= bytes_count + 1
                 /\ v[i].end # 0 =>
                      v[i].start <= v[i].end /\ v[i].end <= bytes_count + 1
      <4>1. v[i] \in Extent
        BY ElementOfSeq
      <4>2. v[i].start \in Nat /\ v[i].end \in Nat
        BY <4>1 DEF Extent
      <4> QED
        BY <2>0, <3>2, <4>2 DEF Within
    <3> QED
      BY <2>0, <3>1, <3>2 DEF Within
  <2>7. CASE UNCHANGED vars
    BY <2>7 DEF vars, Within
  <2> QED
    BY <2>2, <2>3, <2>4, <2>5, <2>6, <2>7 DEF Next
<1>3. RInv => RangesInBytes
  BY DEF Within, RangesInBytes
<1>4. TypeOK /\ BlocksFit => TypeOK
  OBVIOUS
<1> QED
  BY <1>1, <1>2, <1>3, <1>4, BlocksCorrect, PTL DEF Spec

LEMMA AppendFinal ==
  ASSUME NEW v \in Seq(Extent), NEW r \in Extent
  PROVE  OthersFinal(v, v) /\ OthersFinal(v, Append(v, r))
<1>1. Len(v) \in Nat /\ (v # <<>> => Len(v) \in 1 .. Len(v))
  BY LenProperties, EmptySeq
<1>2. \A i \in 1 .. Len(v) : Append(v, r)[i] = v[i]
  BY AppendProperties
<1> QED
  BY <1>1, <1>2, AppendProperties DEF OthersFinal

LEMMA EndedFinal ==
  ASSUME bytes_count \in 0 .. SIZE_MAX, NEW v \in Seq(Extent)
  PROVE  OthersFinal(v, Ended(v))
<1>1. Len(v) \in Nat /\ (v # <<>> => Len(v) \in 1 .. Len(v))
  BY LenProperties, EmptySeq
<1> QED
  BY <1>1, EndedElements DEF OthersFinal

(* No call moves, reopens or drops an element before the last one of its   *)
(* array, and a call that fails changes neither array.                     *)
THEOREM ElementsCorrect == Spec => ElementsFinal
<1>1. ASSUME TypeOK, Next
      PROVE  /\ OthersFinal(sections, sections')
             /\ OthersFinal(symbols, symbols')
             /\ status' # 0 => UNCHANGED <<sections, symbols>>
  <2>0. /\ bytes_count \in 0 .. SIZE_MAX /\ sections \in Seq(Extent) /\ symbols \in Seq(Extent)
        /\ Here \in Extent
    BY <1>1, HereTypes DEF TypeOK
  <2>1. OthersFinal(sections, sections) /\ OthersFinal(symbols, symbols)
    BY <2>0, AppendFinal
  <2>2. CASE NewSection(Here)
    <3>1. \/ sections' = Append(sections, Here) /\ status' = 0
          \/ sections' = sections
      BY <2>0, <2>2, AddedElements DEF NewSection
    <3> QED
      BY <2>0, <2>1, <2>2, <3>1, AppendFinal DEF NewSection
  <2>3. CASE NewSymbol(Here)
    <3>1. \/ symbols' = Append(symbols, Here) /\ status' = 0
          \/ symbols' = symbols
      BY <2>0, <2>3, AddedElements DEF NewSymbol
    <3> QED
      BY <2>0, <2>1, <2>3, <3>1, AppendFinal DEF NewSymbol
  <2>4. CASE TerminateLastSection
    BY <2>0, <2>1, <2>4, EndedFinal DEF TerminateLastSection
  <2>5. CASE TerminateLastSymbol
    BY <2>0, <2>1, <2>5, EndedFinal DEF TerminateLastSymbol
  <2>6. CASE AppendByte
    BY <2>1, <2>6 DEF AppendByte
  <2> QED
    BY <1>1, <2>2, <2>3, <2>4, <2>5, <2>6 DEF Next
<1>2. TypeOK /\ BlocksFit => TypeOK
  OBVIOUS
<1> QED
  BY <1>1, <1>2, BlocksCorrect, PTL DEF Spec, ElementsFinal

-----------------------------------------------------------------------------
(* The client's structs                                                    *)

(* A symbol's buffer ends in a NUL that no call overwrites: strncpy is     *)
(* held to the MAX_LEN characters before it. A section's has none, and all *)
(* that can be said of it is what strncpy wrote.                           *)
NamesInv ==
  /\ NamesTypeOK
  /\ symbol[MAX_LEN] = NUL
  /\ SymbolNameReads
  /\ SectionNameReads

LEMMA StrncpyWrites ==
  ASSUME NEW buf \in Buffer, NEW name \in Seq(Character)
  PROVE  /\ Strncpy(buf, name, MAX_LEN) \in Buffer
         /\ Strncpy(buf, name, MAX_LEN)[MAX_LEN] = buf[MAX_LEN]
         /\ \A i \in 0 .. MAX_LEN - 1 :
              Strncpy(buf, name, MAX_LEN)[i] =
                IF i < Len(name) THEN name[i + 1] ELSE NUL
<1>1. MAX_LEN \in Nat \ {0} /\ Len(name) \in Nat
  BY NamesAssumption, LenProperties
<1>2. ASSUME NEW i \in 0 .. MAX_LEN, i < Len(name)
      PROVE  name[i + 1] \in Character
  BY <1>1, <1>2, ElementOfSeq
<1>3. Strncpy(buf, name, MAX_LEN) \in Buffer
  BY <1>1, <1>2 DEF Strncpy, Buffer
<1>4. Strncpy(buf, name, MAX_LEN)[MAX_LEN] = buf[MAX_LEN]
  BY <1>1 DEF Strncpy
<1>5. \A i \in 0 .. MAX_LEN - 1 :
        Strncpy(buf, name, MAX_LEN)[i] =
          IF i < Len(name) THEN name[i + 1] ELSE NUL
  BY <1>1 DEF Strncpy
<1> QED
  BY ONLY <1>3, <1>4, <1>5

LEMMA StrncpyReads ==
  ASSUME NEW buf \in Buffer, NEW name \in Seq(Character)
  PROVE  /\ Len(name) < MAX_LEN => Reads(Strncpy(buf, name, MAX_LEN), name)
         /\ buf[MAX_LEN] = NUL =>
              Reads(Strncpy(buf, name, MAX_LEN), Truncated(name))
<1>1. MAX_LEN \in Nat \ {0} /\ Len(name) \in Nat
  BY NamesAssumption, LenProperties
<1> DEFINE new == Strncpy(buf, name, MAX_LEN)
<1>2. /\ new[MAX_LEN] = buf[MAX_LEN]
      /\ \A i \in 0 .. MAX_LEN - 1 :
           new[i] = IF i < Len(name) THEN name[i + 1] ELSE NUL
  BY StrncpyWrites
<1> HIDE DEF new
<1>3. ASSUME NEW n \in Nat, n <= MAX_LEN, n <= Len(name)
      PROVE  \A i \in 1 .. n : new[i - 1] = name[i]
  BY <1>1, <1>2, <1>3
<1>4. CASE Len(name) < MAX_LEN
  <2>1. new[Len(name)] = NUL
    BY <1>1, <1>2, <1>4
  <2> QED
    BY <1>1, <1>3, <1>4, <2>1 DEF Reads, Truncated, new
<1>5. CASE Len(name) = MAX_LEN
  BY <1>1, <1>2, <1>3, <1>5 DEF Reads, Truncated, new
<1>6. CASE Len(name) > MAX_LEN
  <2> DEFINE short == SubSeq(name, 1, MAX_LEN)
  <2>1. Len(short) = MAX_LEN /\ \A i \in 1 .. MAX_LEN : short[i] = name[i]
    BY <1>1, <1>6, SubSeqProperties
  <2>2. Truncated(name) = short
    BY <1>1, <1>6 DEF Truncated
  <2> HIDE DEF short
  <2>3. buf[MAX_LEN] = NUL => Reads(new, short)
    BY <1>1, <1>2, <1>3, <1>6, <2>1 DEF Reads
  <2> QED
    BY <1>1, <1>6, <2>2, <2>3 DEF new
<1> QED
  BY <1>1, <1>4, <1>5, <1>6

(* After an init both names are empty.                                     *)
LEMMA ClearedReads ==
  ASSUME NEW buf \in Buffer, NEW garbage \in Buffer
  PROVE  /\ Cleared(buf, MAX_LEN) \in Buffer
         /\ Cleared(garbage, MAX_LEN + 1) \in Buffer
         /\ Cleared(garbage, MAX_LEN + 1)[MAX_LEN] = NUL
         /\ Truncated(<<>>) = <<>>
         /\ Reads(Cleared(buf, MAX_LEN), <<>>)
         /\ Reads(Cleared(garbage, MAX_LEN + 1), <<>>)
<1>1. Cleared(buf, MAX_LEN) \in Buffer /\ Cleared(buf, MAX_LEN)[0] = NUL
  BY NamesAssumption DEF Cleared, Buffer
<1>2. /\ Cleared(garbage, MAX_LEN + 1) \in Buffer
      /\ Cleared(garbage, MAX_LEN + 1)[0] = NUL
      /\ Cleared(garbage, MAX_LEN + 1)[MAX_LEN] = NUL
  BY NamesAssumption DEF Cleared, Buffer
<1>3. Truncated(<<>>) = <<>> /\ Len(<<>>) = 0
  BY NamesAssumption DEF Truncated
<1> QED
  BY <1>1, <1>2, <1>3, NamesAssumption DEF Reads

(* Whatever names were set before, in whatever memory: a symbol's name     *)
(* reads as the one set last, cut to MAX_LEN characters, and a section's   *)
(* does where it is shorter than that.                                     *)
THEOREM NamesCorrect ==
  NamesSpec => [](NamesTypeOK /\ SymbolNameReads /\ SectionNameReads)
<1>1. NamesInit => NamesInv
  <2> SUFFICES ASSUME NEW garbage \in Buffer,
                      section = Cleared(garbage, MAX_LEN),
                      symbol = Cleared(garbage, MAX_LEN + 1),
                      set = <<>>
               PROVE  NamesInv
    BY DEF NamesInit
  <2> QED
    BY ClearedReads
    DEF NamesInv, NamesTypeOK, SymbolNameReads, SectionNameReads, Truncated, Reads
<1>2. NamesInv /\ [NamesNext]_names_vars => NamesInv'
  <2>1. ASSUME NamesInv, NEW name \in Names, SetName(name)
        PROVE  NamesInv'
    <3>1. section \in Buffer /\ symbol \in Buffer /\ name \in Seq(Character)
      BY <2>1, NamesAssumption DEF NamesInv, NamesTypeOK
    <3>2. section' \in Buffer /\ symbol' \in Buffer /\ set' \in Names
      BY <2>1, <3>1, StrncpyWrites DEF SetName
    <3>3. symbol'[MAX_LEN] = NUL
      BY <2>1, <3>1, StrncpyWrites DEF SetName, NamesInv
    <3>4. Reads(symbol', Truncated(set'))
      BY <2>1, <3>1, StrncpyReads DEF SetName, NamesInv
    <3>5. Len(set') < MAX_LEN => Reads(section', set')
      BY <2>1, <3>1, StrncpyReads DEF SetName
    <3> QED
      BY <3>2, <3>3, <3>4, <3>5
      DEF NamesInv, NamesTypeOK, SymbolNameReads, SectionNameReads, Truncated, Reads
  <2>2. ASSUME NamesInv, UNCHANGED names_vars
        PROVE  NamesInv'
    BY <2>2 DEF NamesInv, NamesTypeOK, SymbolNameReads, SectionNameReads, Truncated,
                Reads, names_vars
  <2>3. ASSUME NamesInv, InitAgain
        PROVE  NamesInv'
    <3>1. section \in Buffer /\ symbol \in Buffer
      BY <2>3 DEF NamesInv, NamesTypeOK
    <3>2. /\ section' = Cleared(section, MAX_LEN)
          /\ symbol' = Cleared(symbol, MAX_LEN + 1)
          /\ set' = <<>>
      BY <2>3 DEF InitAgain
    <3> QED
      BY <3>1, <3>2, ClearedReads
      DEF NamesInv, NamesTypeOK, SymbolNameReads, SectionNameReads, Truncated, Reads
  <2> QED
    BY <2>1, <2>2, <2>3 DEF NamesNext
<1>3. NamesInv => NamesTypeOK /\ SymbolNameReads /\ SectionNameReads
  BY DEF NamesInv
<1> QED
  BY <1>1, <1>2, <1>3, PTL DEF NamesSpec

(* The buffers keep their lengths.                                         *)
THEOREM NamesTypeCorrect == NamesSpec => []NamesTypeOK
<1>1. NamesTypeOK /\ SymbolNameReads /\ SectionNameReads => NamesTypeOK
  OBVIOUS
<1> QED
  BY <1>1, NamesCorrect, PTL

(* A section's name reads as set where it leaves room for the terminator.  *)
THEOREM SectionNamesCorrect == NamesSpec => []SectionNameReads
<1>1. NamesTypeOK /\ SymbolNameReads /\ SectionNameReads => SectionNameReads
  OBVIOUS
<1> QED
  BY <1>1, NamesCorrect, PTL

-----------------------------------------------------------------------------
(* The object file                                                         *)

(* Every step of the whole is a step or a stutter of either part, so what  *)
(* BytecodeProofs and the theorems above show holds of it.                 *)
THEOREM FileImplementsParts == FileSpec => Spec /\ NamesSpec
<1>1. FileInit => Init /\ NamesInit
  BY DEF FileInit
<1>2. [FileNext]_file_vars => [Next]_vars /\ [NamesNext]_names_vars
  <2> SUFFICES ASSUME [FileNext]_file_vars
               PROVE  [Next]_vars /\ [NamesNext]_names_vars
    OBVIOUS
  <2>1. CASE AddSection
    BY <2>1 DEF AddSection, Next
  <2>2. CASE AddSymbol
    BY <2>2 DEF AddSymbol, Next
  <2>3. CASE ChangeRanges
    BY <2>3 DEF ChangeRanges, Next
  <2>4. CASE ChangeNames
    BY <2>4 DEF ChangeNames
  <2>5. CASE UNCHANGED file_vars
    BY <2>5 DEF file_vars
  <2> QED
    BY <2>1, <2>2, <2>3, <2>4, <2>5 DEF FileNext
<1> QED
  BY <1>1, <1>2, PTL DEF FileSpec, Spec, NamesSpec

-----------------------------------------------------------------------------
(* An array of names next to the names its elements were given.            *)
Kept(names, sets, count) ==
  /\ names \in Seq(Buffer) /\ sets \in Seq(Seq(Character))
  /\ Len(names) = count /\ Len(sets) = count

(* StoredNamesRead with the types of the history.                          *)
StoredInv ==
  /\ Kept(section_names, section_sets, Len(sections))
  /\ Kept(symbol_names, symbol_sets, Len(symbols))
  /\ StoredNamesRead

(* A section or a symbol that could be added is one more in its array, and *)
(* there is no other change.                                               *)
LEMMA GrowsSection ==
  ASSUME TypeOK, NewSection(Here)
  PROVE  \/ status' = 0 /\ Len(sections') = Len(sections) + 1
         \/ status' # 0 /\ sections' = sections
<1> DEFINE added == Added(sections, section_block, SectionSize, Here)
<1>1. Here \in Extent /\ sections \in Seq(Extent)
  BY HereTypes DEF TypeOK
<1>2. \/ added.v = Append(sections, Here) /\ added.status = 0
      \/ added.v = sections /\ added.status # 0
  BY <1>1, AddedElements
<1>3. sections' = added.v /\ status' = added.status
  BY DEF NewSection
<1>4. Len(Append(sections, Here)) = Len(sections) + 1
  BY <1>1, AppendProperties
<1> HIDE DEF added
<1> QED
  BY <1>2, <1>3, <1>4

LEMMA GrowsSymbol ==
  ASSUME TypeOK, NewSymbol(Here)
  PROVE  \/ status' = 0 /\ Len(symbols') = Len(symbols) + 1
         \/ status' # 0 /\ symbols' = symbols
<1> DEFINE added == Added(symbols, symbol_block, SymbolSize, Here)
<1>1. Here \in Extent /\ symbols \in Seq(Extent)
  BY HereTypes DEF TypeOK
<1>2. \/ added.v = Append(symbols, Here) /\ added.status = 0
      \/ added.v = symbols /\ added.status # 0
  BY <1>1, AddedElements
<1>3. symbols' = added.v /\ status' = added.status
  BY DEF NewSymbol
<1>4. Len(Append(symbols, Here)) = Len(symbols) + 1
  BY <1>1, AppendProperties
<1> HIDE DEF added
<1> QED
  BY <1>2, <1>3, <1>4

(* Every element keeps the name its struct had when it was added, in every *)
(* object file, whatever the lengths of names and buffers and whatever     *)
(* calls fail.                                                             *)
THEOREM StoredNamesCorrect == FileSpec => []StoredNamesRead
<1> DEFINE Parts == /\ TypeOK /\ NamesTypeOK
                    /\ SymbolNameReads /\ SectionNameReads
<1>1. FileInit => StoredInv
  <2>1. Len(<<>>) = 0 /\ <<>> \in Seq(Buffer) /\ <<>> \in Seq(Seq(Character))
    OBVIOUS
  <2> QED
    BY <2>1 DEF FileInit, Init, StoredInv, Kept, StoredNamesRead
<1>2. Parts /\ Parts' /\ StoredInv /\ [FileNext]_file_vars => StoredInv'
  <2> SUFFICES ASSUME Parts, Parts', StoredInv, [FileNext]_file_vars
               PROVE  StoredInv'
    OBVIOUS
  <2>0. /\ Len(sections) \in Nat /\ Len(symbols) \in Nat
        /\ section \in Buffer /\ symbol \in Buffer /\ set \in Seq(Character)
    <3>1. Len(sections) \in Nat /\ Len(symbols) \in Nat
      BY LenProperties DEF TypeOK
    <3>2. section \in Buffer /\ symbol \in Buffer /\ set \in Names \cup {<<>>}
      BY DEF NamesTypeOK
    <3>3. set \in Seq(Character)
      BY <3>2, NamesAssumption, EmptySeq
    <3> QED
      BY <3>1, <3>2, <3>3
  <2>1. CASE AddSection
    <3>1. CASE status' = 0
      <4>1. /\ Len(sections') = Len(sections) + 1 /\ symbols' = symbols
            /\ section_names' = Append(section_names, section)
            /\ section_sets' = Append(section_sets, set)
            /\ UNCHANGED <<symbol_names, symbol_sets>>
        BY <2>1, <3>1, GrowsSection DEF AddSection, NewSection, Stored
      <4>2. /\ Kept(section_names, section_sets, Len(sections))
            /\ Kept(symbol_names, symbol_sets, Len(symbols))
        BY DEF StoredInv
      <4>3. /\ Kept(section_names', section_sets', Len(sections) + 1)
            /\ section_names'[Len(sections) + 1] = section
            /\ section_sets'[Len(sections) + 1] = set
            /\ \A i \in 1 .. Len(sections) : /\ section_names'[i] = section_names[i]
                                             /\ section_sets'[i] = section_sets[i]
        <5>1. /\ section_names \in Seq(Buffer) /\ Len(section_names) = Len(sections)
              /\ section_names' = Append(section_names, section) /\ section \in Buffer
          BY <2>0, <4>1, <4>2 DEF Kept
        <5>2. /\ section_sets \in Seq(Seq(Character)) /\ Len(section_sets) = Len(sections)
              /\ section_sets' = Append(section_sets, set) /\ set \in Seq(Character)
          BY <2>0, <4>1, <4>2 DEF Kept
        <5> QED
          BY ONLY <5>1, <5>2, AppendProperties DEF Kept
      <4>4. \A i \in 1 .. Len(sections) + 1 :
              Len(section_sets'[i]) < MAX_LEN =>
                Reads(section_names'[i], section_sets'[i])
        BY <2>0, <4>3 DEF StoredInv, StoredNamesRead, SectionNameReads
      <4>5. /\ Kept(section_names', section_sets', Len(sections'))
            /\ Kept(symbol_names', symbol_sets', Len(symbols'))
        BY <4>1, <4>2, <4>3
      <4> QED
        BY <4>1, <4>4, <4>5
        DEF StoredInv, StoredNamesRead, Kept, Reads, Truncated
    <3>2. CASE status' # 0
      <4>1. UNCHANGED <<sections, symbols, element_names>>
        BY <2>1, <3>2, GrowsSection DEF AddSection, NewSection, element_names
      <4> QED
        BY <4>1
        DEF StoredInv, StoredNamesRead, Kept, Reads, Truncated, element_names
    <3> QED
      BY <3>1, <3>2
  <2>2. CASE AddSymbol
    <3>1. CASE status' = 0
      <4>1. /\ Len(symbols') = Len(symbols) + 1 /\ sections' = sections
            /\ symbol_names' = Append(symbol_names, symbol)
            /\ symbol_sets' = Append(symbol_sets, set)
            /\ UNCHANGED <<section_names, section_sets>>
        BY <2>2, <3>1, GrowsSymbol DEF AddSymbol, NewSymbol, Stored
      <4>2. /\ Kept(section_names, section_sets, Len(sections))
            /\ Kept(symbol_names, symbol_sets, Len(symbols))
        BY DEF StoredInv
      <4>3. /\ Kept(symbol_names', symbol_sets', Len(symbols) + 1)
            /\ symbol_names'[Len(symbols) + 1] = symbol
            /\ symbol_sets'[Len(symbols) + 1] = set
            /\ \A i \in 1 .. Len(symbols) : /\ symbol_names'[i] = symbol_names[i]
                                            /\ symbol_sets'[i] = symbol_sets[i]
        <5>1. /\ symbol_names \in Seq(Buffer) /\ Len(symbol_names) = Len(symbols)
              /\ symbol_names' = Append(symbol_names, symbol) /\ symbol \in Buffer
          BY <2>0, <4>1, <4>2 DEF Kept
        <5>2. /\ symbol_sets \in Seq(Seq(Character)) /\ Len(symbol_sets) = Len(symbols)
              /\ symbol_sets' = Append(symbol_sets, set) /\ set \in Seq(Character)
          BY <2>0, <4>1, <4>2 DEF Kept
        <5> QED
          BY ONLY <5>1, <5>2, AppendProperties DEF Kept
      <4>4. ASSUME NEW i \in 1 .. Len(symbols) + 1
            PROVE  Reads(symbol_names'[i], Truncated(symbol_sets'[i]))
        <5>1. CASE i \in 1 .. Len(symbols)
          <6>1. symbol_names'[i] = symbol_names[i] /\ symbol_sets'[i] = symbol_sets[i]
            BY <4>3, <5>1
          <6>2. Reads(symbol_names[i], Truncated(symbol_sets[i]))
            BY <5>1 DEF StoredInv, StoredNamesRead
          <6> QED
            BY <6>1, <6>2
        <5>2. CASE i = Len(symbols) + 1
          BY <4>3, <5>2 DEF SymbolNameReads
        <5> QED
          BY <2>0, <5>1, <5>2
      <4>5. /\ Kept(section_names', section_sets', Len(sections'))
            /\ Kept(symbol_names', symbol_sets', Len(symbols'))
        BY <4>1, <4>2, <4>3
      <4> QED
        BY <4>1, <4>4, <4>5
        DEF StoredInv, StoredNamesRead, Kept, Reads, Truncated
    <3>2. CASE status' # 0
      <4>1. UNCHANGED <<sections, symbols, element_names>>
        BY <2>2, <3>2, GrowsSymbol DEF AddSymbol, NewSymbol, element_names
      <4> QED
        BY <4>1
        DEF StoredInv, StoredNamesRead, Kept, Reads, Truncated, element_names
    <3> QED
      BY <3>1, <3>2
  <2>3. CASE ChangeRanges
    <3>1. /\ Len(sections') = Len(sections) /\ Len(symbols') = Len(symbols)
          /\ UNCHANGED element_names
      BY <2>3, EndedTypes
      DEF ChangeRanges, TerminateLastSection, TerminateLastSymbol, AppendByte, TypeOK
    <3> QED
      BY <3>1 DEF StoredInv, StoredNamesRead, Kept, Reads, Truncated, element_names
  <2>4. CASE ChangeNames \/ UNCHANGED file_vars
    <3>1. UNCHANGED <<sections, symbols, element_names>>
      BY <2>4 DEF ChangeNames, file_vars, vars
    <3> QED
      BY <3>1 DEF StoredInv, StoredNamesRead, Kept, Reads, Truncated, element_names
  <2> QED
    BY <2>1, <2>2, <2>3, <2>4 DEF FileNext
<1>3. StoredInv => StoredNamesRead
  BY DEF StoredInv
<1>4. FileSpec => []Parts
  <2>1. (TypeOK /\ BlocksFit) /\ (NamesTypeOK /\ SymbolNameReads /\ SectionNameReads)
          => Parts
    OBVIOUS
  <2> QED
    BY <2>1, FileImplementsParts, BlocksCorrect, NamesCorrect, PTL
<1> QED
  BY <1>1, <1>2, <1>3, <1>4, PTL DEF FileSpec
=============================================================================
