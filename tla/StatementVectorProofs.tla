----------------------- MODULE StatementVectorProofs -----------------------
(***************************************************************************)
(* The growing array of prebytecode_t is a list, for any sizes, capacities *)
(* and failures of realloc.                                                *)
(***************************************************************************)
EXTENDS StatementVector, SequenceTheorems, TLAPS

(* The two facts are inductive together: an array is only freed at a count *)
(* of 0 because its capacity is clamped to the count.                      *)
IInv == TypeOK /\ CountWithinCapacity

LEMMA ClampedTypes ==
  ASSUME TypeOK, NEW cap \in Nat
  PROVE  Clamped(cap) \in Nat /\ Clamped(cap) >= Len(statements)
         /\ Clamped(cap) >= cap
BY LenProperties DEF TypeOK, Clamped

LEMMA SetCapacityInvariant ==
  ASSUME IInv, NEW cap \in Capacities, SetPrebytecodeCapacity(cap)
  PROVE  IInv' /\ UNCHANGED statements /\ status' \in {0, 1}
<1>1. Clamped(cap) \in Nat /\ Clamped(cap) >= Len(statements)
  BY ClampedTypes, VectorAssumption DEF IInv
<1>2. CASE Clamped(cap) = 0 /\ block # NoBlock
  <2>1. Free /\ status' = 0
    BY <1>2 DEF SetPrebytecodeCapacity
  <2>2. Len(statements) = 0
    BY <1>1, <1>2, LenProperties DEF IInv, TypeOK
  <2>3. statements = <<>>
    BY <2>2, EmptySeq DEF IInv, TypeOK
  <2> QED
    BY <2>1, <2>2, <2>3 DEF Free, IInv, TypeOK, CountWithinCapacity, NoBlock
<1>3. CASE NoMemory
  BY <1>3 DEF NoMemory, IInv, TypeOK, CountWithinCapacity
<1>4. CASE /\ Realloc(Clamped(cap))
           /\ stmts_capacity' = Clamped(cap)
           /\ status' = 0
           /\ UNCHANGED statements
  BY <1>1, <1>4 DEF Realloc, IInv, TypeOK, CountWithinCapacity, NoBlock
<1> QED
  BY <1>2, <1>3, <1>4 DEF SetPrebytecodeCapacity

LEMMA PushInvariant ==
  ASSUME IInv, NEW s \in Statement, PushPrebytecodeStmt(s)
  PROVE  /\ IInv'
         /\ \/ statements' = Append(statements, s) /\ status' = 0
            \/ UNCHANGED statements /\ status' = 1
<1>1. /\ Append(statements, s) \in Seq(Statement)
      /\ Len(Append(statements, s)) = Len(statements) + 1
  BY AppendProperties DEF IInv, TypeOK
<1>2. Len(statements) \in Nat
  BY LenProperties DEF IInv, TypeOK
<1>3. CASE NoMemory
  BY <1>3 DEF NoMemory, IInv, TypeOK, CountWithinCapacity
<1>4. CASE /\ Len(statements) >= stmts_capacity
           /\ Realloc(Clamped(stmts_capacity + CapacityStep))
           /\ stmts_capacity' = Clamped(stmts_capacity + CapacityStep)
           /\ Store(s)
  <2>1. stmts_capacity \in Nat /\ Len(statements) <= stmts_capacity
    BY DEF IInv, TypeOK, CountWithinCapacity
  <2>2. stmts_capacity + CapacityStep \in Nat
    BY <2>1, VectorAssumption
  <2>3. /\ Clamped(stmts_capacity + CapacityStep) \in Nat
        /\ Clamped(stmts_capacity + CapacityStep) >= Len(statements) + 1
    BY <1>2, <2>1, <2>2, ClampedTypes, VectorAssumption DEF IInv
  <2> QED
    BY <1>1, <1>2, <1>4, <2>3
    DEF Store, Realloc, IInv, TypeOK, CountWithinCapacity, NoBlock
<1>5. CASE /\ ~(Len(statements) >= stmts_capacity)
           /\ Store(s)
           /\ UNCHANGED <<stmts_capacity, block>>
  BY <1>1, <1>2, <1>5 DEF Store, IInv, TypeOK, CountWithinCapacity, NoBlock
<1> QED
  BY <1>3, <1>4, <1>5 DEF PushPrebytecodeStmt

LEMMA InitInvariant == Init => IInv
BY EmptySeq DEF Init, IInv, TypeOK, CountWithinCapacity

LEMMA NextInvariant == IInv /\ [Next]_vars => IInv'
<1> SUFFICES ASSUME IInv, [Next]_vars PROVE IInv'
  OBVIOUS
<1>1. ASSUME NEW c \in Capacities, SetPrebytecodeCapacity(c) PROVE IInv'
  BY <1>1, SetCapacityInvariant
<1>2. ASSUME NEW s \in Statement, PushPrebytecodeStmt(s) PROVE IInv'
  BY <1>2, PushInvariant
<1>3. CASE UNCHANGED vars
  BY <1>3 DEF vars, IInv, TypeOK, CountWithinCapacity
<1> QED
  BY <1>1, <1>2, <1>3 DEF Next

(* Every value is of its type, and the count never passes the capacity: no *)
(* push stores beyond what was reserved.                                   *)
THEOREM VectorCorrect == Spec => [](TypeOK /\ CountWithinCapacity)
<1>1. IInv => TypeOK /\ CountWithinCapacity
  BY DEF IInv
<1> QED
  BY InitInvariant, NextInvariant, <1>1, PTL DEF Spec

(* And every variable of the array is always of its type.                  *)
THEOREM TypeCorrect == Spec => []TypeOK
<1>1. TypeOK /\ CountWithinCapacity => TypeOK
  OBVIOUS
<1> QED
  BY <1>1, VectorCorrect, PTL

(* The array implements the list of StatementList: it loses, repeats and   *)
(* reorders no statement.                                                  *)
THEOREM VectorImplementsList == Spec => ImplementsList
<1>1. Init => List!Init
  BY DEF Init, List!Init
<1>2. IInv /\ [Next]_vars => [List!Next]_<<statements, status>>
  <2> SUFFICES ASSUME IInv, [Next]_vars
               PROVE  [List!Next]_<<statements, status>>
    OBVIOUS
  <2>1. ASSUME NEW c \in Capacities, SetPrebytecodeCapacity(c)
        PROVE  List!Next
    BY <2>1, SetCapacityInvariant DEF List!Next, List!Fail, List!Other
  <2>2. ASSUME NEW s \in Statement, PushPrebytecodeStmt(s)
        PROVE  List!Next
    BY <2>2, PushInvariant DEF List!Next, List!Push, List!Fail
  <2>3. CASE UNCHANGED vars
    BY <2>3 DEF vars
  <2> QED
    BY <2>1, <2>2, <2>3 DEF Next
<1> QED
  BY InitInvariant, NextInvariant, <1>1, <1>2, PTL
  DEF Spec, ImplementsList, List!Spec
=============================================================================
