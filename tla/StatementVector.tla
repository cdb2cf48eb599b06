-------------------------- MODULE StatementVector --------------------------
(***************************************************************************)
(* prebytecode_t (src/minias/prebytecode.c): the growing array of the      *)
(* statements parsed so far. Nothing in the code reads a statement back,   *)
(* so the array is the sequence of what was stored in it, whether or not   *)
(* the block behind it is large enough.                                    *)
(***************************************************************************)
EXTENDS Integers, Sequences

CONSTANTS
  Statement,     \* what may be pushed
  StmtSize,      \* sizeof(statement_t)
  CapacityStep,  \* the slots a full array grows by: 8
  MayFail,       \* whether realloc may return NULL
  Capacities,    \* what a client passes to set_prebytecode_capacity
  MaxStatements  \* bound on the statements pushed

ASSUME VectorAssumption ==
  /\ StmtSize \in Nat \ {0}
  /\ CapacityStep \in Nat \ {0}
  /\ MayFail \in BOOLEAN
  /\ Capacities \subseteq Nat
  /\ MaxStatements \in Nat

VARIABLES
  statements,      \* p->statements[0 .. stmts_count-1]
  stmts_capacity,  \* p->stmts_capacity
  block,           \* bytes allocated for p->statements, NoBlock where NULL
  status           \* what the latest call returned

vars == <<statements, stmts_capacity, block, status>>

NoBlock == -1

(* init_prebytecode                                                        *)
Init ==
  /\ statements = <<>>
  /\ stmts_capacity = 0
  /\ block = NoBlock
  /\ status = 0

(* realloc, external, where it succeeds; also for 0 bytes it returns a     *)
(* block.                                                                  *)
Realloc(bytes) == block' = bytes

(* Mutant: the error is a negative number.                                 *)
NoMemoryNegative ==
  /\ MayFail
  /\ status' = -1
  /\ UNCHANGED <<statements, stmts_capacity, block>>

(* A call returns early because realloc returned NULL.                     *)
NoMemory ==
  /\ MayFail
  /\ status' = 1
  /\ UNCHANGED <<statements, stmts_capacity, block>>

(* Mutant: nothing keeps the capacity from falling below the count.        *)
Unclamped(new_cap) == new_cap

(* The capacity never falls below the count.                               *)
Clamped(new_cap) ==
  IF new_cap < Len(statements) THEN Len(statements) ELSE new_cap

Free ==
  /\ block' = NoBlock
  /\ statements' = <<>>
  /\ stmts_capacity' = 0

SetPrebytecodeCapacity(new_cap) ==
  LET cap == Clamped(new_cap)
  IN  IF cap = 0 /\ block # NoBlock
      THEN Free /\ status' = 0
      ELSE \/ NoMemory
           \/ /\ Realloc(cap)
              /\ stmts_capacity' = cap
              /\ status' = 0
              /\ UNCHANGED statements

(* Mutant: the status of set_prebytecode_capacity is not looked at.        *)
PushAnyway(s) ==
  /\ IF Len(statements) >= stmts_capacity
     THEN \/ MayFail /\ UNCHANGED <<stmts_capacity, block>>
          \/ /\ Realloc(Clamped(stmts_capacity + CapacityStep))
             /\ stmts_capacity' = Clamped(stmts_capacity + CapacityStep)
     ELSE UNCHANGED <<stmts_capacity, block>>
  /\ statements' = Append(statements, s)
  /\ status' = 0

Store(s) == statements' = Append(statements, s) /\ status' = 0

(* push_prebytecode_stmt                                                   *)
PushPrebytecodeStmt(s) ==
  IF Len(statements) >= stmts_capacity
  THEN \/ NoMemory
       \/ /\ Realloc(Clamped(stmts_capacity + CapacityStep))
          /\ stmts_capacity' = Clamped(stmts_capacity + CapacityStep)
          /\ Store(s)
  ELSE Store(s) /\ UNCHANGED <<stmts_capacity, block>>

Next ==
  \/ \E c \in Capacities : SetPrebytecodeCapacity(c)
  \/ /\ Len(statements) < MaxStatements
     /\ \E s \in Statement : PushPrebytecodeStmt(s)

Spec == Init /\ [][Next]_vars

-----------------------------------------------------------------------------
TypeOK ==
  /\ statements \in Seq(Statement)
  /\ stmts_capacity \in Nat
  /\ block \in Nat \cup {NoBlock}
  /\ status \in {0, 1}

(* The count never passes the capacity, whatever was reserved, given back  *)
(* or refused before, and where there is no block there is no capacity: no *)
(* push stores through a NULL pointer or beyond the capacity.              *)
CountWithinCapacity ==
  /\ Len(statements) <= stmts_capacity
  /\ block = NoBlock => stmts_capacity = 0

(* The vector is the list of StatementList: no reservation, reallocation   *)
(* or failure drops, repeats or reorders a statement.                      *)
List == INSTANCE StatementList WITH list <- statements
ImplementsList == List!Spec

(* Every statement added to the array (parser.c: "add this statement to    *)
(* prebytecode_t *b") lies in the block allocated for the array.           *)
StatementsInBlock ==
  Len(statements) > 0 => Len(statements) * StmtSize <= block
=============================================================================
