--------------------------- MODULE StatementList ---------------------------
(***************************************************************************)
(* What prebytecode_t promises its users: a list that a push extends by    *)
(* exactly the statement given, or leaves alone if it returns an error,    *)
(* and that nothing else changes.                                          *)
(***************************************************************************)
EXTENDS Sequences

CONSTANT Statement

VARIABLES
  list,   \* the statements pushed
  status  \* what the latest call returned

Init == list = <<>> /\ status = 0

Push(s) == list' = Append(list, s) /\ status' = 0

Fail == status' = 1 /\ UNCHANGED list

Other == status' = 0 /\ UNCHANGED list

Next == (\E s \in Statement : Push(s)) \/ Fail \/ Other

Spec == Init /\ [][Next]_<<list, status>>
=============================================================================
