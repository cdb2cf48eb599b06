\* The first push stores a statement in a block of CapacityStep bytes.
SPECIFICATION Spec
CONSTANTS
  Statement = {s1}
  StmtSize = 532
  CapacityStep = 8
  MayFail = FALSE
  Capacities = {0}
  MaxStatements = 2
INVARIANT StatementsInBlock
