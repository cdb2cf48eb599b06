\* An array that grows by two slots, with three capacities to ask for at any
\* moment and a realloc that may fail.
SPECIFICATION Spec
CONSTANTS
  Statement = {s1, s2}
  StmtSize = 5
  CapacityStep = 2
  MayFail = TRUE
  Capacities = {0, 1, 4}
  MaxStatements = 6
INVARIANTS TypeOK CountWithinCapacity
PROPERTIES ImplementsList
