SPECIFICATION Spec
CONSTANTS
  Requests = {1, 2, 3}
  Definitions = {d1, d2}
  MaxTarget = 3
INVARIANTS CurrentIsNewest NeverVanishes RollbackRestores
PROPERTIES DeletedStaysDeleted ImplementsHistory
CHECK_DEADLOCK FALSE
