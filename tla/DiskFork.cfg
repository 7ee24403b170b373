SPECIFICATION Spec
CONSTANTS
  Names = {"a", "b", "x"}
  RootName = "main"
  Capacity = 2
  MaxBorn = 4
  MaxForks = 2
CHECK_DEADLOCK FALSE
INVARIANTS NothingLost LineagesIntact HeadersFold
