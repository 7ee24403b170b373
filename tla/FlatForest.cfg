SPECIFICATION Spec
CONSTANTS
  Main = main
  Related = k1
  MaxKey = 2
  MaxBorn = 2
  MaxFaults = 1
  Stumps = {3}
INVARIANTS  InheritsByTurn OneHeadPerTrunk
CHECK_DEADLOCK FALSE
