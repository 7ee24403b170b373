SPECIFICATION Spec
CONSTANTS
  Old = board
  New = form
  Writers = {w1, w2}
  MaxNode = 3
  MaxBorn = 2
  MaxFaults = 2
INVARIANTS PlansComplete EveryNodeHasChannel NothingLeftBehind NodesFoldTheirPatches
CHECK_DEADLOCK FALSE
