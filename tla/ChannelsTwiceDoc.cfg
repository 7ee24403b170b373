SPECIFICATION Spec
CONSTANTS
  Old = board
  New = form
  Writers = {w1, w2}
  MaxNode = 3
  MaxBorn = 2
  MaxFaults = 0
INVARIANT EnsureIsIdempotent
CHECK_DEADLOCK FALSE
