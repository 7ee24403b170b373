CONSTANTS
  Trunk = {a}
  Calls = {c1, c2}
  Views = {v1}
  MaxGen = 2
  MaxBorn = 3
  MaxFaults = 1
  MaxWindows = 0
SPECIFICATION FairSpec
INVARIANTS  NoUseAfterClose PendingIsListed
PROPERTIES RetiredCloses
CHECK_DEADLOCK FALSE
