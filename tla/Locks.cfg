CONSTANTS
  Proc = {p1, p2, p3}
  Trunk = {a}
  None = None
  Ops = {"append", "fork", "create", "mutate", "head", "close", "evict", "read", "sync"}
  MaxCalls = 4
SPECIFICATION FairSpec
INVARIANTS MutationIsAlone
PROPERTIES CallsReturn
CHECK_DEADLOCK FALSE
