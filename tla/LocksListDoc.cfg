CONSTANTS
  Proc = {p1, p2}
  Trunk = {a}
  None = None
  Ops = {"fork", "list"}
  MaxCalls = 2
SPECIFICATION FairSpec
PROPERTIES ForkBlocksNobody
CHECK_DEADLOCK FALSE
