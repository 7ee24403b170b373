CONSTANTS
  Readers = {r1, r2}
  Owners = {o1}
  None = None
  Base = 3
  Top = 3
  Unit = {1, 2, 3}
  Empty = {3}
  Limit = 1
  Chunk = 1
  From = {0, 1}
  To = {2, 3}
  MaxRuns = 4
  MaxCalls = 3
SPECIFICATION Spec
CHECK_DEADLOCK FALSE
INVARIANTS  MeterIsTrue BudgetFits
