CONSTANTS
  Thread = {t1, t2}
  NoThread = NoThread
  Payload = {a, b}
  MaxLag = 1
  MaxIndex = 3
  DiskFaults = FALSE
  Reader = {r1}
  NotFound = NotFound
SPECIFICATION RSpec
INVARIANTS ReadFindsAccepted RangeIsPrefix ScanIsReversedPrefix  LagBound
SYMMETRY Symmetry
