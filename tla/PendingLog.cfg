CONSTANTS
  Thread = {t1, t2}
  NoThread = NoThread
  Payload = {a, b}
  MaxLag = 1
  MaxIndex = 3
  DiskFaults = TRUE
SPECIFICATION FairSpec
INVARIANTS TypeOK ServesAccepted PromiseIsSynced NoStrandedRecord BytesMatchBuffer
PROPERTIES RefinesDurableLog SyncReturns
