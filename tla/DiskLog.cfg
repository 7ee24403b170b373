SPECIFICATION Spec
CONSTANTS
  Capacity = 2
  MaxBorn = 5
  Kinds <- AllKinds
INVARIANTS  ReadsBack StateFolds SyncedSurvives
CONSTRAINT Followed
