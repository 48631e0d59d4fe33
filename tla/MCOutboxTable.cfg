\* Safety: two items, two cron workers that may overlap, one of them dying.
SPECIFICATION Spec
CONSTANTS
  e1 = e1
  e2 = e2
  None = None
  Items = {1, 2}
  ExtIds = {e1, e2}
  ExtId <- OwnExtIds
  Workers = {w1, w2}
  BatchSize = 2
  MaxAttempts = 2
  MaxQueryAttempts = 1
  MaxCrashes = 1
SYMMETRY WorkerSymmetry
INVARIANTS
  TypeOK
  CommittedRowsAreFinished
  EffectAtMostOnce
PROPERTIES
  ImplementsDelivery
  SentOnlyWhilePending
