\* Safety: two items, two workers that may overtake each other.
SPECIFICATION Spec
SYMMETRY WorkerSymmetry
CONSTANTS
  e1 = e1
  e2 = e2
  None = None
  Items = {1, 2}
  ExtIds = {e1, e2}
  ExtId <- OwnExtIds
  Workers = {w1, w2}
  BatchSize = 2
  MaxAttempts = 2
  MaxQueryAttempts = 2
  MaxStops = 0
INVARIANTS
  TypeOK
  DoneMeansRegistered
  EffectAtMostOnce
  BudgetsRespected
  AwaitingHasReference
  ExclusiveDispatch
