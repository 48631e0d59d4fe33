\* Liveness: one item, two workers, one of them stopped mid-cycle.
SPECIFICATION FairSpec
CONSTANTS
  e1 = e1
  e2 = e2
  None = None
  Items = {1}
  ExtIds = {e1, e2}
  ExtId <- OwnExtIds
  Workers = {w1, w2}
  BatchSize = 2
  MaxAttempts = 2
  MaxQueryAttempts = 2
  MaxStops = 1
PROPERTY
  EventuallySettled
