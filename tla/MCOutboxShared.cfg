\* Two orders of different tenants carry the same external id.
SPECIFICATION Spec
CONSTANTS
  e1 = e1
  e2 = e2
  None = None
  Items = {1, 2}
  ExtIds = {e1, e2}
  ExtId <- SharedExtId
  Workers = {w1}
  BatchSize = 2
  MaxAttempts = 2
  MaxQueryAttempts = 2
  MaxStops = 0
INVARIANT
  DoneMeansOwnOrderRegistered
