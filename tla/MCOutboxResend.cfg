\* An overtaken worker still holds an item that awaits confirmation.
SPECIFICATION Spec
CONSTANTS
  e1 = e1
  e2 = e2
  None = None
  Items = {1, 2}
  ExtIds = {e1, e2}
  ExtId <- OwnExtIds
  Workers = {w1, w2}
  BatchSize = 2
  MaxAttempts = 2
  MaxQueryAttempts = 2
  MaxStops = 0
PROPERTY
  AwaitingIsNotResent
