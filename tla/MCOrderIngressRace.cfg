\* Under the isolation level Odoo sets, the loser of a race is not resolved.
SPECIFICATION Spec
CONSTANTS
  Events = {"e1", "e2", "e3", "e4"}
  Keys = {"k"}
  Contents = {"pizza, 30", "pizza, 30.0", "burger, 30"}
  OrderKey <- AllOneKey
  Content <- ThreeContents
  AsStored <- IntegerTotals
  Refusal <- OnlyE4Refused
  Accepted = Accepted
  None = None
  OrderIds = {1, 2}
  HttpWorkers = {h1, h2}
  Isolations = {"repeatable_read"}
  MaxFaults = 1
INVARIANT
  RaceIsResolved
