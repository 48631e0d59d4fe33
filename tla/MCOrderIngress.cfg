\* Safety and liveness: four events, two HTTP workers, one fault.
SPECIFICATION FairSpec
CONSTANTS
  Events = {"e1", "e2", "e3", "e4"}
  Keys = {"k"}
  Contents = {"pizza, 30", "pizza, 30.0", "burger, 30"}
  OrderKey <- AllOneKey
  Content <- ThreeContents
  AsStored <- IntegerTotals
  Refusal <- OnlyE4Refused
  Accepted = Accepted
  None = None
  OrderIds = {1, 2}
  HttpWorkers = {h1, h2}
  Isolations = {"repeatable_read", "read_committed"}
  MaxFaults = 1
INVARIANTS
  TypeOK
  StoredOnceAndQueued
  AcknowledgedIsStored
  ConflictIsReal
  LoserHasAWinner
PROPERTY
  EventuallyAnswered
