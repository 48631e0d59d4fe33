\* The six parts that share nothing, one after the other.
SPECIFICATION Spec
CONSTANTS
  None = None
  Keys = {"k1", "k2"}
  Payloads = {"p1", "p2"}
  Commercial = {"accepted", "rejected", "completed", "cancelled"}
  MaxAttempts = 3
  MaxSeq = 2
  Last = 3
  ImportStep = 2
  States = {"not_started", "failed", "passed"}
  Sessions = {"s1", "s2"}
  Absent = Absent
  MaxNumber = 4
  Unconfirmed = Unconfirmed
  Ids = {"x", "y"}
  Skus = {"A", "B"}
  Texts = {"t", "u"}
  MaxVersion = 2
  MaxBatch = 2
  Amounts = {0, 5}
  Currencies = {"SAR", "USD"}
  Versions = {1, 2}
  ZeroNotAllowed = ZeroNotAllowed
  MaxOverrides = 2
  DayLength = 3
  Week = 2
  MaxWindows = 1
INVARIANTS
  OneOrderAllAttempts
  PassedIsCurrent
  RepeatChangesNothing
  OneRecordPerSku
  MostSpecificNewest
  StoredPriceCounts
  OpenWithinAWindow
  ShowsNewestConfirmation
PROPERTIES
  SettledStays
  GoesLiveWhenReady
CHECK_DEADLOCK FALSE
