\* One order, two sessions that may overlap, two moments; callers may give the
\* moment of the confirmation themselves.
SPECIFICATION Spec
SYMMETRY SessionSymmetry
CONSTANTS
  None = None
  NotGiven = NotGiven
  SentTimes = {}
  ConfirmedTimes = {0}
  Orders = {o1}
  Sessions = {s1, s2}
  MaxClock = 1
INVARIANTS
  TypeOK
  DurationsMakeSense
PROPERTY
  NeverBack
