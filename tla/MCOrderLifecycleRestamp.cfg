\* The timestamps against a write that repeats the state an order is in, when
\* no caller gives one of its own.
SPECIFICATION Spec
CONSTANTS
  None = None
  NotGiven = NotGiven
  SentTimes = {}
  ConfirmedTimes = {}
  Orders = {o1}
  Sessions = {s1}
  MaxClock = 1
PROPERTY
  StampedOnTransitionOnly
