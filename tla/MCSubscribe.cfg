SPECIFICATION FairSpec
CONSTANTS
  Event = {e1, e2, e3}
  NoEvent = NoEvent
  Concurrency = 2
  MaxAttempts = 2
INVARIANT ThrownNotAcked
CHECK_DEADLOCK FALSE
