SPECIFICATION PagingSpec
CONSTANTS
  Parts = {"keyset"}
  Item = {1, 2, 3}
  Config <- SmallPages
  Delay = 1
  Latency = 1
  LastMoment = 5
  MinMs = 1
  MaxMs = 4
  Adaptive = TRUE
  JitterPct = 30
  BaseMs = 1
  BackoffMs = 2
  Failures = 2
  ProbeMs = 2
  Limit = 3
  Window = 5
  CycleRequests = 3
  RetryAfter = {0, 3}
  MaxTime = 6
  MaxRequests = 4
  MaxFailures = 3
  Ident = {1, 2, 3, 4}
  Size = 2
  Chunk = 1
  MaxWrites = 1
  Time = {1, 2}
  PageLimit = 1
  Tries = 2
  MaxSequence = 4
  MaxEpoch = 3
INVARIANT NoneSkipped
CHECK_DEADLOCK FALSE
