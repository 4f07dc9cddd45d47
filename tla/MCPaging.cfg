SPECIFICATION PagingSpec
CONSTANTS
  Parts = {"schedule", "keyset", "stream", "replay"}
  Item = {1, 2}
  Config <- Pollers
  Delay = 1
  Latency = 1
  LastMoment = 5
  MinMs = 1
  MaxMs = 4
  Adaptive = TRUE
  JitterPct = 30
  BaseMs = 1
  BackoffMs = 2
  Failures = 2
  ProbeMs = 2
  Limit = 3
  Window = 4
  CycleRequests = 3
  RetryAfter = {0, 3}
  MaxTime = 5
  MaxRequests = 6
  MaxFailures = 3
  Ident = {1, 2, 3, 4}
  Size = 2
  Chunk = 1
  MaxWrites = 1
  Time = {1, 2}
  PageLimit = 1
  Tries = 2
  MaxSequence = 4
  MaxEpoch = 3
INVARIANTS ScheduleInv QuotaKept StreamSound ReplaySound
PROPERTIES RetryAfterHeeded KeysetSound
CHECK_DEADLOCK FALSE
