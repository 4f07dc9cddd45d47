SPECIFICATION FairSpec
CONSTANTS
  a = a  b = b  r1 = r1  r2 = r2  k1 = k1  k2 = k2  v1 = v1  v2 = v2
  Absent = Absent
  NoOwner = NoOwner
  Identity = {k1}
  Version = {v1, v2}
  Owner = {a}
  Run = {r1, r2}
  OwnerOf <- OneInstance
  Concurrency = 1
  DispatchBatchSize = 4
  RetryAttempts = 1
  HoldKey = TRUE
  PoisonAction = "halt"
  PageSize = 1
  MaxPagesPerCycle = 2
  Reverts = FALSE
  MaxFeed = 2
  MaxMishaps = 1
INVARIANTS SingleFreshWriter
PROPERTIES EventuallyCommitted EventuallySettled
CHECK_DEADLOCK FALSE
