SPECIFICATION Spec
CONSTANTS
  a = a  b = b  r1 = r1  r2 = r2  k1 = k1  k2 = k2  v1 = v1  v2 = v2
  Absent = Absent
  NoOwner = NoOwner
  Identity = {k1, k2}
  Version = {v1, v2}
  Owner = {a}
  Run = {r1}
  OwnerOf <- OneRun
  Concurrency = 2
  DispatchBatchSize = 2
  RetryAttempts = 2
  HoldKey = TRUE
  PoisonAction = "park"
  PageSize = 2
  MaxPagesPerCycle = 2
  Reverts = TRUE
  MaxFeed = 4
  MaxMishaps = 2
INVARIANTS DeliveryInOrder NoKeyStarved
CHECK_DEADLOCK FALSE
