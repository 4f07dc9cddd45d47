SPECIFICATION Spec
CONSTANTS
  a = a  b = b  r1 = r1  r2 = r2  k1 = k1  k2 = k2  v1 = v1  v2 = v2
  Absent = Absent
  NoOwner = NoOwner
  Identity = {k1}
  Version = {v1, v2}
  Owner = {a, b}
  Run = {r1, r2}
  OwnerOf <- TwoInstances
  Concurrency = 1
  DispatchBatchSize = 1
  RetryAttempts = 1
  HoldKey = TRUE
  PoisonAction = "park"
  PageSize = 1
  MaxPagesPerCycle = 2
  Reverts = TRUE
  MaxFeed = 4
  MaxMishaps = 2
INVARIANTS TypeOK NoEventLost CursorSound SequenceUnique DeliveryInOrder RepeatsDelivered
CONSTRAINT Explored
SYMMETRY Symmetry
CHECK_DEADLOCK FALSE
