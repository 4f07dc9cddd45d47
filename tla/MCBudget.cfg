SPECIFICATION Spec
CONSTANTS
  w1 = w1  w2 = w2  w3 = w3  q1 = q1  q2 = q2
  Waiter = {w1, w2, w3}
  NoWaiter = NoWaiter
  Requester = {q1, q2}
  RequesterOf <- TwoOfA
  LaneOf <- FirstLow
  CostOf <- CostlyLast
  MaxWaitOf <- TwoDeadlines
  WeightOf <- Uneven
  Requests = 1
  PerMs = 2
  Burst = 1
  MaxCost = 2
  Fairness = {"round-robin", "weighted"}
  SlowUntil = 1
  MaxTime = 6
  MaxErrors = 1
INVARIANTS RateBounded QueueSound
PROPERTIES BucketSpec EverySettled
CHECK_DEADLOCK FALSE
