SPECIFICATION DaemonSpec
CONSTANTS
  Key = {k1}
  Pauses = TRUE
  MaxLoops = 2
  MaxTimers = 2
  MaxChanges = 3
  Feed = 2
  MaxPages = 1
  Reconciles = TRUE
  MaxOps = 1
  MaxMishaps = 1
  Event = {e1, e2, e3}
  NoEvent = NoEvent
  Concurrency = 2
  MaxAttempts = 2
  TtlMs = 7
  RenewEveryMs = 1
  Latency = 1
  MaxThrows = 3
  MaxNow = 14
  PerSecond = 2
  Tolerance = 1
  TimeoutTicks = 2
  Tries = 2
  MaxClock = 5
  MaxSpans = 2
  PassKey = {k1, k2, k3}
  NoKey = NoKey
  Workers = 2
  MaxDuration = 1
  Delay = {0, 1, 2}
  MaxSet = 3
  MaxFired = 2
  MaxMoment = 3
  Definition = {"one", "twin", "other"}
  Called <- MCCalled
  Instance = {"both", "one", "again"}
  ClassOf <- MCClassOf
  Decorated <- MCDecorated
  Nobody = Nobody
  Elsewhere = Elsewhere
  MaxModules = 2
  MaxWrappers = 2
  p1 = p1  p2 = p2
INVARIANTS OneRunPerKey StaysAwake
INVARIANTS LanesSound IteratorSound KeeperSound SinkSound TelemetrySound PassSound WiredExactly
PROPERTIES DaemonServes PartsServed ClockSound
CHECK_DEADLOCK FALSE
