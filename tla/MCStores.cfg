SPECIFICATION StoresSpec
CONSTANTS
  a = a  b = b  k1 = k1  k2 = k2  v1 = v1  op1 = op1  op2 = op2
  Identity = {k1}
  Version = {v1}
  Absent = Absent
  Owner = {a, b}
  NoOwner = NoOwner
  Batch <- MCBatch
  Operator = op1
  Null = Null
  NoRow = NoRow
  NoHash = NoHash
  NewKeys = FALSE
  Stores = {"sqlite", "postgres", "redis", "hosting"}
  CloseStore = TRUE
  WellFormed = TRUE
  MaxFaults = 1
  Client = {op1, op2}
  Size = 2
  MaxCommands = 6
  Replica = {a, b}
  Watched = {a}
  MaxCalls = 5
INVARIANT AnswersSound
PROPERTIES Contract PostgresImplementsContract RedisImplementsContract
CHECK_DEADLOCK FALSE
