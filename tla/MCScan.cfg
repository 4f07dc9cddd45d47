SPECIFICATION ScanSpec
CONSTANTS
  k1 = k1  k2 = k2  v1 = v1  v2 = v2  v3 = v3
  Absent = Absent
  Identity = {k1, k2}
  Version = {v1, v2, v3}
  PageOf <- OneEach
  LastPage = 2
  PageCap = 3
  FetchBy = "page"
  Iterable = FALSE
  Invalid = {v3}
  OnInvalid = "fail"
  Conditional = TRUE
  MaxChanges = 2
  MaxMishaps = 2
INVARIANTS ScanComplete
PROPERTIES NoFalseDelete IterableMirrors
CHECK_DEADLOCK FALSE
