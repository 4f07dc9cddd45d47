SPECIFICATION Spec
CONSTANTS
  k1 = k1  k2 = k2  v1 = v1  v2 = v2  v3 = v3
  Absent = Absent
  Identity = {k1, k2}
  Version = {v1, v2}
  PageOf <- Spread
  LastPage = 3
  PageCap = 3
  FetchBy = "page"
  Iterable = TRUE
  Invalid = {}
  OnInvalid = "quarantine"
  Conditional = FALSE
  MaxChanges = 2
  MaxMishaps = 2
PROPERTY NoFalseDelete
