SPECIFICATION FairSpec
CONSTANTS
  Feed = 1
  MaxPages = 1
  Reconciles = TRUE
  MaxOps = 1
  MaxMishaps = 0
PROPERTY BackfillHonoured
CHECK_DEADLOCK FALSE
