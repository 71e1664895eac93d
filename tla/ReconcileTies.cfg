\* Two rows of one instant and a cap between them.
CONSTANTS
  w1 = w1  w2 = w2
  NRow = 2  Outcome <- AllAdjust  Run = {w1}
  LastTime = 3  Settle = 1  MaxRows = 1  PerPage = 2  Ties = TRUE  MaxFailures = 0
SPECIFICATION Spec
INVARIANT NoRowLost
CHECK_DEADLOCK FALSE
