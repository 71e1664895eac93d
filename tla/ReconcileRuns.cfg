\* One run at a time over rows of every fate; the cap and a page boundary bite.
CONSTANTS
  w1 = w1  w2 = w2
  NRow = 3  Outcome <- Mixed  Run = {w1}
  LastTime = 5  Settle = 1  MaxRows = 1  PerPage = 2  Ties = FALSE  MaxFailures = 1
SPECIFICATION FairSpec
INVARIANTS TypeOK NoRowLost
PROPERTIES WatermarkForward Drains
CHECK_DEADLOCK FALSE
