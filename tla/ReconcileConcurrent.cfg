\* Two overlapping runs, rows of one instant, no cap.
CONSTANTS
  w1 = w1  w2 = w2
  NRow = 2  Outcome <- AllAdjust  Run = {w1, w2}
  LastTime = 3  Settle = 1  MaxRows = 2  PerPage = 2  Ties = TRUE  MaxFailures = 1
SPECIFICATION Spec
SYMMETRY SymRuns
INVARIANTS NoRowLost TruedUpOnce AuditedIsMoved
CHECK_DEADLOCK FALSE
