\* Two top-ups with one key and two reconciliation runs around the charge of one request.
CONSTANTS
  a1 = a1  a2 = a2  c1 = c1  c2 = c2  w1 = w1  w2 = w2
  Account = {a1, a2}  NReq = 1  Owner <- OneAccount  Jobs = {}
  NKey = 1  Caller = {c1, c2}  Worker = {w1, w2}
  LastMonth = 1  Included = 1  Signup = 1
  Bill = {0, 1, 2}  MaxCost = 2  MaxGrant = 2  MaxTries = 0
SPECIFICATION Spec
SYMMETRY SymActors
INVARIANTS ExactUnlessCut NetEqualsBill
PROPERTY ColumnsMoveOnce
CHECK_DEADLOCK FALSE
