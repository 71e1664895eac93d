\* One top-up, cut between its two statements, and retried.
CONSTANTS
  a1 = a1  a2 = a2  c1 = c1  c2 = c2  w1 = w1  w2 = w2
  Account = {a1}  NReq = 0  Owner <- OneAccount  Jobs = {}
  NKey = 1  Caller = {c1}  Worker = {}
  LastMonth = 1  Included = 0  Signup = 0
  Bill = {0}  MaxCost = 0  MaxGrant = 1  MaxTries = 0
SPECIFICATION Spec
INVARIANT ReplayWasGranted
CHECK_DEADLOCK FALSE
