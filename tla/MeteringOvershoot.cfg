\* Two requests in flight, no allowance.
CONSTANTS
  a1 = a1  a2 = a2  c1 = c1  c2 = c2  w1 = w1  w2 = w2
  Account = {a1}  NReq = 2  Owner <- OneAccount  Jobs = {}
  NKey = 0  Caller = {}  Worker = {}
  LastMonth = 1  Included = 0  Signup = 1
  Bill = {0}  MaxCost = 2  MaxGrant = 0  MaxTries = 0
SPECIFICATION Spec
INVARIANT OvershootAtMostOneRequest
CHECK_DEADLOCK FALSE
