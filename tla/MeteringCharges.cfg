\* A request and a retried job of one account, over a month boundary.
CONSTANTS
  a1 = a1  a2 = a2  c1 = c1  c2 = c2  w1 = w1  w2 = w2
  Account = {a1}  NReq = 2  Owner <- OneAccount  Jobs = {2}
  NKey = 0  Caller = {}  Worker = {}
  LastMonth = 2  Included = 1  Signup = 1
  Bill = {0}  MaxCost = 3  MaxGrant = 0  MaxTries = 2
SPECIFICATION FairSpec
INVARIANTS TypeOK NeverAboveLedger SerialOvershoot RecordedIsCharged CountersExplained
PROPERTIES LedgerAppendOnly AdmittedSettles
CHECK_DEADLOCK FALSE
