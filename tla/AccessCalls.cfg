SPECIFICATION Spec
CONSTANTS
  c1 = c1  c2 = c2  c3 = c3
  Call = {c1, c2, c3}
  Phone = phone
  Token = {tk}
  Tx = {tx}
  TrustDecode = FALSE
  AllowSandbox = TRUE
  Limit <- MCLimit
  Window = 2
  TTL = 1
  MaxLag = 1
  LastTick = 2
SYMMETRY MCSymmetry
CHECK_DEADLOCK FALSE
INVARIANTS TypeOK SingleUse NoLateAdmission BurstBound
