SPECIFICATION Spec
CONSTANTS
  Request = {r1}
  Catalog <- MCCatalog
  PlanRow <- MCPlanRow
  Credit = 2
  Rates = {0, 2}
  Report <- MCReport
  Input <- MCInput
  Deployment <- MCDeployment
  MaxEdits = 1
CHECK_DEADLOCK FALSE
INVARIANTS  SpendHasRow UnitFits
