\* One job; the workflow's isolate is lost at most twice.
CONSTANTS
  MaxCrashes = 2
SPECIFICATION FairSpec
INVARIANTS TypeOK ProviderOnce ChargedForAsset VerdictOfRow
PROPERTY JobEnds
CHECK_DEADLOCK FALSE
