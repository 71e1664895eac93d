\* One upgrade, up to two restarts of its object, a cap of three minutes that is
\* not a whole number of them, and three ticks for a late timer.
CONSTANTS
  Sessions = 1
  Minute = 2  Cap = 5  TTL = 1  Price = 2  Credit = 3  LastTick = 8  MaxRestarts = 2
SPECIFICATION FairSpec
INVARIANTS TypeOK  BilledMinutes StoppedIsNotCharged
PROPERTY SessionRecorded
CHECK_DEADLOCK FALSE
