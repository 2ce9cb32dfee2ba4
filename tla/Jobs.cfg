SPECIFICATION Spec
CONSTANTS
  Calls = {a, b, c}
  NoCall = NoCall
  Lease = 1
  MaxTime = 4
INVARIANTS TypeOK OverlapOnlyAfterLease
PROPERTIES OneRunCounts WonRunIsFinal
CHECK_DEADLOCK FALSE
