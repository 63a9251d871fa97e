CONSTANTS
  Requests = {r1, r2}
  Nobody = nobody
SPECIFICATION FairSpec
INVARIANTS NothingLingers DialogIsFloor AbortEndsWaits
PROPERTIES RequestsSettle
CHECK_DEADLOCK FALSE
