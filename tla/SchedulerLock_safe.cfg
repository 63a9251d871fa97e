CONSTANTS
  a = a
  b = b
  c = c
  Sessions <- ThreeSessions
  MaxCrashes = 2
  MaxStops = 2
SPECIFICATION FairSpec
INVARIANTS OneOwnerBeforeRecovery NoAbandonedLock
PROPERTIES SomebodySchedules
CHECK_DEADLOCK FALSE
