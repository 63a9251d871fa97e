CONSTANTS
  a = a
  b = b
  c = c
  Sessions <- TwoSessions
  MaxCrashes = 0
  MaxStops = 0
SPECIFICATION Spec
INVARIANTS OneOwner
CHECK_DEADLOCK FALSE
