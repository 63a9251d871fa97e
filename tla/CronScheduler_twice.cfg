CONSTANTS
  a = a
  b = b
  hourly = hourly
  once = once
  Sessions <- OneSession
  Recurring = {}
  OneShots = {once}
  Created = {}
  MaxTime = 1
  MaxAge = 0
  MaxChanges = 0
  MaxExits = 0
SPECIFICATION Spec
INVARIANTS OneShotFiresOnce
CHECK_DEADLOCK FALSE
