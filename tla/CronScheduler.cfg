CONSTANTS
  a = a
  b = b
  hourly = hourly
  once = once
  Sessions <- TwoSessions
  Recurring = {hourly}
  OneShots = {once}
  Created = {once}
  MaxTime = 2
  MaxAge = 2
  MaxChanges = 1
  MaxExits = 1
SPECIFICATION FairSpec
INVARIANT RecurringOnce
PROPERTIES NothingForgotten
CHECK_DEADLOCK FALSE
