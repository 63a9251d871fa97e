CONSTANTS
  NumCommands = 3
  NumRuns = 4
  Kinds <- SomeKinds
  MaxCancels = 2
  MaxPops = 1
SPECIFICATION FairSpec
INVARIANTS TypeOK OneOwner CommandsKept UncancelledExclusive
PROPERTIES QueueDrains
CHECK_DEADLOCK FALSE
