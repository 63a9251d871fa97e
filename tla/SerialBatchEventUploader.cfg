CONSTANTS
  NumCalls = 3
  MaxItems = 2
  MaxEvents = 5
  NumFlushes = 1
  MaxBatch = 2
  MaxQueue = 2
  MaxFailures = 2
  ByteLimit = TRUE
  MaxBad = 1
  MayClose = TRUE
SPECIFICATION FairSpec
INVARIANTS TypeOK EventsKept FlushMeansSent QueueBounded
PROPERTIES OutboxSpec CallersReturn
CHECK_DEADLOCK FALSE
