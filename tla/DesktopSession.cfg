CONSTANTS
  Messages = {1, 2}
  Clients = {a}
  MaxTransitions = 2
  MaxEvents = 3
  MaxStarts = 3
  MaxProcs = 3
SPECIFICATION Spec
INVARIANTS NoOrphan DeletedStaysDown StartsAreShared WaitsForRestart
PROPERTIES PrewarmSparesTurns AnswersAreHeard TurnEnds
CHECK_DEADLOCK FALSE
