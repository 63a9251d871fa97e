CONSTANTS
  NumTools = 2
  Kinds <- AllKinds
  Outcomes <- AllOutcomes
SPECIFICATION FairSpec
INVARIANTS OneErrorPerTool EveryToolAnswered InterruptibleIsCurrent
PROPERTIES NothingStartsOnceCancelled RemainingResultsEnd
CHECK_DEADLOCK FALSE
