CONSTANTS
  NumTools = 2
  Kinds <- AllKinds
  Outcomes <- BareOutcomes
SPECIFICATION FairSpec
PROPERTIES DrainEnds
CHECK_DEADLOCK FALSE
