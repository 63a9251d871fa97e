CONSTANTS
  NumTools = 3
  Kinds <- TwoKinds
  Outcomes <- BareOutcomes
SPECIFICATION Spec
INVARIANTS StartedInOrder SerialEffects
CHECK_DEADLOCK FALSE
