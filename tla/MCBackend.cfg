CONSTANTS
  Scenarios <- MCScenarios
  MaxClears = 1
SPECIFICATION Spec
CHECK_DEADLOCK FALSE
INVARIANT StatusIsApplied
PROPERTY BoundClaimTakesContent
