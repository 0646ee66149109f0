CONSTANTS
  Scenarios <- MCLiveScenarios
  MaxClears = 2
SPECIFICATION FairSpec
CHECK_DEADLOCK FALSE
PROPERTY ClaimIsServed
PROPERTY DeletionCompletes
