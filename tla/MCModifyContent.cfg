SPECIFICATION FairSpec
CONSTANTS
  Vols = {v1}
  MaxVersion = 4
  MaxFaults = 1
INVARIANTS TypeOK ModifyProtected
PROPERTIES RemovedAfterRollback PhaseNeverRegresses DeletedGoesAway CreatedIsCompleted
CHECK_DEADLOCK FALSE
