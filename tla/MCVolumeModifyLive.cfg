SPECIFICATION FairHistorySpec
CONSTANTS
  v1 = v1
  v2 = v2
  Vols = {v1}
  Lag = TRUE
  NoClass = noClass
  MaxVersion = 20
  MaxFaults = 0
PROPERTIES DeletedContentsGoFirst RollbackUndoesAll 
PROPERTIES ClaimCompletes DeletedClaimGoesAway
CHECK_DEADLOCK FALSE
