SPECIFICATION HistorySpec
CONSTANTS
  v1 = v1
  v2 = v2
  Vols = {v1, v2}
  Lag = FALSE
  NoClass = noClass
  MaxVersion = 20
  MaxFaults = 1
INVARIANT CreateProtected
PROPERTIES ReplacedWhenCountedAreModified ReplacementImplemented ContentsImplemented
SYMMETRY Symmetry
CHECK_DEADLOCK FALSE
