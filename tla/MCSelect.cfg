SPECIFICATION FairSpec
CONSTANT Backends = {"a", "b"}
CONSTANT Callers = {"c"}
CONSTANT Scenarios <- MCScenarios
INVARIANTS SelectedServes QuietSelectionIsBest
PROPERTY PairsAreLinked
CHECK_DEADLOCK FALSE
