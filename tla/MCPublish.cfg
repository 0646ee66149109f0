CONSTANT Scenarios <- MCScenarios
SPECIFICATION Spec
CHECK_DEADLOCK FALSE
INVARIANTS
    PublishedIsMapped
    UnpublishedIsUnmapped
    NeverWedged
