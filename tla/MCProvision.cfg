CONSTANT Requests <- MCRequests
SPECIFICATION Spec
CHECK_DEADLOCK FALSE
INVARIANTS
    BoundIsComplete
    GoneIsClean
    NeverWedged
    SitesAgree
    SourceIntact
