CONSTANT Nodes <- MCNodes
SPECIFICATION Spec
CHECK_DEADLOCK FALSE
INVARIANTS
    StagedIsItsLun
    UnstagedIsClean
    DataKept
    ExpandedIsUsable
    NeverWedged
CONSTRAINT Followed
