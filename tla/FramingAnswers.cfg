CONSTANTS
    Kinds <- MCAll
    JunkLengths = {0, 2}
    MaxRequests = 2

SPECIFICATION Spec

CONSTRAINT MCUpToOvertaking

INVARIANTS
    TypeOK
    BodylessAreServed
    FirstIsServed

CHECK_DEADLOCK FALSE
