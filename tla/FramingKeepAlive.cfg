CONSTANTS
    Kinds <- MCBodies
    JunkLengths = {0}
    MaxRequests = 2

SPECIFICATION Spec

CONSTRAINT MCUpToOvertaking

INVARIANT HeadAloneIsMissing

CHECK_DEADLOCK FALSE
