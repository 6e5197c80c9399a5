CONSTANTS
    Threads = {t1, t2, t3}
    Uris = {1, 2}
    Codes = {"200", "404"}
    NoThread = NoThread
    Garbage = {7}
    MaxCalls = 1

SPECIFICATION Spec

SYMMETRY ThreadSymmetry

INVARIANTS
    TypeOK
    CountsAreExact
    PagesAreBounded
