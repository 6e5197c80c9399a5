CONSTANTS
    here = here
    there = there
    None = None
    path_ <- MCProxy
    Pages <- MCPages
    Locations <- MCLocations
    StaticRoots <- MCRoots
    Asked <- MCAsked
    Hosts <- MCHosts
    MaxLost = 1
    Order <- MCOrder

SPECIFICATION Spec

INVARIANTS
    TypeOK
    AskedIsOpened
    RestIsForwarded
    PageIsWhole

PROPERTIES
    RequestsEnd

CHECK_DEADLOCK FALSE
