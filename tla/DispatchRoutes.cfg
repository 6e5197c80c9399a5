CONSTANTS
    Segments <- MCSegments
    Paths <- MCPaths
    Uris <- MCUris
    Length <- MCLength
    Order <- MCOrder
    Methods = {"EchoHandler", "StaticHandler"}
    NoHandler = NoHandler
    MaxStatements = 3

SPECIFICATION Spec

INVARIANTS
    TypeOK
    ExactRoute
    NestedRoute
    ListedAreServing

CHECK_DEADLOCK FALSE
