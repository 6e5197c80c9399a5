CONSTANTS
    Chars <- MCChars
    Texts <- MCTexts
    LaterTexts <- MCBases
    Get <- MCGet
    Post <- MCPost
    Put <- MCPut
    Unknown <- MCUnknown
    None = None
    MaxRequests = 2

SPECIFICATION EchoSpec

INVARIANTS
    TypeOK
    AcceptsHeads
    ReadsRequest
    EchoIsTheRequest

CHECK_DEADLOCK FALSE
