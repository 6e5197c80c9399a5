CONSTANTS
    h1 = h1
    h2 = h2
    h3 = h3
    h4 = h4
    p1 = p1
    p2 = p2
    https = https
    http = http
    Servers = {https, http}
    Https = {https}
    Sessions = {h1, h2, p1}
    ServerOf <- MCServerOf
    Workers = {w1}
    StartedBy <- MCStartedBy
    Main = main
    NoSession = NoSession
    Requests <- MCMixed
    Leaving = {h1, h2, p1}
    Resettable = {h1, h2, p1}
    MaxSends = 2

SPECIFICATION Spec

CHECK_DEADLOCK FALSE

INVARIANTS
    TypeOK
    OneDriver
    AcceptorArmed
    ConnectedIsServed
    DeletedOnlyAwaitsShutdown

PROPERTIES
    ResponseStableInFlight
