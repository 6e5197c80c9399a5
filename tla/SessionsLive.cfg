CONSTANTS
    h1 = h1
    h2 = h2
    h3 = h3
    h4 = h4
    p1 = p1
    p2 = p2
    https = https
    http = http
    Servers = {https}
    Https = {https}
    Sessions = {h1, h2, h3, h4}
    ServerOf <- MCServerOf
    Workers = {w1}
    StartedBy <- MCStartedBy
    Main = main
    NoSession = NoSession
    Requests <- MCUnfinished
    Leaving = {h1, h3}
    Resettable = {}
    MaxSends = 1

SPECIFICATION FairSpec

CHECK_DEADLOCK FALSE

PROPERTIES
    WholeRequestsAreAnswered
    LeftSessionsAreDeleted
