\* Requests one after another, in any order.
CONSTANTS
    Requests <- MCRequests
    PageStart = 6322
    PageFrame = 75
    PageEnd = 970
    IndexPage = 5124
    Age = 10000000
    PurgeEvery = 5000000
    DelAck = 200000
    MaxFlight = 2
    MaxSessions = 3
SPECIFICATION Spec
INVARIANTS
    EveryByteOnce
    PairsMatch
    GapsAsAsked
CHECK_DEADLOCK FALSE
