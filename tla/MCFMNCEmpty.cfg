\* A test sequence without a slice.
CONSTANTS
    a = a
    b = b
    s1 = s1
    s2 = s2
    Clients = {a}
    Slots = {s1, s2}
    MaxSessions = 1
    MaxTimers = 4
    Age = 3
    Interval = 2
    Delays = {0, 1}
    Lengths = {0, 2}
    MaxSpan = 1
    MaxFinAck = 2
    MaxStall = 0
    MaxLag = 0
    LateClients = FALSE
    NoConn = NoConn
SPECIFICATION FairSpec
PROPERTIES
    TimersDispatched
CHECK_DEADLOCK FALSE
