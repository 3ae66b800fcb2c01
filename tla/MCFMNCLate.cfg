\* A client that sends to a connection when it is due for purging.
CONSTANTS
    a = a
    b = b
    s1 = s1
    s2 = s2
    Clients = {a}
    Slots = {s1, s2}
    MaxSessions = 1
    MaxTimers = 4
    Age = 3
    Interval = 2
    Delays = {0, 1}
    Lengths = {2}
    MaxSpan = 1
    MaxFinAck = 2
    MaxStall = 0
    MaxLag = 0
    LateClients = TRUE
    NoConn = NoConn
SPECIFICATION Spec
INVARIANTS
    HandlerHasConnection
CHECK_DEADLOCK FALSE
