\* One client after another, and what must happen in the end.
CONSTANTS
    a = a
    b = b
    s1 = s1
    s2 = s2
    Clients = {a}
    Slots = {s1, s2}
    MaxSessions = 2
    MaxTimers = 3
    Age = 4
    Interval = 2
    Delays = {1}
    Lengths = {2}
    MaxSpan = 1
    MaxFinAck = 1
    MaxStall = 0
    MaxLag = 0
    LateClients = FALSE
    NoConn = NoConn
SPECIFICATION FairSpec
PROPERTIES
    SilentArePurged
    SequenceEnds
CHECK_DEADLOCK FALSE
