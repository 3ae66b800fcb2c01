\* Two clients that keep to a connection only while it is fresh.
CONSTANTS
    a = a
    b = b
    s1 = s1
    s2 = s2
    Clients = {a, b}
    Slots = {s1, s2}
    MaxSessions = 2
    MaxTimers = 3
    Age = 5
    Interval = 2
    Delays = {1}
    Lengths = {0, 2}
    MaxSpan = 1
    MaxFinAck = 2
    MaxStall = 1
    MaxLag = 0
    LateClients = FALSE
    NoConn = NoConn
SPECIFICATION Spec
INVARIANTS
    TypeOK
    ListsDisjoint
    TimersHaveConnections
    OneCarrier
    ReportedOnce
PROPERTIES
    StatesAdvance
SYMMETRY Perms
CHECK_DEADLOCK FALSE
