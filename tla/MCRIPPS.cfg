SPECIFICATION FairSpec
CONSTANTS
    h1 = h1
    c1 = c1
    c2 = c2
    Hosts = {h1}
    Conns = {c1, c2}
    HostOf <- MCHostOf
    Sizes <- MCSizes
    Measure = 2
    SliceDelay = 100
    StingModes = {"simple", "pshend"}
    Catchers = 1
    MaxSeq = 3
    MaxBacklog = 2
    MaxExtras = 1
    None = None
CHECK_DEADLOCK FALSE
INVARIANTS
    TypeOK
    QueueHasTimers
    ResolvedIsMeasured
    NoFastRetransmit
PROPERTIES
    EveryByteAcked
