SPECIFICATION FairSpec
CONSTANTS
    capture = capture
    process = process
    packet = packet
    Threads = {capture, process}
    Types = {packet}
    Growth = 2
    DefaultMax = 3
    NewMaxes = {1, 4}
    Limit = 4
    NoThread = NoThread
    NoObject = NoObject
INVARIANTS
    TypeOK
    ExclusiveOwnership
    NothingLost
    PopFindsObject
    HolderMayRelease
PROPERTIES
    MutexComesFree
    ImplementsAllocator
\* A getObject that fails keeps the mutex: the threads may all stop there.
CHECK_DEADLOCK FALSE
