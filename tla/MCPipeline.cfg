SPECIFICATION FairSpec
CONSTANTS
    lan = lan
    wan = wan
    tap = tap
    tap2 = tap2
    look = look
    pass = pass
    back = back
    purge = purge
    write = write
    write2 = write2
    Adapters = {lan, wan}
    Kind <- MCKind
    Target <- MCTarget
    NoModule = NoModule
    NoPacket = NoPacket
    Packets = {p1, p2}
    Chain <- TwoTaps
INVARIANTS
    OnePlace
    SeenInOrder
    NoOvertaking
PROPERTIES
    EveryPacketComesBack
