SPECIFICATION FairSpec
CONSTANTS
    a1 = a1
    a2 = a2
    a3 = a3
    Addresses = {a1, a2, a3}
    Payloads <- MCPayloads
    Window = 3
    TableSize = 2
    IGap = 3
    PGap = 2
    IExpiry = 2
    PExpiry = 1
    BExpiry = 0
    HitAdjust = 1
    MinSize = 2
    MaxTime = 3
    None = None
CHECK_DEADLOCK FALSE
INVARIANTS
    WindowInsidePacket
PROPERTIES
    ReplacementAloneDangles
    SearchEnds
