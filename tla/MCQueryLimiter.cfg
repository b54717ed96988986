SPECIFICATION FairSpec
CONSTANTS
    a = a
    b = b
    c = c
    IPs <- MCIPs
    Ports <- MCPorts
    NoIP = NoIP
    AnyPort = 0
    ExceptIPs <- MCExceptIPs
    MaxStored = 2
    MaxLP = 1
    MinHP = 2
    MaxHP = 3
    BanLevel = 10
    BanTime = 10
    TicksPerSecond = 8
    Deltas <- MCDeltas
    QueryBound = 7
INVARIANTS
    TypeOK
    NoDuplicateSources
    GlobalWhenSaturated
    LowPriorityBounded
    GlobalBudget
PROPERTIES
    FreshEntriesStay
    BanIsEarned
    KeepsBudget
    FloodEnds
