SPECIFICATION Spec
CONSTANTS
    a = a
    b = b
    IPs = {a, b}
    Ports = {1}
    NoIP = NoIP
    AnyPort = 0
    ExceptIPs = {}
    MaxStored = 2
    MaxLP = 1
    MinHP = 2
    MaxHP = 3
    BanLevel = 1
    BanTime = 1
    ConsoleTimes = {1}
    TicksPerSecond = 2
    SecondsPerMinute = 1
    CheckInterval = 1
    FrameSteps = {1, 2}
    Word = 32
    QueryBound = 7
    LastBan = 2
    EndOfTime = 8
    MaxBans = 2
CHECK_DEADLOCK FALSE
INVARIANTS
    TypeOK
    BanIsOver
    OneFloodBan
    FloodBannedIsQuiet
PROPERTIES
    BanLastsAsAnnounced
    UnbanIsExact
