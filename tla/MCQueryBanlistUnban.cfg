SPECIFICATION Spec
CONSTANTS
    a = a
    b = b
    IPs = {a, b}
    ConsoleTimes = {1, 2}
    BanTime = 1
    LimiterEnabled = TRUE
    TicksPerSecond = 2
    SecondsPerMinute = 2
    CheckInterval = 1
    FrameSteps = {1, 3}
    Word = 32
    LastBan = 4
    EndOfTime = 20
    MaxBans = 3
CHECK_DEADLOCK FALSE
PROPERTIES
    UnbanAdmits
