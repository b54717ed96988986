SPECIFICATION Spec
CONSTANTS
    Configs <- MCConfigs
    Worlds <- MCWorlds
    Written <- WriteResponse
    MaxPacket = 42
    FragHeader = 9
    UpdateInterval <- MCIntervals
    FrameSteps = {2}
    Word = 2
    EndOfTime = 4
INVARIANTS
    TypeOK
    CacheTimeKept
    FragmentsRebuild
PROPERTIES
    WritesAreRare
    ListsAreWhole
