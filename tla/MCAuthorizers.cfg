SPECIFICATION Spec

CONSTANTS
    Base = 16
    Stripped <- MCStripped
    Keyed <- MCKeyed
    BlockLen = 4
    TextLen = 6
    Len2015 = 2
    Len2018 = 3
    BadHddsn <- MCBadHddsn
    AvsmpPending = 12
    SteamEmuLan = 8
    SteamEmuPending = 11
    Configs <- MCConfigs
    Tickets <- MCTickets
    MaxPlayers = 2

INVARIANTS
    TypeOK
    KeyOrPending
    RecognisedOnce
    SameMachineSameId
    KeysTellApart
