SPECIFICATION Spec

CONSTANTS
    Files <- MCFiles
    Wanted = "Wanted"
    Values <- MCValues
    NoValue = NoValue
    Atoi <- MCAtoi
    Length <- MCLength
    Negations <- MCNegations
    MinSalt = 16
    MaxOctet = 25
    Ports = 10

INVARIANTS
    TypeOK
    OptionsAsWritten
    SettingsFit
    ExceptAsWritten

\* The configuration is loaded once.
CHECK_DEADLOCK FALSE
