SPECIFICATION Spec

CONSTANTS
    Files <- MCDocumentedFiles
    Wanted = "Wanted"
    Values <- MCValues
    NoValue = NoValue
    Atoi <- MCAtoi
    Length <- MCLength
    Negations <- MCNegations
    MinSalt = 16
    MaxOctet = 25
    Ports = 10

INVARIANTS
    ReadAsDocumented

\* The configuration is loaded once.
CHECK_DEADLOCK FALSE
