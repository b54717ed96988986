SPECIFICATION Spec
CONSTANTS
    a = a
    b = b
    c = c
    IPs = {a, b, c}
    NoIP = NoIP
    MaxIPs = 2
    MaxDelta = 2
    FrameSteps = {1, 2}
    EndOfTime = 6
    MaxSeq = 6
INVARIANTS
    TypeOK
    TableRemembers
PROPERTIES
    RowsAreFound
