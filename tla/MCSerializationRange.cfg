SPECIFICATION Spec
CONSTANTS
    a = a
    b = b
    c = c
    Plugins = {a, b, c}
    NVSE = NVSE
    NoOwner = NoOwner
    Based = {a, b}
    Registers <- MCRegisters
    Paths = {p, q}
    NoFile = NoFile
    MaxFiles = 1
    MaxSessions = 2
    MaxRecords <- MCMaxRecords
    MaxData = 1
SYMMETRY MCSymmetry
INVARIANTS
    HandlersAreInRange
CHECK_DEADLOCK FALSE
