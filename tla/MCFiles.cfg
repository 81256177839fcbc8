SPECIFICATION MCSpec
CONSTANTS
    Texts = {t1}
    Sources = {src}
    NoSource = NoSource
    MaxLines = 2
    MaxIndent = 3
    MaxCursor = 32
    a = a
    b = b
    c = c
    Plugins = {a, b, c}
    NVSE = NVSE
    NoOwner = NoOwner
    Based = {a, b}
    Registers <- MCRegisters
    Paths = {p, q}
    NoFile = NoFile
    MaxFiles = 1
    MaxSessions = 2
    MaxRecords <- MCMaxRecords
    MaxData = 1
SYMMETRY MCSymmetry
INVARIANTS
    LogTypeOK
    CursorMatchesColumn
    TextAtTabStop
    TypeOK
    RecordsAreTheSaved
    AllRecordsOffered
    HeaderMeansWhole
PROPERTIES
    EachIsCalledOnce
CHECK_DEADLOCK FALSE
