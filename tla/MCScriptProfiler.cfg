SPECIFICATION FairSpec
CONSTANTS
    vanilla = vanilla
    mod1 = mod1
    Scripts = {vanilla, mod1}
    ModOf <- MCModOf
    NoForm = NoForm
    MaxMod = 1
    Main = main
    Workers = {worker}
    EndOfFrame = EndOfFrame
    Banner = Banner
    Initialized = Initialized
    Header = Header
    MaxLines = 7
INVARIANTS
    TypeOK
    NoTornLines
    FlagTracksLog
PROPERTIES
    OnlyWantedRuns
    MeasurementsReachDisk
    ImplementsJournal
CHECK_DEADLOCK FALSE
