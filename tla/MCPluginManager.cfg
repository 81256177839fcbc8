SPECIFICATION FairSpec
CONSTANTS
    Plugins = {a, b}
    NVSE = NVSE
    NoSender = NoSender
    NoPlugin = NoPlugin
    Unloaded = Unloaded
    Slack = 1
    MaxDepth = 2
INVARIANTS
    TypeOK
    HandlesNamePlugins
    OneEntryPerListener
    PostLoadFirst
PROPERTIES
    SoleDispatchIsSafe
    InstallEnds
CHECK_DEADLOCK FALSE
