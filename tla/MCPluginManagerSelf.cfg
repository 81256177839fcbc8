SPECIFICATION Spec
CONSTANTS
    Plugins = {a, b}
    NVSE = NVSE
    NoSender = NoSender
    NoPlugin = NoPlugin
    Unloaded = Unloaded
    Slack = 1
    MaxDepth = 1
INVARIANTS
    NoSelfListener
CHECK_DEADLOCK FALSE
