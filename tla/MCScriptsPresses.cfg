SPECIFICATION MCSpec
CONSTANTS
    m1 = m1
    m2 = m2
    a = a
    b = b
    x = x
    y = y
    Values = {x, y}
    Nothing = Nothing
    MaxSize = 4
    NumParams = 2
    MaxLen = 7
    MaxWrong = 4
    Mods = {m1, m2}
    Engine = Engine
    Vars = {a, b}
    ModOf <- MCModOf
    Assigns <- MCAssigns
    Callees = {m2}
    Removable = {m1}
    Keys = {0, 1}
    Other = Other
    MaxID = 3
    MaxOps = 3
    MaxPosts = 2
    MaxLoads = 2
    MaxUsed = 5
    ByteSize = 5
    NumButtons = 1
    MaxControlBinds = 2
    Codes = {0, 4, 5, 8}
    Pressable = {0, 5, 6}
    MaxCommands = 3
    keyboard = keyboard
    mouse = mouse
    click = click
    Devices = {keyboard, mouse}
    UserEvents = {click}
    MenuKeys = {x, y}
    Sizes = {1, 2, 3}
    Garbage = Garbage
    MaxPending = 1
    MaxBuffered = 3
INVARIANTS
    PressesArrive
CHECK_DEADLOCK FALSE
