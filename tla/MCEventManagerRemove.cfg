SPECIFICATION Spec
CONSTANTS
    s1 = s1
    hit = hit
    add = add
    user = user
    ref = ref
    base = base
    target = target
    array = array
    null = null
    NoFilter = NoFilter
    None = None
    GameEvents = {hit}
    HitEvents = {hit}
    UserEvents = {user}
    Handlers <- MCByObject
    GameArgs <- MCOneGameArg
    UserArgs <- MCUserArgs
    MaxDepth = 2
    MaxDeferred = 1
PROPERTIES
    RemovalRespectsFilters
CHECK_DEADLOCK FALSE
