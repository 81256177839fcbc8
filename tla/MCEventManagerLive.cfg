SPECIFICATION FairSpec
CONSTANTS
    s1 = s1
    hit = hit
    add = add
    user = user
    ref = ref
    base = base
    target = target
    array = array
    null = null
    NoFilter = NoFilter
    None = None
    GameEvents = {hit, add}
    HitEvents = {hit}
    UserEvents = {user}
    Handlers <- MCOneEach
    GameArgs <- MCOneGameArg
    UserArgs <- MCUserArgs
    MaxDepth = 2
    MaxDeferred = 3
PROPERTIES
    DeferredAreHandled
CHECK_DEADLOCK FALSE
