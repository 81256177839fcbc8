SPECIFICATION Spec
CONSTANTS
    s1 = s1
    hit = hit
    add = add
    user = user
    ref = ref
    base = base
    target = target
    array = array
    null = null
    NoFilter = NoFilter
    None = None
    GameEvents = {hit}
    HitEvents = {hit}
    UserEvents = {user}
    Handlers <- MCHandlers
    GameArgs <- MCGameArgs
    UserArgs <- MCUserArgs
    MaxDepth = 2
    MaxDeferred = 2
INVARIANTS
    TypeOK
    IteratorsStayValid
    HandlersAreDistinct
PROPERTIES
    ImplementsRegistry
CHECK_DEADLOCK FALSE
