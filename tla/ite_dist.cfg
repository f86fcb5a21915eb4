CONSTANTS
    w1 = w1
    w2 = w2
    c1 = c1
    c2 = c2
    NoValue = NoValue
    NoRef = NoRef
    Worker = {w1, w2}
    Client = {c1, c2}
    Var = {1, 2, 3}
    Greater <- GreaterWord
    HomeNode <- OneNode
    HomeTriple <- OneTriple
    Slots <- IteSlots
    SelfRoute = {w1}
    IdLimit = 8
    None = NoValue
    REF_INVALID = NoRef
    Asks <- Requests
    MaxAsk = 2
SPECIFICATION Spec
INVARIANTS
    TypeOK
    OneSource
    IdsDiffer
    ComputedOnce
    NodesStored
    CacheRight
    NothingLeft
PROPERTIES
    ImplementsService
CHECK_DEADLOCK FALSE
