SPECIFICATION Spec
CONSTANTS
    Casts <- SomeCasts
    Conns = {1, 2, 3, 4, 5, 6}
    Socks = {11, 12, 13, 14, 15, 16}
    PoolSize = 1
    Callers = {a, b}
    Links = {1, 2, 3, 4}
    MaxFailures = 2
    Handlers = {g, h}
    Slots = 1
    FallbackSlots = 1
    RaceCount = 2
    Upstreams <- ThreeUpstreams
    Unsupported = {"relay"}
    Scenes <- SomeScenes
    Budgets <- OneBudget
    None = None
INVARIANTS
    PoolIsSafe
    SteadyUpstreamAnswers
    FailuresHaveCause
    ForwardingIsSound
PROPERTIES
    QueriesEnd
CHECK_DEADLOCK FALSE
