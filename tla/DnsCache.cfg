SPECIFICATION FairSpec
CONSTANTS
    Requests = {r1}
    Profiles = {p, q}
    Keys <- TwoNames
    Chained <- OneAlias
    Size <- Sizes
    Capacity = 2
    TTL = 2
    MaxStale = 1
    None = None
    Modes <- AllModes
    Changes <- SomeChange
    MaxRefreshes = 2
INVARIANTS
    CacheFits
PROPERTIES
    AnswersCatchUp
    RulesReachPlainCache
CHECK_DEADLOCK FALSE
