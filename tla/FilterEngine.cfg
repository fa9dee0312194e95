SPECIFICATION PartsSpec
CONSTANTS
    t1 = t1
    t2 = t2
    Home = Home
    Kids = Kids
    NoProfile = NoProfile
    Threads = {t1, t2}
    Profiles = {Home, Kids}
    Names <- SomeNames
    Words <- SomeWords
    Within <- LabelsWithWords
    SafeNames <- SearchNames
    YoutubeNames <- TubeNames
    ServiceNames <- AppNames
    Scenarios <- SomeScenarios
    CacheMax = 1
    MaxQueries = 3
    Lists = {1, 2}
    Counted <- SomeCounts
    Stored <- SomeStored
    Large = 2
    Jobs = {j, k}
    None = None
    Editors = {e1, e2}
    UserRules = {1, 2}
    Legacy = {1}
    MaxSeconds = 1
    MaxEdits = 3
    MaxTrouble = 1
    Scenes <- SomeScenes
    SourceLines <- SomeSourceLines
    MaxLines = 3
INVARIANTS
    AnswersKeepPromises
    ExplainAgrees
    CacheBounded
    RulesAreKept
CHECK_DEADLOCK FALSE
