SPECIFICATION PartsSpec
CONSTANTS
    Workers <- SomeWorkers
    Requests <- OneRequest
    QueueMax = 2
    MaxEdits = 5
    MaxFaults = 2
    Ips = {"in", "out"}
    Inside = {"in"}
    Net = "net"
    Profiles = {1, 2}
    Admins = {a, b}
    Worker = w
    UnknownMax = 1
    ClientScenes <- SomeScenes
    None = None
INVARIANTS
    SettledIsCurrent
    OneWorkerEach
    ClientsAreCurrent
PROPERTIES
    RulesReachEngine
    ClientsGetKnown
CHECK_DEADLOCK FALSE
