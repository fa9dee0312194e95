SPECIFICATION PartsSpec
CONSTANTS
    Workers = {w1, w2, w3, w4}
    Settings <- SameBurst
    MaxChanges = 2
    Ports = {1, 2}
    Strict = FALSE
    Enabled = {"tls", "quic"}
    MaxRequests = 3
    MaxFailures = 2
    Items = {file, directory}
    Updaters = {hourly, web}
    MaxVersion = 2
    MaxFaults = 1
    Connections = {c1, c2}
    Others = {d1}
    MaxActive = 2
    ConnectionLimits = {1}
    MaxMessages = 3
    MaxEvents = 2
INVARIANTS
    Accounting
    WorkConserving
    StatusIsHonest
PROPERTIES
    WithinBurstLimit
    RequestsReturn
    BurstEnds
CHECK_DEADLOCK FALSE
