SPECIFICATION FairSpec
CONSTANTS
    Backoff <- ShortBackoff
    StaleAfter = 1
    Forwarders = {}
    Checkers = {c}
    Probers = {p}
    Admins = {}
    Casts = {{c, p}, {p}}
    Obj = {o1, o2, o3}
    None = None
    Empty = Empty
    Torn = Torn
    Streaks = {3, 4}
    MaxFaults = 2
    MaxAdmin = 0
    MaxRestart = 2
PROPERTIES
    Recovers
    ProbesFollowBreaker
CHECK_DEADLOCK FALSE
