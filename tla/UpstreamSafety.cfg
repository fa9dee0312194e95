SPECIFICATION Spec
CONSTANTS
    Backoff <- ShortBackoff
    StaleAfter = 1
    Forwarders <- TheForwarders
    Checkers = {}
    Probers <- TheProbers
    Admins <- TheAdmins
    Casts <- Pairs
    Obj = {o1, o2, o3}
    None = None
    Empty = Empty
    Torn = Torn
    Streaks = {3, 4}
    MaxFaults = 2
    MaxAdmin = 2
    MaxRestart = 1
INVARIANTS
    ProbeExclusive
    PausedAreOpen
    AutoPausesEnd
CHECK_DEADLOCK FALSE
