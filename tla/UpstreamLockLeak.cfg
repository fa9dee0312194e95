SPECIFICATION Spec
CONSTANTS
    Backoff <- ShortBackoff
    StaleAfter = 1
    Forwarders = {}
    Checkers = {}
    Probers = {p, q}
    Admins = {}
    Casts = {{p, q}}
    Obj = {o1, o2, o3}
    None = None
    Empty = Empty
    Torn = Torn
    Streaks = {4}
    MaxFaults = 1
    MaxAdmin = 0
    MaxRestart = 0
INVARIANTS
    LockHasOwner
CHECK_DEADLOCK FALSE
