SPECIFICATION PartsSpec
CONSTANTS
    Writers <- CommitTwo
    Careless <- CommitCareless
    Modes = {TRUE, FALSE}
    Inodes = {i1, i2, i3, i4}
    None = None
    MaxCommits = 2
    MaxFaults = 1
    MaxCrashes = 1
    QueueMax = 2
    BatchMax = 1
    Backups = {TRUE, FALSE}
    Storages = {"file", "serialize", "backup"}
    MaxEntries = 3
    MaxFailures = 1
    MaxWrites = 2
    MaxEnds = 1
    Keys = {"hot", "plain"}
    Hot = {"hot"}
    Users = {t, u}
    MaxSettings = 2
    Reads = 2
    Tokens = {s1, s2}
    Readers = {r1, r2}
INVARIANTS
    CleanIsSaved
    DiskWhole
    BackupShutdownSaves
    ConnectionIsShared
    CopiesAreCurrent
PROPERTIES
    CommitsReachDisk
CHECK_DEADLOCK FALSE
