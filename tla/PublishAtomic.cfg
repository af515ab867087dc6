SPECIFICATION PoolSpec
CONSTANTS
    p1 = p1
    p2 = p2
    p3 = p3
    Procs <- MCTwo
    IgnoreLock = {}
    Kills = 0
    LateSignals = FALSE
INVARIANTS
    RepoAvailable
