SPECIFICATION LockSpec
CONSTANTS
    NoLock = NoLock
    Procs = {p1, p2, p3}
    Recoverers = {p1, p2}
    Backend = "local"
    Faulty = {}
    LeaseHonoured = TRUE
INVARIANTS
    MutualExclusion
CHECK_DEADLOCK FALSE
