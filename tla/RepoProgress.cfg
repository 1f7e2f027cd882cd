SPECIFICATION FairRepoSpec
CONSTANTS
    NoLock = NoLock
    Procs = {b1, b2, g}
    Recoverers = {g}
    Faulty = {}
    Backend = "local"
    LeaseHonoured = TRUE
    Chunks = {c1, c2}
    Jobs = {j1}
    Times = {1, 2}
    Backups = {b1, b2}
    Deletes = {}
    Collectors = {g}
    SourceErrors = FALSE
    BitRot = TRUE
    Resets = {b2}
INVARIANTS
    NoLockLeftBehind
PROPERTIES
    SnapshotsImmutable
    PublishedVerified
    PublishedInOrder
    CollectionIsExact
    StaleLockIsReclaimed
    OperationsEnd
    Answered
CHECK_DEADLOCK FALSE
