SPECIFICATION RepoSpec
CONSTANTS
    NoLock = NoLock
    Procs = {b1, b2}
    Recoverers = {}
    Backend = "s3"
    Faulty = {}
    LeaseHonoured = TRUE
    Chunks = {c1, c2}
    Jobs = {j1, j2}
    Times = {1, 2}
    Backups = {b1, b2}
    Deletes = {}
    Collectors = {}
    SourceErrors = TRUE
    BitRot = FALSE
    Resets = {}
PROPERTIES
    MutationsUnderLock
CHECK_DEADLOCK FALSE
