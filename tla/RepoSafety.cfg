SPECIFICATION RepoSpec
CONSTANTS
    NoLock = NoLock
    Procs = {b1, d, g}
    Recoverers = {d, g}
    Faulty = {b1, d, g}
    Backend = "s3"
    LeaseHonoured = TRUE
    Chunks = {c1, c2}
    Jobs = {j1, j2}
    Times = {1, 2}
    Backups = {b1}
    Deletes = {d}
    Collectors = {g}
    SourceErrors = TRUE
    BitRot = FALSE
    Resets = {}
INVARIANTS
    MutualExclusion
    PublishedComplete
PROPERTIES
    RemovedWhenStaleOrReleased
    ImplementsExclusiveWriter
    RemovalsUnderLock
    ImplementsCatalog
CHECK_DEADLOCK FALSE
SYMMETRY Symmetry
