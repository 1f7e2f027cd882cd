SPECIFICATION FairSpec
CONSTANTS
    NameCount = 4
    MaxOthers = 2
    MaxChanges = 1
    FileWorkers = {w1, w2}
    SourceErrors = TRUE
    StoreErrors = TRUE
INVARIANTS
    AliasesStoredOnce
    StoredWhole
    WorkersCanDeliver
PROPERTIES
    EverythingEnds
