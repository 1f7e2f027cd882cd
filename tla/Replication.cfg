SPECIFICATION FairSpec
CONSTANTS
    Chunks = {c1, c2}
    Ids = {1, 2}
    MaxDisturbances = 2
PROPERTIES
    TargetKeepsPromises
    SuccessMeansReplicated
    CopiesVerified
    RunAgainCompletes
CHECK_DEADLOCK FALSE

