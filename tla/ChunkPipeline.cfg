SPECIFICATION FairSpec
CONSTANTS
    WordBits = 3
    Window = 2
    MinSize = 1
    TargetBits = 1
    MaxSize = 3
    Bytes = {{0}, {1, 2}}
    MaxLength = 6
    Workers = {w1, w2}
    PutErrors = TRUE
    ReadErrors = TRUE
INVARIANTS
    OrderRetained
    CutsFollowContent
PROPERTIES
    Terminates
