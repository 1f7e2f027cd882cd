SPECIFICATION ReadersSpec
CONSTANTS
    Chunks = {c1, c2}
    Ids = {1, 2}
    All = All
    Latest = Latest
    NoFile = NoFile
    NoKit = NoKit
    Staging = Staging
INVARIANTS
    VerifiedMeansFound
    DamageIsReported
    NoFalseAlarm
    ValidKitIsComplete
SYMMETRY Symmetry
CHECK_DEADLOCK FALSE
