SPECIFICATION Spec
CONSTANTS
    Procs = {p1, p2}
    Nobody = Nobody
    Passphrases = {x, y, NoPass}
    NoPass = NoPass
    Compressions = {"none", "gzip"}
    NoKey = NoKey
    NoConfig = NoConfig
    StoreFaults = TRUE
INVARIANTS
    HandlesAgree
    PolicyAsAsked
    RotationHolds
CHECK_DEADLOCK FALSE
