SPECIFICATION Spec
CONSTANTS
    Times = {1, 2, 3, 4}
    Day <- DayOf
    Week <- WeekOf
    Pruners = {p1, p2}
    MaxKeep = 2
    StoreFaults = TRUE
INVARIANTS
    RetainedIsProtected
    NothingProtectedPruned
    PruneExact
SYMMETRY Symmetry
CHECK_DEADLOCK FALSE
