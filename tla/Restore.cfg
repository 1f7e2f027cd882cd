SPECIFICATION Spec
CONSTANTS
    d = d dx = dx dy = dy e = e a = a az = az atxt = atxt
    Top = Top
    Absent = Absent
    Dirs <- TreeDirs
    Paths <- TreePaths
    DirOf <- TreeDirOf
    WalkOrder <- TreeOrder
    SortOrder <- TreeOrder
    Chunks = 2
INVARIANTS
    OldOrNew
    TempsRemoved
    OthersUntouched
    RestoredFaithfully
    Restorable
