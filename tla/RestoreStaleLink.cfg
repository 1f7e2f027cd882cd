SPECIFICATION Spec
CONSTANTS
    d = d dx = dx dy = dy e = e a = a az = az atxt = atxt
    Top = Top
    Absent = Absent
    Dirs <- DotDirs
    Paths <- DotPaths
    DirOf <- DotDirOf
    WalkOrder <- DotWalkOrder
    SortOrder <- DotSortOrder
    Chunks = 2
INVARIANTS
    WholeSnapshotFaithful
