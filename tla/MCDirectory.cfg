SPECIFICATION Spec
CONSTANTS
    dot = dot
    a = a
    b = b
    c = c
    d = d
    Other = Other
    Name = {dot, a, b, c, d}
    Dots = {dot}
    Longs <- MCLongs
    CLUS_SIZE = 3
    MaxEnts = 9
    Counts = {1, 2}
    Images <- MCImages
    OldEnts <- MCOldEnts
CHECK_DEADLOCK FALSE
INVARIANTS
    WalkIsExact
    HintEndsUsed
    ScanComplete
    ScanOnce
