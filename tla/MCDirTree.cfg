SPECIFICATION Spec
VIEW View
CONSTANTS
    a = a
    b = b
    n1 = n1
    n2 = n2
    n3 = n3
    Root = Root
    Node = {Root, n1, n2, n3}
    Name = {a, b}
    Up = Up
    None = None
    NotCached = NotCached
    Proc = {p1}
    Paths <- MCPaths
    RenamePaths <- MCRenamePaths
    FlagSets <- MCFlagSets
    MaxMoves = 1
    Images <- MCImages
INVARIANTS
    FathersMatch
    TreeMatchesDisk
    WorkingDirStays
    PathCacheFresh
PROPERTY KeepsNames
CHECK_DEADLOCK FALSE
