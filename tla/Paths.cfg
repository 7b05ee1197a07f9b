CONSTANTS
    Names = {"a", "b"}
    FirstDirs <- SmallTree
    Files <- OneFile
    Home <- HomeText
    TooLong <- LongDirs
    MaxParts = 2
    MaxSegments = 3
    MaxDepth = 2
SPECIFICATION Spec
INVARIANTS
    InSync
    ExpandAgrees
    MkdirMakes
PROPERTY AbsoluteUntilEmptyCd
CHECK_DEADLOCK FALSE
