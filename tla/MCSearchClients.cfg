SPECIFICATION Spec
CONSTANTS
    MaxObjectid = 4
    MaxType = 3
    MaxOffset = 4
    Capacity = 3
    Pool <- Changeable
    MaxChanges = 2
    Searches <- AllSearches
    FsTree = 0
    Backref = 1
    RootRef = 2
    Default <- DefaultKey
    PathLength <- Lengths
    BufferSize = 3
INVARIANTS NothingSkipped DefaultFound PathIsRight
PROPERTIES Ascending SearchEnds
CHECK_DEADLOCK FALSE
