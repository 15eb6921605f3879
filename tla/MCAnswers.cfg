SPECIFICATION Spec
CONSTANTS
    Filesystems = {{1}, {1, 2, 3}, {2, 4}, {1, 4, 5}}
    MaxId = 6
    MaxDeviceChanges = 3
    Kinds <- SomeSpaces
    Unwritten = Unwritten
    MaxSpaces = 2
    MaxSpaceChanges = 1
    Searches <- AllSearches
    MaxObjectid = 9
    MaxOffset = 6
    MaxItems = 64
    Garbage <- SomeGarbage
INVARIANTS AllYielded SpacesAreReal ReadsAreRight InfoIsComplete
PROPERTIES Ends ImplementsSearch
CHECK_DEADLOCK FALSE
