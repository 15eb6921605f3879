SPECIFICATION Spec
CONSTANTS
    Streams <- MCStreamSet
    HeaderSize = 1
    SupportedVersion = 2
    Block = 4
    MaxLen = 3
    Sizes = {2, 5}
INVARIANTS StopsAtNone PositionWithinBlock
PROPERTY ImplementsReceive
