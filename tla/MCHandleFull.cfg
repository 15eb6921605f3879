SPECIFICATION Spec
CONSTANTS
    Workloads <- AllWorkloads
    Subvols = {"s", "t", "t0"}
    Uuids = {"u", "v"}
    Data <- Blocks
    MaxSize = 3
    PathMax = 4
    InitialDest <- OldTree
    Faults = TRUE
    ShortWrites = FALSE
INVARIANTS Replayed ReceivedIsComplete
PROPERTIES OnlyInSubvol OnlyXattratRefused
