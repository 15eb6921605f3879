SPECIFICATION Spec
CONSTANTS
    Workloads <- SymlinkWorkload
    Subvols = {"s", "t", "t0"}
    Uuids = {"u"}
    Data <- Blocks
    MaxSize = 3
    PathMax = 4
    InitialDest <- OldTree
    Faults = FALSE
    ShortWrites = FALSE
INVARIANT FullyReplayed
