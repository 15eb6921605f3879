SPECIFICATION Spec
CONSTANTS
    Modes = {"spawn", "blocking"}
    MaxCmds = 4
    PipeCapacity = 2
    OmitEnd = {TRUE, FALSE}
    NBuf = 2
    IoctlMayFail = TRUE
INVARIANTS DescriptorIsValid OkMeansReceived JoinReportsTheCause
PROPERTIES NoneLeftBehind ReturnsUnlessStarved
CHECK_DEADLOCK FALSE
