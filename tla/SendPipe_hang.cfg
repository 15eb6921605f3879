SPECIFICATION Spec
CONSTANTS
    Modes = {"spawn"}
    MaxCmds = 2
    PipeCapacity = 2
    OmitEnd = {FALSE}
    NBuf = 2
    IoctlMayFail = TRUE
PROPERTY Returns
CHECK_DEADLOCK FALSE
