SPECIFICATION Spec
CONSTANTS
    Streams <- MCStreamSet
    HeaderSize = 1
    SupportedVersion = 2
    Block = 4
    NBuf = 2
    MaxSpins = 1
    MaxLen = 2
    Sizes = {2}
INVARIANT EveryCommandHandled
