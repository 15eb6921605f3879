SPECIFICATION Spec
CONSTANTS
    Streams <- MCStreamSet
    HeaderSize = 1
    SupportedVersion = 2
    Block = 4
    NBuf = 2
    MaxSpins = 1
    MaxLen = 3
    Sizes = {2, 5}
INVARIANTS IInv PushesFindRoom HandledInOrder OkMeansHandled
PROPERTIES ImplementsReceive Terminates
