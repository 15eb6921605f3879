SPECIFICATION Spec
CONSTANTS
    Lengths = {0, 2}
    Unknown = 40
    Unexpected = 26
INVARIANTS ParsedIsSent NothingMisread
CHECK_DEADLOCK FALSE
