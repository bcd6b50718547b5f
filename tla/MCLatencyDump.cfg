SPECIFICATION Spec
CONSTANTS
    RECORD = 2
    COMMANDS = 2
    DEFAULT = 3
    SizeFiles <- Sizes
    CHUNK = 3
    MaxClears = 1
    Faults <- AllFaults
INVARIANTS TypeOK LinesAreRecords
CHECK_DEADLOCK FALSE
