SPECIFICATION Spec
CONSTANTS
    NoCmd = NoCmd
    Host = {h1, h2}
    Queue = {q1, q2}
    Lba <- OneLba
    Val <- MCVal
    Zero = "z"
    Opcode <- DiskOps
    MaxBlocks = 1
    Faults <- AllFaults
CHECK_DEADLOCK FALSE
INVARIANTS
    TypeOK
    EncryptedAtRest
    OnePlace
PROPERTIES
    IsStandardDisk
    Completes
