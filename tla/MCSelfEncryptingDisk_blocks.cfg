SPECIFICATION SafeSpec
CONSTANTS
    NoCmd = NoCmd
    Host = {h1, h2}
    Queue = {q1}
    Lba <- TwoLba
    Val <- MCVal
    Zero = "z"
    Opcode <- BlockOps
    MaxBlocks = 2
    Faults <- AesFaults
CHECK_DEADLOCK FALSE
SYMMETRY Symmetry
INVARIANTS
    ReadIsPlain
    EncryptedAtRest
PROPERTY IsStandardDisk
