SPECIFICATION SafeSpec
CONSTANTS
    Proc = {p1, p2}
    Programs <- Checksums
    Iterations <- Twice
    PAGE = 2
    Pages = 4
    ALLOC_MAX = 4
    INT_MOD = 16
    Files <- SmallFiles
    WORD_MOD = 4
    JUNK = 3
    Checksum <- SumOfWords
    Faults <- DriveFaults
SYMMETRY Symmetry
INVARIANTS
    TypeOK
    ExclusiveMemory
    PrintsFileChecksum
