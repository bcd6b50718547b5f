SPECIFICATION Spec
CONSTANTS
    Proc = {p1, p2}
    Desc = {d1, d2}
    NoProc = NoProc
    NoDesc = NoDesc
    Reuse = {TRUE, FALSE}
SYMMETRY Symmetry
CHECK_DEADLOCK FALSE
INVARIANTS
    TypeOK
    WritesOwn
    ClosesOwn
    ReadsOwn
    DescriptorReturned
