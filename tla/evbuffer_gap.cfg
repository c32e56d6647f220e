SPECIFICATION Spec
CONSTANTS
    Bufs = {A, B}
    Chunks <- MCChunks
    Needles <- MCNeedles
    CR = 0
    LF = 1
    Ids = {1, 2}
    MinChain = 2
    MaxAuto = 4
    MaxCopy = 1
    MaxRealign = 1
    MaxBytes = 4
    MaxChains = 5
    Sizes = {3}
    Freezers = {A, B}
    OOM = {FALSE}
    Careful = FALSE
    Segment = 2
    NoBuf = NoBuf
    A = A
    B = B
    PairBytes = 4
    PairChains = 5
    Parts = {"pair"}
INVARIANT
    LayoutOK
SYMMETRY Twins
CHECK_DEADLOCK FALSE
