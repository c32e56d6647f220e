SPECIFICATION Spec
CONSTANTS
    Bufs = {A, B}
    Chunks <- MCChunks
    Needles <- MCNeedles
    CR = 0
    LF = 1
    Ids = {1, 2}
    MinChain = 2
    MaxAuto = 4
    MaxCopy = 1
    MaxRealign = 1
    MaxBytes = 4
    MaxChains = 4
    Sizes = {3}
    Freezers = {A, B}
    OOM = {FALSE, TRUE}
    Careful = TRUE
    Segment = 2
    NoBuf = NoBuf
    A = A
    B = B
    PairBytes = 3
    PairChains = 3
    Parts = {"alone", "pair", "shared", "files", "frozen"}
INVARIANTS LayoutOK RefcountsExact ToldTrue SearchesFind
PROPERTIES FreezeHolds KeepsBytes
SYMMETRY Twins
CHECK_DEADLOCK FALSE
