SPECIFICATION MCSpec
CONSTANTS
    MaxByte = 3
    Key <- FencedKeys
    Val <- FencedVals
    NoVal = NoVal
    PayloadLen <- FencedLens
    Limits = {30}
    Workloads <- FencedWorks
    PageId <- Pages16
    NoPage = NoPage
    PageSizeLeaf = 17
    PageSizeInner = 21
    HeaderSize = 1
    SlotSize = 1
    PtrSize = 1
    SepWindow = 5
    NumericLen = 2
    DenseHeader = 1
    MaskBytes = 1
    MaskBits = 4
INVARIANTS
    DenseChildFences
