SPECIFICATION MCSpec
CONSTANTS
    MaxByte = 7
    Key <- DenseKeys
    Val <- DenseVals
    NoVal = NoVal
    PayloadLen <- DenseLens
    Limits = {2, 30}
    Workloads <- DenseWorks
    PageId <- Pages16
    NoPage = NoPage
    PageSizeLeaf = 25
    PageSizeInner = 24
    HeaderSize = 1
    SlotSize = 1
    PtrSize = 1
    SepWindow = 5
    NumericLen = 2
    DenseHeader = 1
    MaskBytes = 1
    MaskBits = 4
INVARIANTS
    EstimateEnough
