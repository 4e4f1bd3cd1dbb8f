SPECIFICATION MCSpec
CONSTANTS
    MaxByte = 1
    Key <- SmallKeys
    Val <- TwoVals
    NoVal = NoVal
    PayloadLen <- TwoLens
    Limits = {2, 9}
    PageId <- Pages16
    NoPage = NoPage
    PageSizeLeaf = 23
    PageSizeInner = 23
    HeaderSize = 1
    SlotSize = 1
    PtrSize = 1
    SepWindow = 5
INVARIANTS
    LeavesDisjoint
    PagesFit
    ChecksFailOnlyAtEnds
PROPERTY
    StoreSpec
