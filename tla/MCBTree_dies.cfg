SPECIFICATION FreeSpec
CONSTANTS
    MaxByte = 1
    Key <- SmallKeys
    Val <- TwoVals
    NoVal = NoVal
    PayloadLen <- MaxLens
    Limits = {9}
    PageId <- Pages16
    NoPage = NoPage
    PageSizeLeaf = 24
    PageSizeInner = 24
    HeaderSize = 1
    SlotSize = 1
    PtrSize = 1
    SepWindow = 5
    Load <- LoadNone
    MaxOps = 0
    OpKey <- SmallKeys
INVARIANTS
    DiesOnlyOnDuplicate
