SPECIFICATION MCSpec
CONSTANTS
    MaxByte = 5
    Key <- Keys
    Val <- TwoVals
    NoVal = NoVal
    PayloadLen <- TwoLens
    Limits = {30}
    PageId <- Pages32
    NoPage = NoPage
    PageSizeLeaf = 34
    PageSizeInner = 22
    HeaderSize = 1
    SlotSize = 1
    PtrSize = 1
    SepWindow = 5
    HeadBytes = 1
    HintCount = 2
    Load <- LoadAll
    MaxOps = 3
    OpSet <- SomeOps
INVARIANTS
    HeapSound
    HeapShowsPages
    SearchAgrees
