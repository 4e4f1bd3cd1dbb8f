SPECIFICATION MCFairSpec
CONSTANTS
    MaxByte = 3
    Key <- Keys20
    Val <- ShortVal
    NoVal = NoVal
    PayloadLen <- ShortLen
    Limits = {1, 7, 30}
    PageId <- Pages16
    NoPage = NoPage
    PageSizeLeaf = 17
    PageSizeInner = 21
    HeaderSize = 1
    SlotSize = 1
    PtrSize = 1
    SepWindow = 5
    Load <- LoadTall
    MaxOps = 2
    OpKey <- TallOpKeys
INVARIANTS
    TypeOK
    KeysInFences
    ChildFences
    OneParent
    SplitPageAhead
    CursorOnPath
    SearchSharesPrefix
    NoLeak
PROPERTIES
    Terminates
    StoreSpec
