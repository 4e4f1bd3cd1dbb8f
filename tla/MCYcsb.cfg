SPECIFICATION FairYcsbSpec
CONSTANTS
    MaxByte = 16
    MaxInt = 100
    Commands = {}
    Configs <- AllConfigs
    GenSize = 10
    OpGenSize = 6
    InsertShare = 3
    MaxScan = 2
INVARIANTS
    LoadComplete
    ReadsHit
PROPERTY
    Finishes
