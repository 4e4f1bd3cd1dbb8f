SPECIFICATION MCApiSpec
CONSTANTS
    MaxByte = 16
    MaxInt = 12
    Commands <- ExistsCommands
INVARIANTS
    ExistsReadsOnly
