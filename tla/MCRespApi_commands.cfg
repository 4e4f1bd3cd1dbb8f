SPECIFICATION MCApiSpec
CONSTANTS
    MaxByte = 16
    MaxInt = 12
    Commands <- AllCommands
INVARIANTS
    DelCounts
    MSetLastWins
    CountersReadBack
    ErrorsChangeNothing
    ScanInOrder
