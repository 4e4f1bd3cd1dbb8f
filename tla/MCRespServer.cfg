SPECIFICATION MCFairServerSpec
CONSTANTS
    MaxByte = 16
    Commands <- NoCommands
    MaxInt = 40
    Conn = {c1, c2}
    NoConn = NoConn
    Batches <- MixedBatches
    UpCap = 3
    DownCap = 2
    MaxBatches = 2
    MaxBatch = 2
INVARIANTS
    AnswersInOrder
    IncrementsOnce
    ServerOutlivesClients
PROPERTIES
    EveryoneServed
    BatchAnswered
