SPECIFICATION Spec
CONSTANTS
    SeqHalf = 8
    Isn = 13
    Total = 5
    MSS = 2
    LENGTH = 4
    TxWindow = 6
    PeerCapacity = 2
    SegCount = 2
    MaxTransmit = 3
    DupAcks = 2
    LargeCount = 2
    SendFullSize = FALSE
    MaxAcks = 2
    OthersUse = TRUE
    Shutdown = FALSE
    Preempt = TRUE
    KeepAlive = FALSE
    SendRepeated = 2
INVARIANTS
    TypeOK
    StreamMatchesWindow
    QueueDiscipline
