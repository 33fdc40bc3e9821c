SPECIFICATION FairSpec
CONSTANTS
    SeqHalf = 8
    Isn = 5
    Total = 3
    MSS = 1
    LENGTH = 4
    TxWindow = 6
    PeerCapacity = 2
    SegCount = 2
    MaxTransmit = 3
    DupAcks = 2
    LargeCount = 2
    SendFullSize = FALSE
    MaxAcks = 1
    OthersUse = FALSE
    Shutdown = TRUE
    Preempt = FALSE
    KeepAlive = TRUE
    SendRepeated = 1
INVARIANTS
    FinAfterQueuedData
    WithinPeerWindow
PROPERTIES
    AllDelivered
CHECK_DEADLOCK FALSE
