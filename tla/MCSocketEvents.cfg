SPECIFICATION FairSpec
CONSTANTS
    User = {u1}
    u1 = u1
    RxSize = 3
    LittleSpace = 1
    EnoughSpace = 2
    TxSize = 1
    MaxSend = 2
    MaxDelay = 2
    MaxRep = 1
    MaxConnects = 1
    QueueLength = 1
    Scenes <- MCScenes
INVARIANTS
    TypeOK
PROPERTIES
    CallReturns
    WindowReopens
CHECK_DEADLOCK FALSE
