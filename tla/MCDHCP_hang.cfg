SPECIFICATION LoopSpec
CONSTANTS
    EndPoint = {e1, e2}
    Server = {s1}
    e1 = e1
    e2 = e2
    s1 = s1
    NoAddress = NoAddress
    Default = Default
    LinkLocal = LinkLocal
    MaxDoublings = 1
    QueueLength = 1
    MaxPackets = 1
    MaxDown = 0
    AutoIP = FALSE
    HookAnswers = {"eDHCPContinue", "eDHCPUseDefaults"}
    MayFail = {}
    Naks = FALSE
    LateReplies = TRUE
PROPERTY LoopTerminates
CHECK_DEADLOCK FALSE
