SPECIFICATION FairSpec
CONSTANTS
    EndPoint = {e1}
    Server = {s1}
    e1 = e1
    s1 = s1
    NoAddress = NoAddress
    Default = Default
    LinkLocal = LinkLocal
    MaxDoublings = 1
    HookAnswers = {"eDHCPContinue", "eDHCPUseDefaults"}
    QueueLength = 1
    MaxPackets = 1
    MaxDown = 1
    AutoIP = TRUE
    MayFail = {"send"}
    Naks = TRUE
    LateReplies = FALSE
PROPERTIES
    EventuallyUp
CHECK_DEADLOCK FALSE
