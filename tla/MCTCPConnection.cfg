SPECIFICATION FairSpec
CONSTANTS
    DataA = 1
    DataB = 0
    CloseAfterSend = {}
    MaxListens = 1
    MaxNetA = 1
    MaxNetB = 2
    Closes = {"A", "B"}
INVARIANTS
    TypeOK
    ConfirmsWhatItHas
    ConfirmedIsDelivered
    NoResetWhileLive
PROPERTIES
    TransientEnds
CHECK_DEADLOCK FALSE
