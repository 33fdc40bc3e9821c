SPECIFICATION Spec
CONSTANTS
    DataA = 1
    DataB = 0
    CloseAfterSend = {"A"}
    MaxListens = 1
    MaxNetA = 1
    MaxNetB = 1
    Closes = {}
INVARIANT ConfirmsWhatItHas
CHECK_DEADLOCK FALSE
