SPECIFICATION FairSpec
CONSTANTS
    SeqHalf = 16
    Isn = 29
    Total = 6
    MSS = 3
    Cuts = {0, 1, 2, 4, 6}
    Capacity = 5
    SegCount = 3
    NoByte = NoByte
INVARIANTS
    TypeOK
    DeliveredInOrder
    NeverShort
    AnswerTruthful
    FinAfterData
PROPERTIES
    EventuallyClosed
