SPECIFICATION MCSpec
CONSTANTS
    LENGTH = 5
    MaxAdd = 4
    MaxPos = 12
    NoByte = NoByte
INVARIANTS
    TypeOK
    UnreadIntact
    AheadIntact
    GetIntact
PROPERTIES
    RefinesByteStream
