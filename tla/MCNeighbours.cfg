SPECIFICATION MCSpec
CONSTANTS
    IP = {a, b, c}
    a = a
    b = b
    c = c
    Other = Other
    None = None
    Entries = 2
    MaxAge = 2
    MaxRetrans = 2
    SolicitAge = 1
    DelayTime = 1
    IncompleteTimeout = 1
    MaxProbes = 1
    Buffers = 3
    QueueLength = 1
    MayLeave = {a}
    Routers = {b}
INVARIANTS
    NeighbourTypeOK
    NeighbourUniqueRow
    NeighbourBuffersKept
PROPERTIES
    NeighbourBindingKept
    NeighbourGoneIsForgotten
