SPECIFICATION FairSpec
CONSTANTS
    Client = {c1, c2, c3}
    Backlog = 2
    c1 = c1
    c2 = c2
    c3 = c3
    Coincide = FALSE
    Preempt = FALSE
INVARIANTS
    TypeOK
    PointersAlive
    ChildCountExact
PROPERTIES
    NoOrphanLeft
    ClientIsAccepted
