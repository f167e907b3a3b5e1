SPECIFICATION Spec
CONSTANTS
    a = a
    b = b
    c = c
    NoPeer = NoPeer
    Node = {a, b, c}
    InitialPeers <- Triangle
    Clients = {a}
    MaxID = 2
    MaxInFlight = 2
    MaxMongers = 1
    Loses = TRUE
    Duplicates = TRUE
INVARIANTS
    NextHopFresher
    LoopFree
PROPERTY
    ImplementsRoutes
SYMMETRY Symmetric
CHECK_DEADLOCK FALSE
