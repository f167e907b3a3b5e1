SPECIFICATION RepairSpec
CONSTANTS
    a = a
    b = b
    NoPeer = NoPeer
    Node = {a, b}
    InitialPeers <- Pair
    Clients = {a}
    MaxID = 3
    MaxInFlight = 99
    MaxMongers = 3
    Loses = TRUE
    Duplicates = FALSE
INVARIANTS
    TypeOK
    PrefixOfOrigin
    AckSound
PROPERTIES
    CatchesUp
    ImplementsBroadcast
CHECK_DEADLOCK FALSE
