SPECIFICATION Spec
CONSTANTS
    Peer = {p1, p2}
    Msg = {m1, m2}
    None = None
    MaxSends = 3
INVARIANTS
    TypeOK
    NoDoubleClose
    QuitMeansStored
    NoListenerLeak
SYMMETRY Symmetric
CHECK_DEADLOCK FALSE
