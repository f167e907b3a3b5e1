SPECIFICATION Spec
CONSTANTS
    a = a
    b = b
    c = c
    Dest = Dest
    NoPeer = NoPeer
    Node = {a, b, c, Dest}
    MaxSeq = 5
    MaxSent = 1
    HopLimit = 4
    HopBits = 4
INVARIANTS
    RevisitsAreFresher
    DropsAreStale
SYMMETRY Symmetric
CHECK_DEADLOCK FALSE
