SPECIFICATION FairSpec
CONSTANTS
    me = me
    a = a
    b = b
    c = c
    f = f
    g = g
    None = None
    Node = {me, a, b}
    Me = me
    Peers <- Triangle
    File = {f, g}
    Chunk = {1, 2}
    Has <- Chunks
    Threshold = 2
    InitialBudget = 0
    MaximumBudget = 2
    Search = {s1, s2}
INVARIANTS
    SearchSound
PROPERTIES
    ReplyRoutineFree
    SearchEnds
CHECK_DEADLOCK FALSE
