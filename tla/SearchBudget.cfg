SPECIFICATION Spec
CONSTANTS
    me = me
    a = a
    b = b
    c = c
    f = f
    g = g
    None = None
    Node = {me, a, b, c}
    Me = me
    Peers <- Kite
    File = {f, g}
    Chunk = {1, 2}
    Has <- KiteChunks
    Threshold = 2
    InitialBudget = 0
    MaximumBudget = 4
    Search = {s1}
INVARIANTS
    TypeOK
    BudgetRespected
CHECK_DEADLOCK FALSE
