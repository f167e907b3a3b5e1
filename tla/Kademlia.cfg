SPECIFICATION FairSpec
CONSTANTS
    me = me
    p = p
    q = q
    r = r
    s = s
    Node = {me, p, q, r, s}
    Me = me
    Heard = {r}
    ID <- FiveIDs
    Key <- TheKey
    Knows <- Tables
    BucketSize = 2
    Alpha = 2
    MaxOps = 2
    Loses = TRUE
INVARIANTS
    TypeOK
    StoredAtClosest
    StoredIsFound
PROPERTY
    LookupEnds
CHECK_DEADLOCK FALSE
