SPECIFICATION FairSpec
CONSTANTS
    me = me
    p = p
    q = q
    r = r
    s = s
    Node = {me, p, q, r, s}
    Me = me
    Heard = {r}
    ID <- FiveIDs
    Key <- TheKey
    Knows <- Tables
    BucketSize = 2
    Alpha = 2
    MaxOps = 1
    Loses = TRUE
PROPERTY
    LookupTimesOut
CHECK_DEADLOCK FALSE
