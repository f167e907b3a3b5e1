SPECIFICATION FairSpec
CONSTANTS
    r = r
    x = x
    None = None
    Url = {r, x}
    Root = r
    Links <- Web
    External = {x}
    LookupHangs = TRUE
    Leader = TRUE
    MaxTokens = 2
    MaxQueue = 3
    MaxCrashes = 1
INVARIANTS
    TypeOK
    AtMostOnce
    NoPageLost
    PanicLosesNoLinks
    PastAccounted
PROPERTY
    LinksCrawled
CHECK_DEADLOCK FALSE
