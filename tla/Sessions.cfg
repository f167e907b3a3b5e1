SPECIFICATION Spec
CONSTANTS
    Call = {c1, c2}
    Bounded = {c1}
    None = None
    MaxResponders = 2
    Copied = {c1}
CHECK_DEADLOCK FALSE
INVARIANTS KeysAgree OneNegotiation
PROPERTIES AllAnswered EntryReleased
