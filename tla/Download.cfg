SPECIFICATION FairSpec
CONSTANTS
    fa = fa
    fb = fb
    x = x
    p = p
    q = q
    d1 = d1
    d2 = d2
    d3 = d3
    d4 = d4
    File = {fa, fb, x}
    Chunks <- TheChunks
    Invalid = {x}
    Peer = {p, q}
    Dist <- TheDist
    Holds <- TheHolds
    Lists <- TheLists
    Download = {d1, d2, d3, d4}
    FileOf <- TheFiles
    OriginOf <- TheOrigins
    Anyone = Anyone
    Shared = {fa}
    None = None
    HopLimit = 3
    HopBits = 2
INVARIANTS
    SendIsReceived
    OrphansShareHash
PROPERTIES
    DownloadEnds
CHECK_DEADLOCK FALSE
