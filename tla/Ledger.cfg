SPECIFICATION LedgerSpec
CONSTANTS
    Name = {n1, n2}
    MaxBlocks = 4
SYMMETRY NameSymmetry
CHECK_DEADLOCK FALSE
INVARIANTS NamesUnique HeadLongest TxKept NoPanic
