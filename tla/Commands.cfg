SPECIFICATION Spec
CONSTANTS
    Keys = {k1, k2}
    Fields = {f1, f2}
    f1 = f1
    f2 = f2
    Elems = {a, b}
    a = a
    b = b
    NUL = NUL
    Nil = Nil
    Second = 2
    Slashed = {}
    MinInt64 = 0
    MaxInt64 = 2
    Clients = {c1, c2}
    Start <- MCStart
    Strings <- MCStrings
    Hashes <- MCHashes
    Deltas <- MCDeltas
    Ranges <- MCRanges
    TTLs = {1}
    MaxTime = 2
    MaxCmds = 2
    MaxLen = 2
SYMMETRY MCSymmetry
CONSTRAINT Promised
INVARIANTS TypeOK DrainedAgree
PROPERTY CopiesInOrder
CHECK_DEADLOCK FALSE
