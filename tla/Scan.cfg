SPECIFICATION Spec
CONSTANTS
    Keys = {1, 2, 3, 4}
    Slashed = {4}
    Fields = {f1, f2}
    f1 = f1
    f2 = f2
    Elems = {a, b}
    a = a
    b = b
    NUL = NUL
    Nil = Nil
    MinInt64 = 0
    MaxInt64 = 2
    Second = 2
    Shards <- MCShards
    Start <- MCStart
    Count = 1
    Match = "*"
    Wants = {"", "set"}
    TTLs = {1}
    MaxTime = 3
    MaxWrites = 2
INVARIANTS ScanMissesOnlyShifted ScanRepeatsOnlyShifted RangesAgree RepliesAgree
PROPERTY ScanEnds
CHECK_DEADLOCK FALSE
