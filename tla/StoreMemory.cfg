SPECIFICATION Spec
CONSTANTS
    Procs = {p1, p2}
    Keys = {k1, k2, k3}
    k1 = k1
    k2 = k2
    k3 = k3
    NumShards = 2
    shardIndex <- MCShard
    MaxMemory = 4
    Reloads <- MCReloads
    Start <- MCStart
    Overhead = 1
    Lengths = {2}
    Deadlines = {1}
    MaxLen = 2
    MaxTime = 2
    MaxOps = 2
INVARIANTS AccountExact ListsTrackKeys GrowthKept
PROPERTIES StoresWhereAllowed StaysWithinLimit OOMOnlyWhenStuck CallsReturn
CHECK_DEADLOCK FALSE
