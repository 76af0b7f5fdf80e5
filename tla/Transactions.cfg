CONSTANTS
    c1 = c1
    c2 = c2
    k1 = k1
    k2 = k2
    Clients = {c1, c2}
    Keys = {k1, k2}
    NumShards = 2
    shardIndex <- MCShardIndex
    Entries <- MCEntries
    Repertoire <- MCRepertoire
    maxMultiQueueLen = 1
    MaxCalls <- MCMaxCalls
    MaxPrunes = 1
SPECIFICATION Spec
INVARIANTS ExecTrustsWatch
PROPERTIES AbortsOnlyOnChange ExecEnds
CHECK_DEADLOCK FALSE
