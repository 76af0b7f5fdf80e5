CONSTANTS
    n1 = n1
    n2 = n2
    n3 = n3
    p1 = p1
    p2 = p2
    Addrs = {n1, n2, n3}
    Alias = {n3}
    Starts <- MCStarts
    Procs = {p1, p2}
    Repertoire <- MCRepertoire
    MaxOps <- MCMaxOps
    MaxTicks = 1
SPECIFICATION Spec
INVARIANTS DialsWhatItKnows DialsOnlyWhatItKnows
PROPERTIES KeepsOnePeer OperatorPeersStay
CHECK_DEADLOCK FALSE
