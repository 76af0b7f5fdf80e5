CONSTANTS
    n1 = n1
    n2 = n2
    n3 = n3
    p1 = p1
    p2 = p2
    Addrs = {n1, n2, n3}
    Alias = {n3}
    Starts <- MCReaped
    Procs = {p1, p2}
    Repertoire <- MCReaperOnly
    MaxOps <- MCMaxOps
    MaxTicks = 2
SPECIFICATION Spec
PROPERTY ForgottenWhenUnreachable
CHECK_DEADLOCK FALSE
