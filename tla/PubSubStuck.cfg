CONSTANTS
    c1 = c1
    c2 = c2
    c3 = c3
    a = a
    b = b
    p = p
    Clients = {c1, c2, c3}
    Channels = {a, b}
    Patterns = {p}
    Matches <- MCMatches
    Repertoire <- MCPlainRepertoire
    MaxCalls <- MCMaxCalls
    Idlers = {}
SPECIFICATION Spec
PROPERTY PublishAlwaysReturns
CHECK_DEADLOCK FALSE
