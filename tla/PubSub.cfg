CONSTANTS
    c1 = c1
    c2 = c2
    c3 = c3
    a = a
    b = b
    p = p
    Clients = {c1, c2, c3}
    Channels = {a, b}
    Patterns = {p}
    Matches <- MCMatches
    Repertoire <- MCRepertoire
    MaxCalls <- MCMaxCalls
    Idlers = {c1, c2}
SPECIFICATION Spec
INVARIANTS RegistryAgrees
PROPERTIES PushedToSubscribers ReachesAudience PublishReturns
CHECK_DEADLOCK FALSE
