CONSTANTS
    Requests = {q1, q2, q3}
    Queries = 2
    Conns = {c1}
    MaxOpen = 1
    MaxIdle = 1
    MaxRetries = 2
    MaxGen = 2
    NoConn = NoConn
SPECIFICATION Spec
INVARIANTS
    FailuresAreReloads
