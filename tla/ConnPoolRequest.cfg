CONSTANTS
    Requests = {q1, q2}
    Queries = 2
    Conns = {c1, c2}
    MaxOpen = 2
    MaxIdle = 1
    MaxRetries = 2
    MaxGen = 2
    NoConn = NoConn
SPECIFICATION Spec
INVARIANTS
    RequestStaysOnOneFile
