CONSTANTS
    Requests = {q1, q2, q3}
    Queries = 1
    Conns = {c1, c2}
    MaxOpen = 2
    MaxIdle = 1
    MaxRetries = 2
    MaxGen = 2
    NoConn = NoConn
SPECIFICATION Spec
INVARIANTS
    TypeOK
    LateOnlyOnFirstUse
PROPERTIES
    NoneLeftIdle
    EveryQueryIsAnswered
    SupersededDrains
