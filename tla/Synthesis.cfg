SPECIFICATION Spec
CONSTANTS
    Requests = {r1, r2, r3, r4}
    Conns = {k1, k2, k3}
    PoolSize = 2
    Nodes = {n1, n2}
    Threshold = 1
    MaxAttempts = 4
    None = None
SYMMETRY Symmetry
CHECK_DEADLOCK FALSE
INVARIANTS
    OneRunAtATime
