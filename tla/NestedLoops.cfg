SPECIFICATION MCSpec
CONSTANTS
    Corrections = {c1, c2}
    Signals = {g1, g2}
    Safeties = {s1}
    Shutdowns = {k1}
    SubAgents = {a1}
    Goal = goal
    Nodes = {n1}
    None = None
SYMMETRY Symmetry
CHECK_DEADLOCK FALSE
INVARIANTS TypeOK AttemptsBounded ReportIsTrue FailureIsReported FailSafeStops
PROPERTY SurfacedIsPending
