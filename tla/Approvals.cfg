SPECIFICATION MCSpec
CONSTANTS
    Calls = {c1, c2, c3}
    Actions = {a1, a2}
    Sessions = {s1, s2}
    Grants = {g1}
    None = None
SYMMETRY Symmetry
CHECK_DEADLOCK FALSE
INVARIANTS
    ExecutedIsAuthorized
    LateIsRefused
