SPECIFICATION Spec
CONSTANTS
    Calls = {c1, c2}
    Actions = {a1}
    Sessions = {s1}
    Grants = {g1}
    None = None
SYMMETRY Symmetry
CHECK_DEADLOCK FALSE
INVARIANT ApprovedOnce
