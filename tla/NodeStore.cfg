SPECIFICATION MCSpec
CONSTANTS
    Nodes = {n1, n2, n3}
    Sessions = {s1}
    MaxEdits = 2
    None = None
    Watched = {w1, w2}
    Monitors = {m1}
    Surfacers = {l1}
    Filings <- TwoFilings
    Days = {0, 60}
    Dues = {25, 65}
SYMMETRY Symmetry
INVARIANTS
    FactIsNotLost
    FlaggedIsSurfaced
    OverdueIsNoticed
