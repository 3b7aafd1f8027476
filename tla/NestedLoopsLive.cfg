SPECIFICATION LiveSpec
CONSTANTS
    Corrections = {c1, c2}
    Signals = {}
    Safeties = {}
    Shutdowns = {k1}
    SubAgents = {}
    Goal = goal
    Nodes = {n1}
    None = None
CHECK_DEADLOCK FALSE
PROPERTY CorrectionEnds
