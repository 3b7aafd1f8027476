SPECIFICATION MCSpec
CONSTANTS
    Decisions = {d1}
    Acts = {c1, c2, c3}
    Sources = {blake, anna}
    Blank = Blank
    None = None
    Advances = {a1}
    Sessions = {s1}
    Pillars = {p1}
    MaxConfirmed = 0
    MaxClock = 0
    Bar <- LowBar
    Skills = {1}
    Trackers = {t1}
    LastDay = 0
    Window = 0
    MaxCalls = 0
    FlagPercent = 5
SYMMETRY Symmetry
CHECK_DEADLOCK FALSE
INVARIANTS
    NothingIsSynthesized
