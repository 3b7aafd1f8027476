SPECIFICATION MCSpec
CONSTANTS
    Advances = {a1, a2, a3}
    Sessions = {s1, s2}
    Pillars = {p1, p2}
    MaxConfirmed = 1
    MaxClock = 2
    Bar <- LowBar
    Skills = {1, 2}
    Trackers = {t1, t2}
    LastDay = 1
    Window = 0
    MaxCalls = 2
    FlagPercent = 50
    Decisions = {d1}
    Acts = {c1}
    Sources = {blake}
    Blank = Blank
    None = None
SYMMETRY Symmetry
CHECK_DEADLOCK FALSE
INVARIANTS
    UsedIsGraded
    LadderComplete
    NoDeadlock
    FlagHasCause
PROPERTY AdvanceCounts
