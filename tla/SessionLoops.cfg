SPECIFICATION FairSpec
CONSTANTS
    Tasks = {t1, t2, t3}
    GoalMax = 1
    ReflectionMax = 3
    MaxCrashes = 1
    None = None
INVARIANTS
    AlertedLoopsAreOver
    GoalEndsForAReason
    ClosedIsQuiet
    IterationBounded
    CountIsHonest
PROPERTIES
    ContractSpec
    OverdueIsEnded
    CleanupRecurs
CHECK_DEADLOCK FALSE
