SPECIFICATION MCSpec
CONSTANTS
    None = None
    Count = 5
    Tables <- FiveNodes
    MaxMoves = 2
    Budget = 4
    L3Limit = 1
    SearchLimit = 2
    TileLimit = 2
    TodayLimit = 3
    MemoryLimit = 3
CHECK_DEADLOCK FALSE
INVARIANTS ReadersOK BudgetIsKept NearDeadlineIsKept
PROPERTIES TileTellsTheWorst TodayIsEarliest
