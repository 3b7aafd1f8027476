SPECIFICATION FairSpec
CONSTANTS
    Calls = {c1, c2}
    Requests = {r1, r2}
    MaxCrashes = 1
    None = None
INVARIANTS
    CallerIsSafe
    ReturnedIsDurable
PROPERTIES
    RowSpec
    RunningEnds
    CallsEnd
