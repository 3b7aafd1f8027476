SPECIFICATION FairSpec
CONSTANTS
    MaxRetries = 3
    MaxTurns = 2
CHECK_DEADLOCK FALSE
INVARIANTS
    CallsBounded
    AnswerIsGrounded
PROPERTY TurnEnds
