SPECIFICATION AttemptSpec
CONSTANTS
    Runners = {p1}
    Count = 1
    MaxCheckpoints = 0
INVARIANTS
    CaughtFailurePreserved
