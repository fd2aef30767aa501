SPECIFICATION AttemptSpec
CONSTANTS
    Runners = {p1, p2, p3}
    Count = 2
    MaxCheckpoints = 2
SYMMETRY RunnerSymmetry
INVARIANTS
    SingleWriter
    HonestVerifies
    VerdictTruthful
