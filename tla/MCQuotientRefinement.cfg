CONSTANTS
    s1 = s1
    s2 = s2
    s3 = s3
    s4 = s4
    root = root
    late = late
    Nothing = Nothing
    States = {s1, s2, s3, s4}
    BaseCells = {root, late}
    Predicates = {1, 2, 3}
    Holds <- MCHolds
    BasePath <- MCBasePath
    Candidates <- MCCandidates
    Widths = {0, 5}
    MaxLeaves = 4
    MaxAcceptedSplits = 2
    RateBudget = 5
    MaxEvaluations = 4
    MaxFallbacks = 1
    InitialRate = 1
SPECIFICATION RefinementSpec
INVARIANTS
    BudgetsExact
    CellsFollowTheirPaths
    SeparatorsSplit
PROPERTIES
    CommittedProbesSplit
