CONSTANTS
    x = x
    y = y
    z = z
    Done = Done
    Failed = Failed
    left = left
    right = right
    GroundStates = {x, y, z, Done, Failed}
    Terminal = {Done, Failed}
    Kernels <- MCKernels
    Initials <- MCInitials
    Labels = {left, right}
    LabelOf <- MCLabelOf
    Partitions <- MCPartitions
    Deltas = {0, 8}
    Horizon = 2
    OracleHorizon = 3
    Tolerance = 8
    MaxSplits = 1
SPECIFICATION AuditSpec
INVARIANTS
    BoundsBracketTruth
    CertificateSound
    FrontierExact
    SelectedOptimal
PROPERTY
    RefinementTightens
CHECK_DEADLOCK FALSE
