SPECIFICATION CapSpec
CONSTANTS
    Procs = {p1, p2}
    Ops = {"o1", "o2"}
    Paths = {"sum", "peak"}
    MaxPaths = {"peak"}
    UnitPaths = {"sum"}
    Cap <- MCCap
    Requests <- MCRequests
    Settlements <- MCSettlements
    None = None
    External = External
    MaxFaults = 1
SYMMETRY CapSymmetry
INVARIANTS
    JoinExplainable
    AlwaysResumable
PROPERTIES
    EffectOnce
    ImplementsLedger
