SPECIFICATION PhaseSpec
CONSTANTS
    Procs = {p1, p2}
    Specs = {s1, s2}
    Failures = {"lifecycle", "cap"}
    CapFailures = {"cap"}
    Rejections = {r1}
    Receipts = {a1}
    None = None
    ExpectedIds <- MCExpectedIds
    MaxTail = 1
    MaxFaults = 2
SYMMETRY PhaseSymmetry
INVARIANTS
    LeasesTruthful
    AlwaysRecoverable
    AnswersDurable
PROPERTIES
    IntentBindsPresent
    ImplementsSwitch
