SPECIFICATION FairJournalSpec
CONSTANTS
    Procs = {p1, p2}
    Payloads = {x, y}
    UnitLength = 2
    None = None
    MaxRecords = 1
    MaxFaults = 2
INVARIANTS
    FilesRecoverable
PROPERTIES
    ImplementsLog
    ActivationConverges
