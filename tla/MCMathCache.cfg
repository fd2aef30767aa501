SPECIFICATION FairMathCacheSpec
CONSTANTS
    Threads = {t1, t2}
    NoThread = NoThread
    Interruptible = {t1}
    MaxFrames = 3
    Keys = {k1, k2, bad}
    FailingKeys = {bad}
    MaxSize = 1
    None = None
    MaxAccesses = 2
INVARIANTS
    EpochExcludesOthers
    ChecksNeverRaise
    AccountingExact
    ColdNeverReuses
PROPERTIES
    WaitingWriterServed
