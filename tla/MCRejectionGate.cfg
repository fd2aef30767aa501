SPECIFICATION FairGateSpec
CONSTANTS
    Procs = {p1, p2}
    Rejections = {r1, r2}
    Receipts = {a1, a2}
    None = None
    CallKinds = {"effect", "read", "recover", "admit", "hold", "commit", "ack"}
    MaxCrashes = 2
INVARIANTS
    EffectsPrecedeRejection
    CrashLeavesReplayable
    AnswersDurable
PROPERTIES
    ImplementsSlot
    CallsEnd
