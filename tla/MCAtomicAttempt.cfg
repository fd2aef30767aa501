SPECIFICATION FairSpec
CONSTANTS
    Callers = {main, t1}
    Main = main
    Requests = {r1}
    NoRequest = none
    MaxStrays = 1
    MaxFaults = 2
    Cap = 1
    Interrupts = TRUE
INVARIANTS
    NothingLeftSilently
    SuccessGenuine
    OneLeafPerRequest
PROPERTIES
    AttemptsEnd
