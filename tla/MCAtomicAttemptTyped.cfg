SPECIFICATION Spec
CONSTANTS
    Callers = {main}
    Main = main
    Requests = {r1}
    NoRequest = none
    MaxStrays = 0
    MaxFaults = 0
    Cap = 1
    Interrupts = FALSE
INVARIANTS TypedUnlessLeft
