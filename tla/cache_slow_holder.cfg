SPECIFICATION FairSpec
CONSTANTS
    Callers = {c1, c2}
    LockTimeout = 3
    ValueTtl = 3
    HoldMax = 3
    Faults <- AllFaults
    Prompt = FALSE
INVARIANTS
    WaitsBeforeComputing
PROPERTIES
    LockSpec
    EveryCallReturns
    LockGoesAway
