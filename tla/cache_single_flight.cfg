SPECIFICATION FairSpec
CONSTANTS
    Callers = {c1, c2, c3}
    LockTimeout = 3
    ValueTtl = 3
    HoldMax = 2
    Faults <- NoFaults
    Prompt = TRUE
INVARIANT CacheMutex
PROPERTIES
    SingleFlightSpec
    MissIsFilled
