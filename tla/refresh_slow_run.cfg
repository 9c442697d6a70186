SPECIFICATION FairSpec
CONSTANTS
    Workers = {w1, w2}
    TotalPages = 1
    MaxRetries = 2
    LockTtl = 1
    HoldMax = 1
    MaxRuns = 2
PROPERTIES
    LockSpec
    RunEnds
    LockGoesAway
