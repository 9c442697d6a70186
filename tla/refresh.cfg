SPECIFICATION Spec
CONSTANTS
    Workers = {w1, w2}
    TotalPages = 2
    MaxRetries = 2
    LockTtl = 2
    HoldMax = 1
    MaxRuns = 2
SYMMETRY WorkerSymmetry
INVARIANTS
    TypeOK
    RunsExclusive
    CacheNeverAhead
    PricesNeverGoBack
    PagesAccounted
