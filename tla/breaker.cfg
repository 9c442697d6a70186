SPECIFICATION FairSpec
CONSTANTS
    Callers = {c1, c2, c3}
    FailureThreshold = 3
    RecoveryTimeout = 2
    CountCap = 5
    Exceptions <- CoinGeckoExceptions
    Ignored <- CoinGeckoIgnored
INVARIANTS
    CountMatchesState
    GaugeMatchesState
PROPERTIES
    FailureReopens
    ClosedForGood
    NotStuckOpen
    Recovers
