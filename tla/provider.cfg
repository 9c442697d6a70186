SPECIFICATION ProviderFairSpec
CONSTANTS
    Callers = {c1}
    FailureThreshold = 5
    RecoveryTimeout = 30
    CountCap = 6
    Exceptions <- HttpExceptions
    Ignored <- IgnoredByCoinGecko
PROPERTIES
    ThreeStateSpec
    OutageTrips
