SPECIFICATION FairSpec
CONSTANTS
    Rest = {r1}
    Grpc = {g1}
    PoolSize = 1
    LockTimeout = 2
    ValueTtl = 1
    FailureThreshold = 2
    RecoveryTimeout = 1
    CountCap = 2
INVARIANTS
    TypeOK
PROPERTIES
    RequestsEnd
    InsightsComeBack
