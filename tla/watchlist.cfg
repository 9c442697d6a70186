SPECIFICATION FairSpec
CONSTANTS
    a1 = a1
    a2 = a2
    a3 = a3
    k = k
    Adds = {a1, a2, a3}
    Removes = {d1, d2}
    Keys = {k}
    NoKey = NoKey
    KeyOf <- OneRetryAndOneOther
INVARIANTS
    TypeOK
    NoDuplicates
    RetryInsertsNothing
    ReplayIsExplained
PROPERTIES
    RequestsEnd
CHECK_DEADLOCK FALSE
