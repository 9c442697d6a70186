SPECIFICATION Spec
CONSTANTS
    Readers = {r1}
    Tasks = {q1, q2}
    Worker = worker
    MaxMarket = 2
SYMMETRY TaskSymmetry
INVARIANTS
    TypeOK
    StaleIsExplained
PROPERTIES
    RetryStartsNothing
    CompletedIsCommitted
