SPECIFICATION Spec
CONSTANTS
    Readers = {r1}
    Tasks = {q1, q2}
    Worker = worker
    MaxMarket = 2
PROPERTIES
    NextReadIsFresh
