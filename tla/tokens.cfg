SPECIFICATION FairSpec
CONSTANTS
    Registers = {g1, g2}
    Logins = {l1, l2}
    Refreshes = {f1, f2}
    MaxSecond = 3
INVARIANTS
    TypeOK
    OneAccount
    StoredIsSent
PROPERTIES
    ReplacedIsRefused
    RequestsEnd
CHECK_DEADLOCK FALSE
