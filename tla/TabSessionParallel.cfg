SPECIFICATION SpecTab
CONSTANTS
    Accounts = {a, b}
    Nobody = Nobody
    MaxLogins = 2
    MaxEdits = 2
    MaxParallel = 2
    MaxRequests = 2
CHECK_DEADLOCK FALSE
INVARIANTS
    NoCrossAccountWrite
