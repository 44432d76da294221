SPECIFICATION SpecTab
CONSTANTS
    Accounts = {a, b}
    Nobody = Nobody
    MaxLogins = 2
    MaxEdits = 1
    MaxParallel = 2
    MaxRequests = 2
CHECK_DEADLOCK FALSE
PROPERTY SwitchLeavesNoData
