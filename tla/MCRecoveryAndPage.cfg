\* Names of tombstones run out, the user may leave the page, and its bounds
\* end every run of it.
SPECIFICATION SpecParts
CONSTANTS
    MaxId = 2
    Dbs = {d1, d2}
    Procs = {p1, p2}
    Tombs = {t1, t2}
    MaxRestarts = 2
    MaxFaults = 1
    None = None
    Accounts = {t1, t2}
    Nobody = Nobody
    MaxLogins = 2
    MaxEdits = 2
    MaxParallel = 2
    MaxRequests = 2
    MaxNodes = 3
    MaxEvents = 3
CHECK_DEADLOCK FALSE
SYMMETRY Symmetry
INVARIANTS
    RecoveryReclaims
    SavesOneAtATime
    TokenOfUser
    PublishedLoads
    StoredIsNormal
PROPERTIES
    LivingKeepFiles
    ClaimedFilesKept
    EditHitsItsNode
