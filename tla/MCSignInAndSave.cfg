SPECIFICATION SpecParts
CONSTANTS
    Ids = {i1, i2, i3}
    Names = {n}
    Tokens = {s1, s2}
    Procs = {p1, p2}
    Limit = 2
    MaxFaults = 1
    None = None
    Threads = {q1, q2, q3}
    UserNames = {a, b}
    Stripes = {{a}, {b}}
    NameLimit = 2
    AddressLimit = 2
    Addresses = {x, y}
    RegisterLimit = 1
    Window = 2
    MaxKeys = 1
    MaxTime = 3
    NoThread = NoThread
    Buttons = {"save", "validate", "publish"}
    MaxEdits = 2
    MaxLost = 1
INVARIANTS
    EndedStaysEnded
    FailuresWithinLimit
    FailedRegistrationLeavesNothing
    AddressOvershootIsBounded
    RegistrationsWithinLimit
    ValidationIsCurrent
    PublishedWasChecked
    SavesAloneLoseNothing
PROPERTIES
    LoginLockReleased
    EditsAreSavedOrReported
    FlowsEnd
