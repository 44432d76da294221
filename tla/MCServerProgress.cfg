\* A fetch ends and a clock reaches its bound, so a part may stop.
SPECIFICATION SpecParts
CONSTANTS
    f1 = f1
    t1 = t1
    t2 = t2
    Procs = {p1, p2}
    NoProc = NoProc
    Databases = {"geoip"}
    Processes = {"api"}
    Callers = {"first", "second"}
    Rulesets = 2
    MaxCrashes = 1
    Addresses = {"a1", "a2", "lan"}
    Public = {"a1", "a2"}
    MaxRedirects = 1
    MaxChunks = 1
    Names = {"n1", "n2"}
    Confs = {"ok", "bad"}
    MaxNodes = 2
    MaxEvents = 4
CHECK_DEADLOCK FALSE
INVARIANTS
    ReturnedBodyIsComplete
    NoDuplicateLeaks
    DownloadsDoNotOverlap
    TemporariesRemoved
    ServedRulesetsAreWhole
    PublishedYamlPassed
PROPERTIES
    LocksReleased
    FetchEnds
    EveryRulesetIsTriedAgain
    StatusIsEarned
    ChangesAreSaved
