SPECIFICATION SpecParts
CONSTANTS
    Files = {f1, f2, f3}
    Temps = {t1, t2}
    Procs = {p1, p2}
    MaxFiles = 2
    None = None
    Users = {u1}
    Contents = {c1, c2}
    Matched = {c1}
    Private = {c1}
    ApiThreads = {p1, p2}
    CacheSize = 2
    MaxTokens = 2
    MaxChanges = 4
    Nil = Nil
SYMMETRY Symmetry
INVARIANTS
    TypeOK
    QuotaRespected
    CleanupLeavesNoOrphan
    AnswersAreCurrent
    CacheIsSound
PROPERTIES
    ReferencedVersionsStay
    ReservedVersionsStay
    WritesOnlyWhileEnabled
    Implements
