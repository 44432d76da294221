SPECIFICATION Spec
CONSTANTS
    MaxId = 2
    Dbs = {d1, d2}
    Procs = {p1}
    Tombs = {t1}
    MaxRestarts = 2
    MaxFaults = 0
    None = None
PROPERTIES
    ForeignFilesKept
