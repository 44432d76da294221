\* Ids and tokens run out, so the system may stop.
SPECIFICATION Spec
CONSTANTS
    Ids = {i1, i2}
    Names = {n}
    Tokens = {s1, s2}
    Procs = {p1}
    Limit = 2
    MaxFaults = 0
    None = None
CHECK_DEADLOCK FALSE
INVARIANTS
    DisabledHasNoSession
