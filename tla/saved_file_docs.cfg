CONSTANTS
    p1 = p1
    p2 = p2
    p3 = p3
    p4 = p4
    Procs = {p1, p2}
    AutoVersions = 2
    SaveVersions = {0, 1}
    Overlap = TRUE
    FlushFails = TRUE
    MaxAborts = 0
    MaxNow = 2
    None = None
    Empty = Empty
    Torn = Torn
SPECIFICATION Spec
INVARIANTS FileComplete
CHECK_DEADLOCK FALSE
