CONSTANTS
    p1 = p1
    p2 = p2
    p3 = p3
    p4 = p4
    Procs = {p1, p2, p3, p4}
    AutoVersions = 2
    SaveVersions = {0, 1}
    Overlap = FALSE
    FlushFails = FALSE
    MaxAborts = 2
    MaxNow = 2
    None = None
    Empty = Empty
    Torn = Torn
SPECIFICATION Spec
SYMMETRY Swaps
INVARIANTS BackupsAreHistory
PROPERTIES FileIsAtomic PreviousVersionKept
CHECK_DEADLOCK FALSE
