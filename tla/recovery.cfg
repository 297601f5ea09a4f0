CONSTANTS
    a = a
    f = f
    k1 = k1
    k2 = k2
    c1 = c1
    c2 = c2
    Keys = {k1}
    Char = {a}
    Fields = {f}
    NonNumeric = NonNumeric
    HalfRange = 4
    MaxU64 = 100
    max_value_size = 100
    max_memory_bytes = 0
    lru_eviction_enabled = TRUE
    InvalidKey = InvalidKey
    Texts <- OneText
    Ttls = {None, 1}
    Amounts = {1}
    Clients = {c1}
    Encrypted = TRUE
    MaxRequests = 3
    MaxStarts = 2
    MaxErrors = 0
    MaxNow = 1
    None = None
    Quote = Quote
    NANOS = 3
    Readings = {0}
    Takers = {t1, t2}
    t1 = t1
    t2 = t2
    Handlers = {"set", "append", "delete", "expire"}
SPECIFICATION PitrSpec
INVARIANTS RecoveryFaithful
PROPERTIES PointInTimeFaithful SnapshotsKept
CHECK_DEADLOCK FALSE
