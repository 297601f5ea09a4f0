CONSTANTS
    a = a
    f = f
    k1 = k1
    k2 = k2
    c1 = c1
    c2 = c2
    Keys = {k1}
    Char = {a}
    Fields = {f}
    NonNumeric = NonNumeric
    HalfRange = 4
    MaxU64 = 10
    max_value_size = 100
    max_memory_bytes = 0
    lru_eviction_enabled = TRUE
    InvalidKey = InvalidKey
    Texts <- OneText
    Ttls = {None, 1}
    Amounts = {1}
    Clients = {c1}
    Encrypted = FALSE
    MaxRequests = 2
    MaxStarts = 2
    MaxErrors = 0
    MaxNow = 2
    None = None
    Handlers = {"getset", "expire"}
SPECIFICATION Spec
INVARIANTS ExpireReapplied
CHECK_DEADLOCK FALSE
