CONSTANTS
    a = a
    f = f
    k1 = k1
    k2 = k2
    c1 = c1
    c2 = c2
    Keys = {k1}
    Char = {a}
    Fields = {f}
    NonNumeric = NonNumeric
    HalfRange = 4
    MaxU64 = 3
    max_value_size = 100
    max_memory_bytes = 0
    lru_eviction_enabled = TRUE
    InvalidKey = InvalidKey
    Texts <- OneText
    Ttls = {None, 2}
    Amounts = {1}
    Clients = {c1, c2}
    Encrypted = FALSE
    MaxRequests = 2
    MaxStarts = 1
    MaxErrors = 1
    MaxNow = 0
    None = None
    Handlers = {"set", "delete", "incrby", "append", "expire", "persist", "push", "pop", "hset", "hdel", "hincrby", "getset", "mset", "hincrbyfloat", "hll", "transaction", "pipeline", "lua"}
SPECIFICATION FairSpec
INVARIANTS TypeOK RecoveryFaithful LockHasOwner
PROPERTIES LogIsAppendOnly RequestsFinish
CHECK_DEADLOCK FALSE
