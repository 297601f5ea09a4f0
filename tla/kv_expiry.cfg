CONSTANTS
    a = a
    b = b
    k1 = k1
    k2 = k2
    k3 = k3
    f = f
    Keys = {k1}
    Char = {a, b}
    Fields = {f}
    NonNumeric = NonNumeric
    HalfRange = 4
    MaxU64 = 3
    max_value_size = 8
    max_memory_bytes = 0
    lru_eviction_enabled = TRUE
    InvalidKey = InvalidKey
    Values <- Counters
    Pairs = {}
    Texts <- OneText
    Items <- ShortLists
    FieldTexts <- FieldInputs
    Amounts <- Halves
    Ttls = {1, 9}
    Precisions = {99}
    NotifyModes = {TRUE}
    MaxNow = 2
    MaxWrites = 2
    MaxQueue = 2
    MaxEvents = 1
    MaxLen = 3
    None = None
SPECIFICATION SweepSpec
INVARIANTS RangeIsSlice LruTracksStore ExecMatchesLoop
PROPERTIES RemovalsAnnounced ExpiryKept NoResurrection TtlHonoured ExpiredEventuallyRemoved
CHECK_DEADLOCK FALSE
