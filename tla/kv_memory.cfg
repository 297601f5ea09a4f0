CONSTANTS
    a = a
    b = b
    k1 = k1
    k2 = k2
    k3 = k3
    f = f
    Keys = {k1, k2, k3}
    Char = {a}
    Fields = {}
    NonNumeric = NonNumeric
    HalfRange = 4
    MaxU64 = 3
    max_value_size = 8
    max_memory_bytes = 9
    lru_eviction_enabled = TRUE
    InvalidKey = InvalidKey
    Values <- CoreValues
    Pairs <- BatchPairs
    Texts <- OneText
    Items = {}
    FieldTexts = {}
    Amounts = {}
    Ttls = {}
    Precisions = {4}
    NotifyModes = {TRUE}
    MaxNow = 0
    MaxWrites = 3
    MaxQueue = 0
    MaxEvents = 3
    MaxLen = 6
    None = None
SPECIFICATION Spec
SYMMETRY KeySymmetry
INVARIANTS TypeOK LruTracksStore
PROPERTIES LimitEnforced EvictsOldestFirst EvictionStopsInTime RemovalsAnnounced
CHECK_DEADLOCK FALSE
