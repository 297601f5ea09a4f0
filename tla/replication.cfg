CONSTANTS
    loop = loop
    manual = manual
    Syncers = {loop, manual}
    Loop = loop
    MaxRequests = 1
    MaxRefused = 1
    Limit = 2
    MaxEntries = 3
    MaxMishaps = 1
    MaxStarts = 2
SPECIFICATION FairSpec
INVARIANTS ReplicaIsPrefix AppliedInOrder NeverClaimsTooMuch
PROPERTIES CatchesUp
CHECK_DEADLOCK FALSE
