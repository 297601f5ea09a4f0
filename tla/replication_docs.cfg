CONSTANTS
    loop = loop
    manual = manual
    Syncers = {loop}
    Loop = loop
    MaxRequests = 1
    MaxRefused = 1
    Limit = 2
    MaxEntries = 4
    MaxMishaps = 0
    MaxStarts = 1
SPECIFICATION FairSpec
PROPERTIES NewEntriesPulled
CHECK_DEADLOCK FALSE
