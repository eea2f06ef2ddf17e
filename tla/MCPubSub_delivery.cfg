SPECIFICATION FairSpec
CONSTANTS
    m1 = m1
    m2 = m2
    bad = bad
    Messages <- WithBad
    Bad <- OneBad
    MaxPull = 2
    MaxBatch = 2
    ExtensionsFail = TRUE
INVARIANTS TypeOK AckedOrDropped
PROPERTIES EventuallyDelivered
