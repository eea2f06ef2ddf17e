SPECIFICATION ImagesSpec
CONSTANTS
    k1 = k1
    k2 = k2
    x = x
    y = y
    Null = Null
    Kinds <- AllKinds
    Keys <- TwoKeys
    Values <- TwoValues
    Copies <- FirstCopies
    NChanges = 4
    MaxBatch = 3
INVARIANTS OnlyHarmedDiffer LostNotStale KeylessRows
CHECK_DEADLOCK FALSE
