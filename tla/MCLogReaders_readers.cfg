SPECIFICATION FairSpec
CONSTANTS
    Kinds <- FourKinds
    Sequenced <- Either
    MaxLog = 4
    MaxUnit = 3
INVARIANTS PassedIsWritten
PROPERTIES RepeatsOnlyAtBoundary ReachableIsYielded
CHECK_DEADLOCK FALSE
