SPECIFICATION FairSpec
CONSTANTS
    NChanges = 3
    Label <- OwnLabels
    Inclusive = FALSE
    StartAt = "beginning"
    MaxBatch = 2
    DoSnapshot = TRUE
    WithDLQ = TRUE
INVARIANTS TypeOK CoveredIsAccounted SnapshotComplete NoCommittedRedelivery
PROPERTIES OffsetMonotone KeepsPromise FollowedIsAccounted StopHonoured
