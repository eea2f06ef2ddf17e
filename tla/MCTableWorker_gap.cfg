SPECIFICATION Spec
CONSTANTS
    NChanges = 3
    Label <- OwnLabels
    Inclusive = FALSE
    StartAt = "current"
    MaxBatch = 2
    DoSnapshot = TRUE
    WithDLQ = TRUE
INVARIANTS CoveredIsAccounted
