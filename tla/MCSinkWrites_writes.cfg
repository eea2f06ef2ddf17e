SPECIFICATION Spec
CONSTANTS
    k1 = k1
    k2 = k2
    v1 = v1
    v2 = v2
    Keys <- TwoKeys
    Values <- TwoValues
    Absent = Absent
    Sinks = {"dremio", "iceberg"}
    KeyUpdates = TRUE
    MaxBatch = 3
    Faults = {"answerLost", "lateJob", "unauthorized", "rowDelete"}
    MaxEvents = 4
    MaxRestarts = 1
INVARIANTS AppliedInOrder OneRowPerKey CurrentRowSurvives NoRowGap
SYMMETRY Interchangeable
CHECK_DEADLOCK FALSE
