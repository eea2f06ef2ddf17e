SPECIFICATION FairSpec
CONSTANTS
    Kinds <- OneKind
    Sequenced <- Either
    MaxLog = 4
    MaxUnit = 3
INVARIANTS ResumesMidFile
CHECK_DEADLOCK FALSE
