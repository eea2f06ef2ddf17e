SPECIFICATION FairSpec
CONSTANTS
    a = a
    b = b
    Kinds <- AllKinds
    Tables <- TwoTables
    NChanges = 4
    NShared = 2
    Table <- Alternating
    Stamp <- Commits
    Partition <- Halves
    QueueSize = 1
INVARIANTS TypeOK AcknowledgedIsHeld 
PROPERTIES EveryTableServed LossEndsStreams
