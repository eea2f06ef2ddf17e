SPECIFICATION FairSpec
CONSTANTS
    k = k
    g = g
    Rows <- FourRows
    Columns <- TwoColumns
    Val <- Values
    ChunkSize = 2
    MaxCrashes = 1
    MaxChanges = 1
    Kinds <- ThreeKinds
INVARIANTS CursorIsCovered SnapshotComplete
  
CHECK_DEADLOCK FALSE
