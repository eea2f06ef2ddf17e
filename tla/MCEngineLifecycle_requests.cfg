SPECIFICATION FairSpec
CONSTANTS
    MaxEngines = 2
    MaxRequests = 3
    MaxResets = 1
    NChanges = 1
INVARIANTS OneWorkerPerTable RunningIsReachable
PROPERTIES KeepsPromise 
CHECK_DEADLOCK FALSE
