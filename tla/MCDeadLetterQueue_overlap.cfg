SPECIFICATION FairSpec
CONSTANTS
    NEntries = 2
    MaxRetries = 2
    RoundLimit = 1
    w1 = w1
    w2 = w2
    Replayers <- TwoWorkers
INVARIANTS TypeOK ReplayedWasWritten RetryBudget
PROPERTIES UndeliveredStaysQueued EveryEntrySettles
