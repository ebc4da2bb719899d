SPECIFICATION FairSpec
CONSTANTS
    MaxGen = 1
    MaxRetries = 1
    AutoContinue = FALSE
    HasPrompt = FALSE
    SelfStarts = TRUE
INVARIANTS
    ContinuationKept
PROPERTIES
    BusyOnlyWithAgent
    DueIsTakenUp
