SPECIFICATION Spec
CONSTANTS
    MaxMsg = 2
    MaxAttempts = 2
    MaxFaults = 1
    MaxChanges = 6
    MaxStarts = 1
    Results <- AllResults
INVARIANTS
    NotSentAgainAfterCrash
CHECK_DEADLOCK FALSE
