SPECIFICATION Spec
CONSTANTS
    MaxMsg = 2
    MaxAttempts = 1
    MaxFaults = 1
    MaxChanges = 5
    MaxStarts = 1
    Results <- AllResults
INVARIANTS
    DeliveredAtMostOnce
    QueueIsWhatWaits
    OldIdsNameNothing
    StoredIsCurrent
CHECK_DEADLOCK FALSE
