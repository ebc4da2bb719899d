SPECIFICATION FairSpec
CONSTANTS
    MaxMsg = 2
    MaxAttempts = 2
    MaxFaults = 0
    MaxChanges = 5
    MaxStarts = 0
    Results <- PlainResults
PROPERTIES
    QueueDrains
    FileCatchesUp
CHECK_DEADLOCK FALSE
