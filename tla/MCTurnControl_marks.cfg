SPECIFICATION Spec
CONSTANTS
    MaxGen = 1
    MaxRetries = 1
    AutoContinue = FALSE
    HasPrompt = FALSE
    SelfStarts = FALSE
INVARIANTS
    MarksAreTheRunningTurns
