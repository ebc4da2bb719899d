SPECIFICATION Spec
CONSTANTS
    MaxGen = 1
    MaxRetries = 0
    AutoContinue = TRUE
    HasPrompt = TRUE
    SelfStarts = TRUE
INVARIANTS
    DeadAgentIsQuiet
    TurnHasAnEnd
