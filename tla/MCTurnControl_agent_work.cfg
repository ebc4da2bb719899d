SPECIFICATION Spec
CONSTANTS
    MaxGen = 0
    MaxRetries = 1
    AutoContinue = TRUE
    HasPrompt = FALSE
    SelfStarts = TRUE
INVARIANTS
    AgentWorkIsShown
