SPECIFICATION PartsSpec
CONSTANTS
    EndedTurns = 2
    CodexScopes <- MCCodexScopes
    ClaudeScopes <- MCClaudeScopes
    PiScopes <- MCPiScopes
    UpdateScopes <- MCUpdateScopes
    HubScopes <- MCHubScopes
    DemoScopes <- MCDemoScopes
    TermScopes <- MCTermScopes
    UploadScopes <- MCUploadScopes
    HandoffScopes <- MCHandoffScopes
    Contents = {"c1"}
    Names = {"n1", "n2"}
    MaxReceipts = 1
INVARIANTS
    ChatsAreComplete
    TurnsAgree
    NoneStranded
    SettingsApply
    UpdatesAreSafe
    HubKeepsTrack
    ClientsAreServed
PROPERTIES
    StepsAreCareful
CHECK_DEADLOCK FALSE
