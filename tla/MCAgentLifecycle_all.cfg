SPECIFICATION FairSpec
CONSTANTS
    MaxGen = 2
    MaxRestarts = 1
INVARIANTS
    TypeOK
    NoOrphan
    StartedAgentIsWatched
    ReplacedWaitIsWoken
    RunsAlone
PROPERTIES
    ImplementsService
    RetiredAgentStops
    CloseStopsForGood
    LaunchEnds
CHECK_DEADLOCK FALSE
