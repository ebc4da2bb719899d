SPECIFICATION WebhookSpec
CONSTANTS
    chat = chat
    watcher = watcher
    observer = observer
    r1 = r1
    r2 = r2
    q1 = q1
    q2 = q2
    Clients = {chat, watcher, observer}
    Observer = observer
    Since = 1
    QueueSize = 2
    MaxAttempts = 2
    MaxOpenTools = 1
    MaxToolMessages = 2
    Kind <- KindOf
    Rich = {r1, r2}
    Reqs = {q1, q2}
    MaxClosed = 1
    MaxErrors = 1
    InfoFields = {"name"}
    MaxMsgs = 4
    Scenarios <- AllScenarios
INVARIANTS
    DrainedIsCurrent
    ResumesFromWhatItHolds
    StoredIsTheConversation
    TasksFollowTheMessages
    ReceiverIsTold
    ArrivesInOrder
CHECK_DEADLOCK FALSE
