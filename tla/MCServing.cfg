SPECIFICATION ServingSpec
CONSTANTS
    Clients = {c1, c2}
    Prompts = {p1}
    max_attempts = 3
    failure_threshold = 2
    recovery_timeout = 1
    half_open_max_calls = 1
    recent_maxlen = 2
    MaxFailures = 2
    BatchClients = {c1, c2}
    Keys = {k1, k2}
    Responses = {r1, r2}
    NoResponse = NoResponse
    SetTasks = {t1, t2}
    NoWrite = NoWrite
    queue_maxsize = 2
    pipeline_batch_size = 2
    FlushInterval = 1
    GetTimeout = 2
    Backoff = 3
    MaxAccepted = 3
    MaxFailedStores = 2
    SomeKey = k1
    SomeResponse = r1
INVARIANTS
    TypeOK
    WriterTypeOK
    NothingLost
    FlushedWasApplied
    BatchBounded
    AttemptIsPrompt
PROPERTIES
    BreakerInUse
    EveryRequestEnds
    OutageOpensBreaker
    ErrorsForgotten
    ImplementsOrderedStore
    SettlesWhenQuiet
CHECK_DEADLOCK FALSE
