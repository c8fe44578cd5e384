SPECIFICATION MCWriterSpec
CONSTANTS
    Keys = {k1, k2}
    Responses = {r1, r2}
    NoResponse = NoResponse
    SetTasks = {t1, t2}
    NoWrite = NoWrite
    queue_maxsize = 2
    pipeline_batch_size = 2
    FlushInterval = 1
    GetTimeout = 2
    Backoff = 3
    MaxAccepted = 3
    MaxFailedStores = 2
    SomeKey = k1
    SomeResponse = r1
INVARIANT
    FlushedAfterInactivity
CHECK_DEADLOCK FALSE
