SPECIFICATION WorkerSpec
CONSTANTS
    a = a
    b = b
    c = c
    Texts = {a, b, c}
    Inputs <- MCInputs
    Embeddings = {u}
    Batches = {m}
    None = None
    cache_size = 2
    remove_count = 1
    max_attempts = 2
    max_concurrent = 2
    batch_size = 3
    Workers = {w1, w2, w3}
    p1 = p1
    Prompts = {p1, p2}
    WarmupQueries <- MCWarmupQueries
    Requests = {r1, r2}
    MaxLookups = 2
    MaxWrites = 1
    HitCounts = {0, 4, 5, 20, 21, 50, 51, 100, 101}
    QueryLengths = {49, 50, 200, 201}
    BaseTTLs = {3600, 28800}
    Hours = {3, 8, 9, 17, 18, 23}
    Keys = {k1}
    learning_window = 3
    MaxAccesses = 7
    AccessHorizon = 8
    Callers = {c1, c2, c3}
    failure_threshold = 2
    recovery_timeout = 2
    half_open_max_calls = 2
    recent_maxlen = 3
    MaxFailures = 5
INVARIANT
    NightIsMultiplied
