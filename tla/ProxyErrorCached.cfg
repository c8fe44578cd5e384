SPECIFICATION MCSpec
CONSTANTS
    Clients = {c1, c2}
    Prompts = {p1, p2}
    max_attempts = 3
    failure_threshold = 2
    recovery_timeout = 1
    half_open_max_calls = 1
    recent_maxlen = 2
    MaxFailures = 2
    BatchClients = {c1, c2}
INVARIANT
    OnlyAnswersCached
