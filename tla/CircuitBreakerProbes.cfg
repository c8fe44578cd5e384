SPECIFICATION MCSpec
CONSTANTS
    Callers = {c1, c2, c3}
    failure_threshold = 2
    recovery_timeout = 2
    half_open_max_calls = 2
    recent_maxlen = 3
    MaxFailures = 5
INVARIANT
    ProbeLimit
