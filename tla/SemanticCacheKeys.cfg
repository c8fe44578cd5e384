SPECIFICATION MCSpec
CONSTANTS
    q1 = q1
    q2 = q2
    q3 = q3
    Queries = {q1, q2, q3}
    Asked = {q1, q2}
    Requests = {t1}
    None = None
    Absent = Absent
    Similar <- MCSimilar
    popular_at = 2
    local_cache_size = 1
    remove_count = 1
    MaxWriting = 1
INVARIANT
    EveryKeyExpires
