SPECIFICATION RequestPathSpec
CONSTANTS
    q1 = q1
    q2 = q2
    q3 = q3
    Queries = {q1, q2, q3}
    Asked = {q1, q2}
    Requests = {t1, t2}
    None = None
    Absent = Absent
    Similar <- MCSimilar
    popular_at = 2
    local_cache_size = 1
    remove_count = 1
    MaxWriting = 1
    ClientRequests = {t1, t2}
    Fractions = {f1, f2}
    requests_per_minute = 3
    burst = 2
    Window = 4
    Second = 2
    KeyMargin = 1
    MaxDelay = 1
    Horizon = 8
    MaxShared = 2
    bucket_capacity = 2
    bucket_rate = 2
    Minute = 4
    BucketHorizon = 9
    MaxSetBack = 2
    window_size = 2
    max_requests = 3
    CounterSecond = 2
    CounterHorizon = 12
SYMMETRY PathSymmetry
INVARIANTS
    TypeOK
    AnswersExpire
    NoDrift
    LocalIsPopular
    LocalBounded
    LimiterTypeOK
    NothingForgotten
    ExcessIsShared
    RetryAfterIsEnough
    LocalTypeOK
    BurstAndRate
    LockoutEnds
    NoBoundaryBurst
    RoomAfterRetry
