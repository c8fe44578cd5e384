SPECIFICATION MCLimiterSpec
CONSTANTS
    ClientRequests = {r1, r2}
    Fractions = {f1, f2}
    requests_per_minute = 3
    burst = 2
    Window = 4
    Second = 2
    KeyMargin = 1
    MaxDelay = 1
    Horizon = 8
    MaxShared = 2
INVARIANT
    EveryRequestCounted
