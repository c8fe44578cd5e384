----------------------------- MODULE MCRateLimiter -----------------------------
(***************************************************************************)
(* The limiters of rate_limiter.py side by side for TLC: the middleware    *)
(* with the limiter in redis ("redis"), the middleware without it ("local")*)
(* and SlidingWindowCounter ("counter").  A deployment has one of them,    *)
(* they share no state: Init chooses which one a behaviour is about, and   *)
(* the others stand still.                                                 *)
(***************************************************************************)
EXTENDS MCDistributedLimiter

CONSTANTS
    bucket_capacity, bucket_rate, Minute,           \* TokenBucket
    BucketHorizon, MaxSetBack,
    window_size, max_requests, CounterSecond,       \* SlidingWindowCounter
    CounterHorizon

VARIABLES
    mode,
    tokens, last_update, bucket_clock, set_back, bucket_admitted, refused_at,
    counters, counter_clock, counter_admitted, retry_at

bucketVars == <<tokens, last_update, bucket_clock, set_back, bucket_admitted, refused_at>>
counterVars == <<counters, counter_clock, counter_admitted, retry_at>>

Bucket == INSTANCE TokenBucket
            WITH capacity <- bucket_capacity, requests_per_minute <- bucket_rate,
                 clock <- bucket_clock, admitted <- bucket_admitted

Counter == INSTANCE SlidingWindowCounter
            WITH Second <- CounterSecond, clock <- counter_clock,
                 admitted <- counter_admitted

ASSUME LocalLimitersAssumption ==
    Bucket!BucketAssumption /\ Counter!CounterAssumption

RateLimiterInit ==
    /\ mode \in {"redis", "local", "counter"}
    /\ LimiterInit /\ Bucket!Init /\ Counter!Init

LocalStep ==
    \/ Bucket!Dispatch
    \/ Bucket!now < BucketHorizon /\ Bucket!Tick
    \/ set_back < MaxSetBack /\ Bucket!ClockSetBack

CounterStep ==
    \/ Counter!AllowRequest
    \/ counter_clock < CounterHorizon /\ Counter!Tick

RateLimiterNext ==
    /\ \/ mode = "redis" /\ MCLimiterNext /\ UNCHANGED <<bucketVars, counterVars>>
       \/ mode = "local" /\ LocalStep /\ UNCHANGED <<limiterVars, counterVars>>
       \/ mode = "counter" /\ CounterStep /\ UNCHANGED <<limiterVars, bucketVars>>
    /\ UNCHANGED mode

RateLimiterSpec ==
    RateLimiterInit /\ [][RateLimiterNext]_<<mode, limiterVars, bucketVars, counterVars>>

\* The type invariants of the two limiters in the process, with the token debt
\* bounded by what the clock was set back.
LocalTypeOK == Bucket!TypeOK /\ Counter!TypeOK

\* Through the bucket no client gets more than its burst and the rate allow.
BurstAndRate == Bucket!BurstAndRate

\* A client the bucket refuses is not locked out for longer than its 60 seconds
\* and what the clock was set back.
LockoutEnds == Bucket!LockoutEnds

\* The counter per second lets no window through that is over the limit.
NoBoundaryBurst == Counter!NoBoundaryBurst

\* Past the second that retry_after names there is room.
RoomAfterRetry == Counter!RoomAfterRetry
=============================================================================
