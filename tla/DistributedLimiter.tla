--------------------------- MODULE DistributedLimiter ---------------------------
(***************************************************************************)
(* app/middleware/rate_limiter.py: RateLimitMiddleware with the limiter in *)
(* redis, for the requests of one client over all workers and replicas.    *)
(*                                                                         *)
(* The script is atomic, but the time it works with is read by the worker  *)
(* before it is sent: scripts run in another order than their times, up to *)
(* MaxDelay late.  One clock stands for those of all replicas: one that is *)
(* behind looks like a late script, none is ahead.  A tick is some         *)
(* fraction of a second.  An instant is the 0.1 ms a member of the sorted  *)
(* set is named after: the script's math.random() is seeded alike for      *)
(* every script, so requests of one instant share one member.              *)
(* Definitions named Name_Variant are plausible bugs, put in Name's place  *)
(* to see that a property notices.                                         *)
(***************************************************************************)
EXTENDS Integers, FiniteSets

CONSTANTS
    ClientRequests,        \* requests of the client that may be in the middleware
    Fractions,             \* the instants of a tick
    requests_per_minute,
    burst,
    Window,                \* the 60 s, in ticks
    Second,                \* one second, in ticks
    KeyMargin,             \* the 10 s by which the key outlives the window, in ticks
    MaxDelay               \* the longest a script is under way, in ticks

ASSUME LimiterAssumption ==
    /\ requests_per_minute \in Nat \ {0} /\ burst \in Nat \ {0}
    /\ Window \in Nat \ {0} /\ Second \in Nat \ {0}
    /\ KeyMargin \in Nat /\ MaxDelay \in Nat
    /\ MaxDelay < Window

VARIABLES
    clock,
    zset,        \* members of the sorted set; the score of one is its tick
    expires_at,  \* when redis drops the key
    sent,        \* per request, the instant its script carries, or NotSent
    admitted     \* history: the requests let through, those of one instant numbered

limiterVars == <<clock, zset, expires_at, sent, admitted>>

Instants == [tick : Nat, fraction : Fractions]

Admissions == [tick : Nat, fraction : Fractions, nth : Nat \ {0}]

InstantOf(a) == [tick |-> a.tick, fraction |-> a.fraction]

NotSent == [tick |-> -1]

Limit == IF burst < requests_per_minute THEN burst ELSE requests_per_minute

LimiterTypeOK ==
    /\ clock \in Nat
    /\ zset \subseteq Instants /\ IsFiniteSet(zset) /\ Cardinality(zset) <= Limit
    /\ expires_at \in Nat
    /\ sent \in [ClientRequests -> Instants \cup {NotSent}]
    /\ admitted \subseteq Admissions /\ IsFiniteSet(admitted)

LimiterInit ==
    /\ clock = 0
    /\ zset = {} /\ expires_at = 0
    /\ sent = [r \in ClientRequests |-> NotSent]
    /\ admitted = {}

-----------------------------------------------------------------------------
(* The script                                                               *)

Trim_Exclusive(z, now) == {m \in z : m.tick >= now - Window}

\* ZREMRANGEBYSCORE key 0 now-window: the bound itself is removed.
Trim(z, now) == {m \in z : m.tick > now - Window}

HasRoom_OffByOne(z) == Cardinality(z) <= burst /\ Cardinality(z) <= requests_per_minute

\* First the burst cap, then the sustained rate, over the same window.
HasRoom(z) == Cardinality(z) < burst /\ Cardinality(z) < requests_per_minute

Oldest(z) == CHOOSE t \in {m.tick : m \in z} : \A m \in z : t <= m.tick

\* math.ceil of the rest of the oldest entry's window, in seconds.
RetryAfter(z, now) == (Window - (now - Oldest(z)) + Second - 1) \div Second

KeyLife_MarginOnly == KeyMargin

KeyLife == Window + KeyMargin

\* The script run with an instant: what it leaves, and whether it admits.
RunScript(instant) ==
    LET kept == Trim(zset, instant.tick)
    IN  \/ /\ HasRoom(kept)
           /\ zset' = kept \cup {instant}
           /\ expires_at' = clock + KeyLife
        \/ /\ ~ HasRoom(kept)
           /\ zset' = kept
           /\ UNCHANGED expires_at

Admits(instant) == HasRoom(Trim(zset, instant.tick))

\* The next request of an instant to be let through.
Admission(instant) ==
    [tick |-> instant.tick, fraction |-> instant.fraction,
     nth |-> Cardinality({a \in admitted : InstantOf(a) = instant}) + 1]

-----------------------------------------------------------------------------
\* dispatch() reads the time and sends the script.
Send(r, f) ==
    /\ sent[r] = NotSent
    /\ sent' = [sent EXCEPT ![r] = [tick |-> clock, fraction |-> f]]
    /\ UNCHANGED <<clock, zset, expires_at, admitted>>

\* redis runs it; the request goes on to its handler or is answered 429.
Check(r) ==
    /\ sent[r] # NotSent
    /\ RunScript(sent[r])
    /\ admitted' = IF Admits(sent[r]) THEN admitted \cup {Admission(sent[r])} ELSE admitted
    /\ sent' = [sent EXCEPT ![r] = NotSent]
    /\ UNCHANGED clock

\* eval() raised: the request fails, whether or not the script was run.
CheckFails(r) ==
    /\ sent[r] # NotSent
    /\ RunScript(sent[r]) \/ UNCHANGED <<zset, expires_at>>
    /\ sent' = [sent EXCEPT ![r] = NotSent]
    /\ UNCHANGED <<clock, admitted>>

KeyExpires ==
    /\ zset # {} /\ clock >= expires_at
    /\ zset' = {}
    /\ UNCHANGED <<clock, expires_at, sent, admitted>>

\* No script is under way for longer than MaxDelay, and a due key is gone.
Tick ==
    /\ \A r \in ClientRequests : sent[r] = NotSent \/ clock < sent[r].tick + MaxDelay
    /\ clock' = clock + 1
    /\ UNCHANGED <<zset, expires_at, sent, admitted>>

LimiterNext ==
    \/ \E r \in ClientRequests : \/ \E f \in Fractions : Send(r, f)
                           \/ Check(r) \/ CheckFails(r)
    \/ KeyExpires \/ Tick

LimiterSpec == LimiterInit /\ [][LimiterNext]_limiterVars

-----------------------------------------------------------------------------
\* Whatever is trimmed by scripts with later times and whenever the key expires,
\* redis still knows the instant of every admission of the last window.
NothingForgotten ==
    \A a \in admitted : a.tick > clock - Window => InstantOf(a) \in zset

\* An interval from t on that is shorter than the window by MaxDelay.
Within(t) == {a \in admitted : t <= a.tick /\ a.tick < t + Window - MaxDelay}

\* Requests let through in the instant of an earlier one, whose member they share.
Shared == {a \in admitted : a.nth > 1}

\* In whatever order scripts arrive, on whichever replica: an interval sees more
\* requests admitted than the limit only by those that share a member.
ExcessIsShared ==
    \A t \in 0 .. clock : Cardinality(Within(t) \ Shared) <= Limit

\* "Allows accurate sliding window counting across multiple app replicas"
\* (rate_limiter.py:95-97): no interval sees more requests than the limit.
EveryRequestCounted == \A t \in 0 .. clock : Cardinality(Within(t)) <= Limit

\* A client that is told to retry after s seconds and is alone in doing so is
\* admitted then: the oldest entry is out of the window, and one is enough.
RetryAfterIsEnough ==
    \A now \in clock - MaxDelay .. clock :
        LET kept == Trim(zset, now)
        IN  (now >= 0 /\ ~ HasRoom(kept)) =>
                HasRoom(Trim(kept, now + Second * RetryAfter(kept, now)))

\* "rate_limit_burst: max requests allowed in a short spike above the sustained
\* rate" (config.py:33): a request is refused only to a client that has used up
\* its requests_per_minute, or burst of them within the last second.
RefusedOnlyInSpike ==
    \A r \in ClientRequests :
        (sent[r] # NotSent /\ ~ Admits(sent[r])) =>
            LET kept == Trim(zset, sent[r].tick)
            IN  \/ Cardinality(kept) >= requests_per_minute
                \/ Cardinality({m \in kept : m.tick > sent[r].tick - Second}) >= burst
=============================================================================
