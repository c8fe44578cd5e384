------------------------------ MODULE TokenBucket ------------------------------
(***************************************************************************)
(* app/middleware/rate_limiter.py: TokenBucket, and RateLimitMiddleware    *)
(* with one bucket per client, its mode without a limiter in app.state.    *)
(*                                                                         *)
(* consume() awaits nothing under its lock, so a request is one step.  The *)
(* bucket measures time with time.time(), which may be set back.  That it  *)
(* is put forward is left out: the time it skips would be worth tokens.    *)
(* Definitions named Name_Variant are plausible bugs, put in Name's place  *)
(* to see that a property notices.                                         *)
(***************************************************************************)
EXTENDS Integers, Sequences

CONSTANTS
    capacity,             \* rate_limit_burst
    requests_per_minute,  \* rate_limit_per_minute
    Minute                \* one minute, in ticks of the clock

BucketAssumption ==
    /\ capacity \in Nat \ {0}
    /\ requests_per_minute \in Nat \ {0}
    /\ Minute \in Nat \ {0}

VARIABLES
    tokens,       \* in Minute-ths of a token, so that the refill is exact
    last_update,
    clock,        \* what time.time() says
    set_back,     \* history: by how much the clock was ever set back
    admitted,     \* history: when requests were let through, in true time
    refused_at    \* history: when the last one was refused, unless one was
                  \* admitted since; -1 then

vars == <<tokens, last_update, clock, set_back, admitted, refused_at>>

\* True time, since the clock is only ever set back.
now == clock + set_back

\* A clock set back takes away tokens as its time passes a second time.
TypeOK ==
    /\ tokens \in - requests_per_minute * set_back .. capacity * Minute
    /\ last_update \in clock - now .. now
    /\ clock \in Int /\ set_back \in Nat
    /\ admitted \in Seq(0 .. now)
    /\ refused_at \in -1 .. now

Init ==
    /\ tokens = capacity * Minute
    /\ last_update = 0 /\ clock = 0 /\ set_back = 0
    /\ admitted = <<>> /\ refused_at = -1

-----------------------------------------------------------------------------
Refilled_Uncapped == tokens + (clock - last_update) * requests_per_minute

\* min(capacity, tokens + elapsed * rate); elapsed may be negative.
Refilled ==
    LET sum == tokens + (clock - last_update) * requests_per_minute
    IN  IF sum < capacity * Minute THEN sum ELSE capacity * Minute

Allowed == Refilled >= Minute

LeftOver_Charged == Refilled - Minute

LeftOver == IF Allowed THEN Refilled - Minute ELSE Refilled

\* dispatch() in local mode: consume(), then the handler or a 429 that names
\* 60 seconds.
Dispatch ==
    /\ tokens' = LeftOver
    /\ last_update' = clock
    /\ IF Allowed
         THEN admitted' = Append(admitted, now) /\ refused_at' = -1
         ELSE refused_at' = now /\ UNCHANGED admitted
    /\ UNCHANGED <<clock, set_back>>

Tick ==
    /\ clock' = clock + 1
    /\ UNCHANGED <<tokens, last_update, set_back, admitted, refused_at>>

\* The clock is corrected by one tick.
ClockSetBack ==
    /\ clock' = clock - 1
    /\ set_back' = set_back + 1
    /\ UNCHANGED <<tokens, last_update, admitted, refused_at>>

Next == Dispatch \/ Tick \/ ClockSetBack

Spec == Init /\ [][Next]_vars

-----------------------------------------------------------------------------
\* "Classic token bucket": in no stretch of true time is a client let through
\* more often than its burst and what the rate adds, however often the clock is set
\* back.
BurstAndRate ==
    \A i, j \in DOMAIN admitted :
        i <= j => (j - i + 1) * Minute
                    <= capacity * Minute + requests_per_minute * (admitted[j] - admitted[i])

\* The 60 seconds a refused client is told to wait are enough, apart from the
\* time the clock was set back, however often it is refused in between.
LockoutEnds ==
    (refused_at # -1 /\ now >= refused_at + Minute + set_back) => Allowed
=============================================================================
