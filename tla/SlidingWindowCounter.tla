------------------------- MODULE SlidingWindowCounter -------------------------
(***************************************************************************)
(* app/middleware/rate_limiter.py: SlidingWindowCounter, a limiter that    *)
(* counts requests per second of the clock.  A request may come at any     *)
(* tick of a second, int(time.time()) tells only the second.               *)
(* Definitions named Name_Variant are plausible bugs, put in Name's place  *)
(* to see that a property notices.                                         *)
(***************************************************************************)
EXTENDS Integers, Sequences, FiniteSets

CONSTANTS
    window_size,    \* in seconds
    max_requests,
    Second          \* one second, in ticks

CounterAssumption ==
    /\ window_size \in Nat \ {0}
    /\ max_requests \in Nat \ {0}
    /\ Second \in Nat \ {0}

VARIABLES
    counters,  \* second -> requests let through in it
    clock,     \* in ticks
    admitted,  \* history: the ticks at which requests were let through
    retry_at   \* history: the second the last refused request was told to come
               \* back at, unless one was admitted since; -1 then

vars == <<counters, clock, admitted, retry_at>>

current == clock \div Second

TypeOK ==
    /\ DOMAIN counters \subseteq 0 .. current
    /\ \A s \in DOMAIN counters : counters[s] \in 1 .. max_requests
    /\ clock \in Nat
    /\ admitted \in Seq(0 .. clock)
    /\ retry_at \in {-1} \cup 0 .. current + window_size

Init ==
    /\ counters = <<>>
    /\ clock = 0 /\ admitted = <<>> /\ retry_at = -1

-----------------------------------------------------------------------------
InWindow_Exclusive(s) == s > current - window_size

\* Only what is older than window_start is dropped.
InWindow(s) == s >= current - window_size

Pruned_Never == counters

Pruned == [s \in {t \in DOMAIN counters : InWindow(t)} |-> counters[s]]

\* sum(counters.values()): as many as there are pairs of a second and a number up
\* to its count.
Total == Cardinality(UNION {{s} \X (1 .. Pruned[s]) : s \in DOMAIN Pruned})

HasRoom == Total < max_requests

Counted ==
    [s \in DOMAIN Pruned \cup {current} |->
        (IF s \in DOMAIN Pruned THEN Pruned[s] ELSE 0) + (IF s = current THEN 1 ELSE 0)]

Oldest_Newest == CHOOSE s \in DOMAIN Pruned : \A t \in DOMAIN Pruned : t <= s

Oldest == CHOOSE s \in DOMAIN Pruned : \A t \in DOMAIN Pruned : s <= t

\* (True, 0), or False with what is left of the oldest bucket's window.
AllowRequest ==
    /\ \/ /\ HasRoom
          /\ counters' = Counted
          /\ admitted' = Append(admitted, clock)
          /\ retry_at' = -1
       \/ /\ ~ HasRoom
          /\ counters' = Pruned
          /\ retry_at' = Oldest + window_size
          /\ UNCHANGED admitted
    /\ UNCHANGED clock

Tick ==
    /\ clock' = clock + 1
    /\ UNCHANGED <<counters, admitted, retry_at>>

Next == AllowRequest \/ Tick

Spec == Init /\ [][Next]_vars

-----------------------------------------------------------------------------
\* "It doesn't allow a full burst right at the window boundary": no interval of
\* window_size seconds, beginning at any tick, sees more than max_requests,
\* although only seconds are remembered.
NoBoundaryBurst ==
    \A i, j \in DOMAIN admitted :
        (i <= j /\ admitted[j] - admitted[i] <= window_size * Second)
            => j - i + 1 <= max_requests

\* Once the second that was named to a refused client is past there is room: what
\* is older than the window stays counted for nobody, however often it asked in
\* between.  In the named second itself the oldest bucket still counts, so that
\* retry_after is one second short of what its comment says.
RoomAfterRetry ==
    (retry_at # -1 /\ current > retry_at) => HasRoom
=============================================================================
