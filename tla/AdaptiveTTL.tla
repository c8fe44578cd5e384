------------------------------ MODULE AdaptiveTTL ------------------------------
(***************************************************************************)
(* app/cache/ttl_strategies.py: what AdaptiveTTLStrategy, which nothing    *)
(* uses yet, learns.  get_optimal_ttl, which reads the length of the list  *)
(* that is kept, is left out.  Timestamps are those of a clock that is not *)
(* set back.                                                               *)
(* Definitions named Name_Variant are plausible bugs, put in Name's place  *)
(* to see that a property notices.                                         *)
(***************************************************************************)
EXTENDS Positions

CONSTANTS
    Keys,
    learning_window,
    MaxAccesses   \* accesses of a key that are followed

AdaptiveAssumption ==
    learning_window \in Nat \ {0} /\ MaxAccesses \in Nat

VARIABLES
    access_patterns,  \* per key, the timestamps that are kept
    access_clock,     \* time.time()
    accesses          \* history: all the timestamps of each key

vars == <<access_patterns, access_clock, accesses>>

TypeOK ==
    /\ access_patterns \in [Keys -> Seq(0 .. access_clock)]
    /\ access_clock \in Nat
    /\ accesses \in [Keys -> Seq(0 .. access_clock)]
    /\ \A k \in Keys : Len(access_patterns[k]) <= Len(accesses[k])

\* A key that is not in the dict has no timestamps.
Init ==
    /\ access_patterns = [k \in Keys |-> <<>>]
    /\ access_clock = 0
    /\ accesses = [k \in Keys |-> <<>>]

\* t > cutoff, with cutoff = timestamp - learning_window
Learned_Inclusive(t, timestamp) == t + learning_window >= timestamp

Learned(t, timestamp) == t + learning_window > timestamp

RecordAccess(k) ==
    /\ Len(accesses[k]) < MaxAccesses
    /\ LET recorded == Append(access_patterns[k], access_clock)
           learned == {i \in DOMAIN recorded : Learned(recorded[i], access_clock)}
       IN  access_patterns' = [access_patterns EXCEPT ![k] = Selected(recorded, learned)]
    /\ accesses' = [accesses EXCEPT ![k] = Append(@, access_clock)]
    /\ UNCHANGED access_clock

Tick == access_clock' = access_clock + 1 /\ UNCHANGED <<access_patterns, accesses>>

\* A new worker learns from the beginning.
Restart ==
    /\ access_patterns' = [k \in Keys |-> <<>>]
    /\ access_clock' = 0
    /\ accesses' = [k \in Keys |-> <<>>]

Next == Tick \/ Restart \/ \E k \in Keys : RecordAccess(k)

Spec == Init /\ [][Next]_vars

-----------------------------------------------------------------------------
\* "Maintains a rolling 1-hour window of access timestamps per key", and "prunes
\* entries older than the learning window" (ttl_strategies.py:73 and 83): pruning at
\* each access, of what earlier ones have left, keeps all the accesses of the window
\* that ends with the last one, in their order, and no other.
PatternsAreWindow ==
    \A k \in Keys : accesses[k] # <<>> =>
        LET all == accesses[k]
            n == Len(all)
            older == {i \in DOMAIN all : all[i] + learning_window <= all[n]}
        IN  access_patterns[k] = SubSeq(all, Cardinality(older) + 1, n)
=============================================================================
