-------------------------- MODULE MCDistributedLimiter --------------------------
(***************************************************************************)
(* A small limiter for TLC: two requests at a time, up to a horizon at     *)
(* which the first window and the key of its requests are past.            *)
(***************************************************************************)
EXTENDS DistributedLimiter, TLC

CONSTANTS Horizon,
          MaxShared   \* requests of one instant

\* The requests of an instant, on their way or let through.
Sharing(i) ==
    Cardinality({r \in ClientRequests : sent[r] = i})
        + Cardinality({a \in admitted : InstantOf(a) = i})

MCSend(r, f) == Sharing([tick |-> clock, fraction |-> f]) < MaxShared /\ Send(r, f)

MCLimiterTick == clock < Horizon /\ Tick

MCLimiterNext ==
    \/ \E r \in ClientRequests : \/ \E f \in Fractions : MCSend(r, f)
                                 \/ Check(r) \/ CheckFails(r)
    \/ KeyExpires \/ MCLimiterTick

MCLimiterSpec == LimiterInit /\ [][MCLimiterNext]_limiterVars

LimiterSymmetry == Permutations(ClientRequests) \cup Permutations(Fractions)
=============================================================================
