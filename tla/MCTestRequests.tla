---------------------------- MODULE MCTestRequests ----------------------------
(***************************************************************************)
(* The small breaker with what its test requests have shown: those are the *)
(* calls a half-open circuit has admitted, as against calls it admitted    *)
(* while it was closed and whose results are late.                         *)
(***************************************************************************)
EXTENDS MCCircuitBreaker

\* History: a test request has succeeded since the circuit was last probed, or it
\* was not probed yet.
VARIABLE tested

TestInit == Init /\ tested = TRUE

TestSucceeds == state = "HALF_OPEN" /\ \E c \in Callers : admitted[c] = state /\ Succeed(c)

TestNext ==
    /\ MCNext
    /\ tested' = \/ TestSucceeds
                 \/ tested /\ ~ (state = "OPEN" /\ state' = "HALF_OPEN")

TestSpec == TestInit /\ [][TestNext]_<<vars, tested>>

\* "allow a small number of test requests through (HALF_OPEN).  If they succeed,
\* close the circuit" (circuit_breaker.py:21-23): once it was probed the circuit is
\* closed only if a test request has succeeded.
ClosedByTestRequests == state = "CLOSED" => tested
=============================================================================
