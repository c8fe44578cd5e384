--------------------------- MODULE MCCircuitBreaker ---------------------------
(***************************************************************************)
(* A small breaker for TLC: the failures recorded since the last reset are *)
(* bounded, everything else is finite by itself.                           *)
(***************************************************************************)
EXTENDS CircuitBreaker

CONSTANT MaxFailures   \* no failure is recorded once failure_count is there

MCFail(c) == failure_count < MaxFailures /\ Fail(c)

MCFinish(c) == Succeed(c) \/ MCFail(c) \/ Cancel(c)

MCNext == Tick \/ \E c \in Callers : AdmitCall(c) \/ MCFinish(c)

MCSpec == Init /\ [][MCNext]_vars
=============================================================================
