--------------------------- MODULE BreakerProtocol ---------------------------
(***************************************************************************)
(* What a circuit breaker promises, whatever the calls in flight are: when *)
(* it may trip, how long it must then refuse calls, and how many successes *)
(* it wants reported to it, with no failure between, before it trusts the  *)
(* service again.  It does not ask of a success which call it ends: one    *)
(* that was admitted before the trip counts like a test request.           *)
(* CircuitBreaker implements it.                                           *)
(***************************************************************************)
EXTENDS Naturals

CONSTANTS recovery_timeout,     \* time units an open circuit refuses calls
          half_open_max_calls   \* successes that close a half-open circuit

VARIABLES mode,       \* "CLOSED", "OPEN" or "HALF_OPEN"
          cooldown,   \* time since the last trip, counted up to recovery_timeout
          streak      \* successes reported since the probe began, no failure between

vars == <<mode, cooldown, streak>>

Init == mode = "CLOSED" /\ cooldown = recovery_timeout /\ streak = 0

\* A failure opens the circuit and starts the cool-down from zero.
Trip == /\ mode \in {"CLOSED", "HALF_OPEN"}
        /\ mode' = "OPEN"
        /\ cooldown' = 0
        /\ streak' = 0

\* Only a circuit that has cooled down is probed, and the streak starts afresh.
Probe == /\ mode = "OPEN" /\ cooldown = recovery_timeout
         /\ mode' = "HALF_OPEN"
         /\ streak' = 0
         /\ UNCHANGED cooldown

\* A success is reported while probing, by whichever call: the last one of the
\* streak closes the circuit.
Good == /\ mode = "HALF_OPEN"
        /\ IF streak + 1 >= half_open_max_calls
             THEN mode' = "CLOSED" /\ streak' = 0
             ELSE streak' = streak + 1 /\ UNCHANGED mode
        /\ UNCHANGED cooldown

Elapse == /\ cooldown < recovery_timeout
          /\ cooldown' = cooldown + 1
          /\ UNCHANGED <<mode, streak>>

Next == Trip \/ Probe \/ Good \/ Elapse

Spec == Init /\ [][Next]_vars
=============================================================================
