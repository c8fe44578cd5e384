---------------------------- MODULE CircuitBreaker ----------------------------
(***************************************************************************)
(* app/middleware/circuit_breaker.py: one breaker shared by every request  *)
(* of a worker process.                                                    *)
(*                                                                         *)
(* No block under self.lock awaits anything, so each is one atomic step of *)
(* the event loop; the await of func() between them is where other callers *)
(* run.  A caller is therefore admitted by one step and reports its        *)
(* outcome in a later one, when the circuit may be in any state.           *)
(*                                                                         *)
(* A definition Name_Variant is a plausible bug in Name, put in its place  *)
(* to see that a property notices; nothing else refers to it.              *)
(***************************************************************************)
EXTENDS Naturals, FiniteSets

CONSTANTS
    Callers,              \* the requests that may be in call() at once
    failure_threshold,
    recovery_timeout,     \* in ticks of the clock
    half_open_max_calls,
    recent_maxlen         \* deque(maxlen=10)

ASSUME BreakerAssumption ==
    /\ failure_threshold \in Nat \ {0}
    /\ recovery_timeout \in Nat
    /\ half_open_max_calls \in Nat \ {0}
    /\ recent_maxlen \in Nat \ {0}

VARIABLES
    state,            \* CircuitState
    failure_count,
    success_count,
    half_open_calls,
    recent_failures,  \* number of entries in the deque
    since_failure,    \* time.time() - last_failure_time, counted up to recovery_timeout
    admitted          \* ghost: per caller, the state its call was admitted in, or "none"

vars == <<state, failure_count, success_count, half_open_calls,
          recent_failures, since_failure, admitted>>

CircuitState == {"CLOSED", "OPEN", "HALF_OPEN"}

TypeOK ==
    /\ state \in CircuitState
    /\ failure_count \in Nat
    /\ success_count \in Nat
    /\ half_open_calls \in Nat
    /\ recent_failures \in 0 .. recent_maxlen
    /\ since_failure \in 0 .. recovery_timeout
    /\ admitted \in [Callers -> {"none", "CLOSED", "HALF_OPEN"}]

\* last_failure_time = 0 is the epoch: any recovery timeout has elapsed since.
Init ==
    /\ state = "CLOSED"
    /\ failure_count = 0
    /\ success_count = 0
    /\ half_open_calls = 0
    /\ recent_failures = 0
    /\ since_failure = recovery_timeout
    /\ admitted = [c \in Callers |-> "none"]

-----------------------------------------------------------------------------
StartProbe_KeepsSuccesses ==
    state' = "HALF_OPEN" /\ half_open_calls' = 0 /\ UNCHANGED success_count

StartProbe ==
    state' = "HALF_OPEN" /\ half_open_calls' = 0 /\ success_count' = 0

\* A call that meets an open circuit too early raises and changes nothing.
Refuses == state = "OPEN" /\ since_failure < recovery_timeout

\* The first locked block of call(), up to the await of func().
AdmitCall(c) ==
    /\ admitted[c] = "none" /\ ~ Refuses
    /\ \/ state = "OPEN" /\ StartProbe
       \/ state # "OPEN" /\ UNCHANGED <<state, half_open_calls, success_count>>
    /\ admitted' = [admitted EXCEPT ![c] = state']
    /\ UNCHANGED <<failure_count, recent_failures, since_failure>>

Reset_KeepsFailureCount ==
    /\ state' = "CLOSED"
    /\ half_open_calls' = 0
    /\ recent_failures' = 0
    /\ success_count' = 0
    /\ UNCHANGED failure_count

Reset ==
    /\ state' = "CLOSED"
    /\ failure_count' = 0
    /\ half_open_calls' = 0
    /\ recent_failures' = 0
    /\ success_count' = 0

ProbeDone_OffByOne == success_count >= half_open_max_calls

ProbeDone == success_count + 1 >= half_open_max_calls

CountSuccess_Forgotten == UNCHANGED success_count

CountSuccess == success_count' = success_count + 1

\* func() returned: the second locked block of call().
Succeed(c) ==
    /\ admitted[c] # "none"
    /\ admitted' = [admitted EXCEPT ![c] = "none"]
    /\ \/ state = "HALF_OPEN" /\ ProbeDone /\ Reset
       \/ /\ state = "HALF_OPEN" /\ ~ ProbeDone
          /\ CountSuccess
          /\ UNCHANGED <<state, failure_count, half_open_calls, recent_failures>>
       \/ /\ state = "CLOSED"
          /\ failure_count' = IF failure_count > 0 THEN failure_count - 1 ELSE 0
          /\ UNCHANGED <<state, success_count, half_open_calls, recent_failures>>
       \/ /\ state = "OPEN"
          /\ UNCHANGED <<state, failure_count, success_count, half_open_calls,
                         recent_failures>>
    /\ UNCHANGED since_failure

Trips_OffByOne ==
    \/ state = "CLOSED" /\ failure_count >= failure_threshold
    \/ state = "HALF_OPEN"

\* A failure opens a closed circuit at the threshold, a half-open one at once.
Trips ==
    \/ state = "CLOSED" /\ failure_count + 1 >= failure_threshold
    \/ state = "HALF_OPEN"

AppendFailure_Unbounded == recent_failures' = recent_failures + 1

AppendFailure ==
    recent_failures' = IF recent_failures < recent_maxlen
                         THEN recent_failures + 1 ELSE recent_failures

RecordFailure ==
    /\ failure_count' = failure_count + 1
    /\ AppendFailure
    /\ \/ Trips /\ state' = "OPEN" /\ since_failure' = 0
       \/ ~ Trips /\ UNCHANGED <<state, since_failure>>
    /\ UNCHANGED <<success_count, half_open_calls>>

\* func() raised an Exception, which call() records and raises again.
Fail(c) ==
    /\ admitted[c] # "none"
    /\ admitted' = [admitted EXCEPT ![c] = "none"]
    /\ RecordFailure

\* The request was cancelled while func() ran: CancelledError is no Exception,
\* so neither locked block runs.
Cancel(c) ==
    /\ admitted[c] # "none"
    /\ admitted' = [admitted EXCEPT ![c] = "none"]
    /\ UNCHANGED <<state, failure_count, success_count, half_open_calls,
                   recent_failures, since_failure>>

\* The clock; past recovery_timeout no condition of the code tells times apart.
Tick ==
    /\ since_failure < recovery_timeout
    /\ since_failure' = since_failure + 1
    /\ UNCHANGED <<state, failure_count, success_count, half_open_calls,
                   recent_failures, admitted>>

Finish(c) == Succeed(c) \/ Fail(c) \/ Cancel(c)

Next == Tick \/ \E c \in Callers : AdmitCall(c) \/ Finish(c)

Spec == Init /\ [][Next]_vars

\* Time passes, and func() is bounded by the client's timeout and its three
\* attempts, so a call ends.
Fairness ==
    /\ WF_vars(Tick)
    /\ \A c \in Callers : WF_vars(Finish(c))

FairSpec == Spec /\ Fairness

-----------------------------------------------------------------------------
\* A closed circuit is always one failure short of the threshold: no order in
\* which late results of several callers arrive leaves it closed with the
\* failures that should have opened it (the test of _record_failure is on the
\* count, which calls admitted before the trip go on raising while it is open).
ClosedBelowThreshold == state = "CLOSED" => failure_count < failure_threshold

\* The count that trips the breaker is explained by failures the diagnostics
\* deque holds, until the deque is full: _reset clears both, a success only
\* lowers the count, and no path raises the one without the other.
RecentExplainsCount ==
    recent_failures = recent_maxlen \/ failure_count <= recent_failures

\* While it probes, the circuit still misses a success: the one that makes
\* half_open_max_calls closes it in the same locked block.
ProbeUnfinished == state = "HALF_OPEN" => success_count < half_open_max_calls

\* The breaker keeps the promises of BreakerProtocol under every interleaving
\* of admissions and late results: it is probed only after a full cool-down
\* since the last trip, late failures do not extend the cool-down of an open
\* circuit but end a probe, and a half-open one closes only on a run of successes
\* with no failure between.  Late successes are in that run, as the code has it;
\* that test requests alone should be is MCTestRequests's ClosedByTestRequests.
Protocol == INSTANCE BreakerProtocol WITH
    mode <- state,
    cooldown <- since_failure,
    streak <- IF state = "HALF_OPEN" THEN success_count ELSE 0

ImplementsProtocol == Protocol!Spec

ProbeSucceeds == state = "HALF_OPEN" /\ \E c \in Callers : Succeed(c)

\* Once calls have stopped failing, while clients go on calling and do not give
\* up every call that could probe, the circuit closes and stays closed: no count
\* or timer left behind by an outage keeps it open, and no late result opens it
\* again.
RecoversForGood ==
    /\ <>[][\A c \in Callers : ~ Fail(c)]_vars
    /\ WF_vars(\E c \in Callers : AdmitCall(c)) /\ SF_vars(ProbeSucceeds)
    => <>[](state = "CLOSED")

\* "limited requests allowed", "a few test requests are allowed through": at
\* most half_open_max_calls probes are in flight while the circuit is half open
\* (circuit_breaker.py:13 and 28, with the half_open_calls counter for it).
ProbeLimit ==
    state = "HALF_OPEN" =>
        Cardinality({c \in Callers : admitted[c] = "HALF_OPEN"}) <= half_open_max_calls
=============================================================================
