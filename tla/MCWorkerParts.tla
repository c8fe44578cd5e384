----------------------------- MODULE MCWorkerParts -----------------------------
(***************************************************************************)
(* Small parts of a worker for TLC, the circuit breaker among them: three  *)
(* texts, of which one is twice in a batch, and a start-up that warms the  *)
(* cache with one of two prompts.  Init chooses whether a behaviour is     *)
(* about the breaker or about one of the other parts.                      *)
(***************************************************************************)
EXTENDS WorkerParts, MCCircuitBreaker

CONSTANTS a, b, c, p1

VARIABLE focus

\* A batch of two chunks with a text twice, and one that shares texts with it.
MCInputs == {<<a, b, a, c>>, <<c, b>>}

MCWarmupQueries == <<p1>>

\* Where the breaker is chosen, one initial state of the other parts is enough.
WorkerInit ==
    /\ focus \in {"breaker", "parts"}
    /\ Init /\ PartsInit
    /\ focus = "breaker" => part = "metrics"

WorkerNext ==
    /\ \/ focus = "breaker" /\ MCNext /\ UNCHANGED partsVars
       \/ focus = "parts" /\ PartsNext /\ UNCHANGED vars
    /\ UNCHANGED focus

\* CircuitBreaker's fairness, within the bound on its failures.
BreakerFairness ==
    /\ WF_vars(focus = "breaker" /\ Tick)
    /\ \A caller \in Callers : WF_vars(focus = "breaker" /\ MCFinish(caller))

WorkerSpec ==
    /\ WorkerInit /\ [][WorkerNext]_<<focus, vars, partsVars>>
    /\ BreakerFairness /\ Embedding!Fairness /\ Start!Fairness
=============================================================================
