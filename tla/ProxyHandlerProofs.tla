-------------------------- MODULE ProxyHandlerProofs --------------------------
(***************************************************************************)
(* ProxyHandler for any clients, prompts and numbers of attempts: its      *)
(* type, that it uses the breaker as CircuitBreaker describes, and what is *)
(* proved of the breaker carried over.                                     *)
(***************************************************************************)
EXTENDS ProxyHandler, TLAPS

BreakerProofs == INSTANCE CircuitBreakerProofs WITH Callers <- Clients

-----------------------------------------------------------------------------
(* The breaker in the proxy.                                                *)

\* Every step of the proxy is a step of its breaker or leaves it alone.
LEMMA NextUsesBreaker == [Next]_vars => [Breaker!Next]_(Breaker!vars)
<1> SUFFICES ASSUME [Next]_vars PROVE Breaker!Next \/ UNCHANGED breaker
  BY DEF breaker, Breaker!vars
<1>1. CASE Background
  BY <1>1 DEF Background, SetStores, SetFails, Expire, OllamaChanges, ClientsTurnPatient,
     Tick, Breaker!Next
<1>2. ASSUME NEW c \in Clients, Begin(c) PROVE UNCHANGED breaker
  BY <1>2 DEF Begin, Chat, Batch
<1>3. ASSUME NEW c \in Clients, RequestStep(c) PROVE Breaker!Next \/ UNCHANGED breaker
  <2>1. CASE ChatAdmitted(c)
    BY <2>1 DEF ChatAdmitted, Admission, Breaker!Next
  <2>2. CASE ChatGivesUp(c) \/ ChatFailsAtOnce(c)
    BY <2>2 DEF ChatGivesUp, ChatFailsAtOnce, ChatFails, ReportFailure, Breaker!Next,
       Breaker!Finish
  <2>3. CASE ChatAnswers(c)
    BY <2>3 DEF ChatAnswers, Breaker!Next, Breaker!Finish
  <2>4. CASE Cancelled(c)
    BY <2>4 DEF Cancelled, Breaker!Next, Breaker!Finish
  <2>5. CASE \/ ChatLookupEnds(c) \/ ChatRefused(c) \/ ChatRetries(c)
             \/ BatchLookup(c) \/ BatchLookupFails(c) \/ BatchLookedUp(c)
             \/ BatchGenerated(c) \/ BatchAnswers(c)
    BY <2>5 DEF ChatLookupEnds, ChatRefused, ChatRetries, BatchLookup, BatchLookupFails,
       BatchLookedUp, BatchGenerated, BatchAnswers
  <2> QED  BY <1>3, <2>1, <2>2, <2>3, <2>4, <2>5 DEF RequestStep, Progress
<1>4. CASE UNCHANGED vars
  BY <1>4 DEF vars
<1> QED  BY <1>1, <1>2, <1>3, <1>4 DEF Next

\* The handlers never skip the breaker, replace it or report to it twice.
THEOREM BreakerUsed == Spec => BreakerInUse
<1>1. Init => Breaker!Init
  BY DEF Init
<1> QED  BY <1>1, NextUsesBreaker, PTL DEF Spec, BreakerInUse, Breaker!Spec

\* What CircuitBreakerProofs proves, it proves of this breaker.
LEMMA SameBreaker == BreakerInUse => BreakerProofs!Spec
<1>1. Breaker!Init => BreakerProofs!Init
  BY DEF Breaker!Init, BreakerProofs!Init
<1>2. Breaker!Next => BreakerProofs!Next
  BY
  DEF Breaker!Next, BreakerProofs!Next, Breaker!Tick, BreakerProofs!Tick,
      Breaker!AdmitCall, BreakerProofs!AdmitCall, Breaker!Refuses,
      BreakerProofs!Refuses, Breaker!StartProbe, BreakerProofs!StartProbe,
      Breaker!Finish, BreakerProofs!Finish, Breaker!Succeed, BreakerProofs!Succeed,
      Breaker!ProbeDone, BreakerProofs!ProbeDone, Breaker!Reset, BreakerProofs!Reset,
      Breaker!CountSuccess, BreakerProofs!CountSuccess, Breaker!Fail,
      BreakerProofs!Fail, Breaker!RecordFailure, BreakerProofs!RecordFailure,
      Breaker!AppendFailure, BreakerProofs!AppendFailure, Breaker!Trips,
      BreakerProofs!Trips, Breaker!Cancel, BreakerProofs!Cancel
<1>3. [Breaker!Next]_(Breaker!vars) => [BreakerProofs!Next]_(BreakerProofs!vars)
  BY <1>2 DEF Breaker!vars, BreakerProofs!vars
<1> QED  BY <1>1, <1>3, PTL DEF BreakerInUse, Breaker!Spec, BreakerProofs!Spec

LEMMA BreakerTyped == Spec => []Breaker!TypeOK
<1>1. BreakerProofs!TypeOK => Breaker!TypeOK
  BY DEF BreakerProofs!TypeOK, Breaker!TypeOK, BreakerProofs!CircuitState, Breaker!CircuitState
<1> QED  BY <1>1, BreakerUsed, SameBreaker, BreakerProofs!TypeCorrect, ProxyAssumption, PTL

\* In the proxy, too, a closed breaker is below its threshold, however many
\* requests report late.
THEOREM ProxyThreshold == Spec => []Breaker!ClosedBelowThreshold
<1>1. BreakerProofs!ClosedBelowThreshold => Breaker!ClosedBelowThreshold
  BY DEF BreakerProofs!ClosedBelowThreshold, Breaker!ClosedBelowThreshold
<1> QED  BY <1>1, BreakerUsed, SameBreaker, BreakerProofs!ThresholdRespected,
           ProxyAssumption, PTL

-----------------------------------------------------------------------------
(* The requests.                                                            *)

\* All of TypeOK but the breaker's part.
RequestTypeOK ==
    /\ ollama \in {"up", "embeds", "down"}
    /\ patient \in BOOLEAN
    /\ stored \in [Prompts -> {"none"} \cup Values]
    /\ sets \subseteq Prompts \X Values
    /\ pc \in [Clients -> {"idle", "get", "generate", "batch_get", "batch_generate"}]
    /\ asked \in [Clients -> SUBSET Prompts]
    /\ missed \in [Clients -> SUBSET Prompts]
    /\ attempts \in [Clients -> 0 .. max_attempts - 1]
    /\ results \in [Clients -> SUBSET (Prompts \X Values)]

\* What every way out of a handler leaves of the request.
LEMMA EndsTyped ==
  ASSUME RequestTypeOK, NEW c \in Clients, Ends(c)
  PROVE  /\ pc' \in [Clients -> {"idle", "get", "generate", "batch_get", "batch_generate"}]
         /\ asked' \in [Clients -> SUBSET Prompts] /\ missed' \in [Clients -> SUBSET Prompts]
         /\ attempts' \in [Clients -> 0 .. max_attempts - 1]
         /\ results' \in [Clients -> SUBSET (Prompts \X Values)]
BY ProxyAssumption DEF RequestTypeOK, Ends

LEMMA BackgroundTyped ==
  ASSUME RequestTypeOK, Background
  PROVE  RequestTypeOK'
<1>1. UNCHANGED request
  BY DEF Background, SetStores, SetFails, Expire, OllamaChanges, ClientsTurnPatient, Tick
<1>2. /\ ollama' \in {"up", "embeds", "down"} /\ patient' \in BOOLEAN
      /\ stored' \in [Prompts -> {"none"} \cup Values] /\ sets' \subseteq Prompts \X Values
  BY DEF Background, SetStores, SetFails, Expire, OllamaChanges, ClientsTurnPatient, Tick,
     RequestTypeOK, cache, outside, Values
<1> QED  BY <1>1, <1>2 DEF RequestTypeOK, request

LEMMA RequestStepTyped ==
  ASSUME RequestTypeOK, NEW c \in Clients, Begin(c) \/ RequestStep(c)
  PROVE  RequestTypeOK'
<1>1. CASE Begin(c)
  BY <1>1 DEF Begin, Chat, Batch, RequestTypeOK, cache, outside
<1>2. CASE ChatAdmitted(c)
  BY <1>2 DEF ChatAdmitted, RequestTypeOK, cache, outside
<1>3. CASE ChatRetries(c)
  BY <1>3, ProxyAssumption
  DEF ChatRetries, MayRetry, CountAttempt, RequestTypeOK, cache, outside
<1>4. CASE ChatAnswers(c) \/ ChatFails(c) \/ Cancelled(c)
  BY <1>4, EndsTyped DEF ChatAnswers, ChatFails, Cancelled, RequestTypeOK, cache, outside, Values
<1>5. CASE \/ ChatLookupEnds(c) \/ ChatRefused(c)
           \/ BatchLookup(c) \/ BatchLookupFails(c) \/ BatchLookedUp(c)
           \/ BatchGenerated(c) \/ BatchAnswers(c)
  BY <1>5, EndsTyped
  DEF ChatLookupEnds, ChatRefused, BatchLookup, KeepHit, BatchLookupFails, BatchLookedUp,
      BatchGenerated, BatchAnswers, RequestTypeOK, cache, outside, Values
<1> QED  BY <1>1, <1>2, <1>3, <1>4, <1>5
         DEF RequestStep, Progress, ChatGivesUp, ChatFailsAtOnce

\* Every variable of the proxy keeps its type, the attempts their bound.
THEOREM TypeCorrect == Spec => []TypeOK
<1>1. Init => RequestTypeOK
  <2> SUFFICES ASSUME Init PROVE RequestTypeOK
    OBVIOUS
  <2>1. 0 \in 0 .. max_attempts - 1
    BY ProxyAssumption
  <2>2. attempts \in [Clients -> 0 .. max_attempts - 1]
    BY <2>1 DEF Init
  <2>3. pc \in [Clients -> {"idle", "get", "generate", "batch_get", "batch_generate"}]
    BY DEF Init
  <2> QED  BY <2>2, <2>3 DEF Init, RequestTypeOK
<1>2. RequestTypeOK /\ [Next]_vars => RequestTypeOK'
  <2> SUFFICES ASSUME RequestTypeOK, [Next]_vars PROVE RequestTypeOK'
    OBVIOUS
  <2>1. CASE UNCHANGED vars
    BY <2>1 DEF vars, outside, cache, request, RequestTypeOK
  <2> QED  BY <2>1, BackgroundTyped, RequestStepTyped DEF Next
<1>3. RequestTypeOK /\ Breaker!TypeOK => TypeOK
  BY DEF RequestTypeOK, TypeOK
<1> QED  BY <1>1, <1>2, <1>3, BreakerTyped, PTL DEF Spec

\* The proxy's breaker keeps BreakerProtocol: nothing in the handlers probes it
\* early, or closes it on less than a run of successes.
THEOREM ProxyProtocol == Spec => Breaker!ImplementsProtocol
<1>1. BreakerProofs!Protocol!Init => Breaker!Protocol!Init
  BY DEF BreakerProofs!Protocol!Init, Breaker!Protocol!Init
<1>2. [BreakerProofs!Protocol!Next]_(BreakerProofs!Protocol!vars)
         => [Breaker!Protocol!Next]_(Breaker!Protocol!vars)
  BY
  DEF BreakerProofs!Protocol!Next, Breaker!Protocol!Next, BreakerProofs!Protocol!Trip,
      Breaker!Protocol!Trip, BreakerProofs!Protocol!Probe, Breaker!Protocol!Probe,
      BreakerProofs!Protocol!Good, Breaker!Protocol!Good, BreakerProofs!Protocol!Elapse,
      Breaker!Protocol!Elapse, BreakerProofs!Protocol!vars, Breaker!Protocol!vars
<1> QED  BY <1>1, <1>2, BreakerUsed, SameBreaker, BreakerProofs!ImplementsBreakerProtocol,
           ProxyAssumption, PTL
         DEF BreakerProofs!ImplementsProtocol, Breaker!ImplementsProtocol,
             BreakerProofs!Protocol!Spec, Breaker!Protocol!Spec
=============================================================================
