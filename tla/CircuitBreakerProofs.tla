------------------------- MODULE CircuitBreakerProofs -------------------------
(***************************************************************************)
(* CircuitBreaker for any callers, threshold, timeout and probe length:    *)
(* its type, its invariants, and that it implements BreakerProtocol.       *)
(***************************************************************************)
EXTENDS CircuitBreaker, TLAPS

\* The invariants need nothing beyond each other: the threshold test in
\* RecordFailure and the probe test in Succeed see the state they are stated on.
IInv == TypeOK /\ ClosedBelowThreshold /\ RecentExplainsCount /\ ProbeUnfinished

LEMMA InitIInv == Init => IInv
  BY BreakerAssumption
  DEF Init, IInv, TypeOK, CircuitState, ClosedBelowThreshold,
      RecentExplainsCount, ProbeUnfinished

\* An admission either starts a probe from zero or leaves the counts alone.
LEMMA AdmitIInv ==
  ASSUME IInv, NEW c \in Callers, AdmitCall(c)
  PROVE  IInv'
<1> USE BreakerAssumption DEF AdmitCall, Refuses, StartProbe
<1>1. TypeOK'
  BY DEF IInv, TypeOK, CircuitState
<1>2. ClosedBelowThreshold' /\ RecentExplainsCount' /\ ProbeUnfinished'
  BY DEF IInv, TypeOK, ClosedBelowThreshold, RecentExplainsCount, ProbeUnfinished
<1> QED  BY <1>1, <1>2 DEF IInv

LEMMA SucceedIInv ==
  ASSUME IInv, NEW c \in Callers, Succeed(c)
  PROVE  IInv'
<1> USE BreakerAssumption DEF Succeed, Reset, CountSuccess, ProbeDone
<1>1. TypeOK'
  BY DEF IInv, TypeOK, CircuitState
<1>2. ClosedBelowThreshold'
  BY DEF IInv, TypeOK, ClosedBelowThreshold
<1>3. RecentExplainsCount'
  BY DEF IInv, TypeOK, RecentExplainsCount
<1>4. ProbeUnfinished'
  BY DEF IInv, TypeOK, ProbeUnfinished
<1> QED  BY <1>1, <1>2, <1>3, <1>4 DEF IInv

LEMMA FailIInv ==
  ASSUME IInv, NEW c \in Callers, Fail(c)
  PROVE  IInv'
<1> USE BreakerAssumption DEF Fail, RecordFailure, AppendFailure, Trips
<1>1. TypeOK'
  BY DEF IInv, TypeOK, CircuitState
<1>2. ClosedBelowThreshold'
  BY DEF IInv, TypeOK, ClosedBelowThreshold
<1>3. RecentExplainsCount'
  BY DEF IInv, TypeOK, RecentExplainsCount
<1>4. ProbeUnfinished'
  BY DEF IInv, TypeOK, CircuitState, ProbeUnfinished
<1> QED  BY <1>1, <1>2, <1>3, <1>4 DEF IInv

LEMMA NextIInv == IInv /\ [Next]_vars => IInv'
<1> SUFFICES ASSUME IInv, [Next]_vars PROVE IInv'
  OBVIOUS
<1>1. CASE Tick
  BY <1>1, BreakerAssumption
  DEF Tick, IInv, TypeOK, ClosedBelowThreshold, RecentExplainsCount, ProbeUnfinished
<1>2. ASSUME NEW c \in Callers, AdmitCall(c) PROVE IInv'
  BY <1>2, AdmitIInv
<1>3. ASSUME NEW c \in Callers, Succeed(c) PROVE IInv'
  BY <1>3, SucceedIInv
<1>4. ASSUME NEW c \in Callers, Fail(c) PROVE IInv'
  BY <1>4, FailIInv
<1>5. ASSUME NEW c \in Callers, Cancel(c) PROVE IInv'
  BY <1>5
  DEF Cancel, IInv, TypeOK, ClosedBelowThreshold, RecentExplainsCount, ProbeUnfinished
<1>6. CASE UNCHANGED vars
  BY <1>6
  DEF vars, IInv, TypeOK, ClosedBelowThreshold, RecentExplainsCount, ProbeUnfinished
<1> QED  BY <1>1, <1>2, <1>3, <1>4, <1>5, <1>6 DEF Next, Finish

LEMMA Inductive == Spec => []IInv
  BY InitIInv, NextIInv, PTL DEF Spec

\* Every variable of the breaker keeps its type, the deque its bound.
THEOREM TypeCorrect == Spec => []TypeOK
<1>1. IInv => TypeOK
  BY DEF IInv
<1> QED  BY <1>1, Inductive, PTL

\* A closed circuit is below its failure threshold, whatever the threshold
\* and however many callers report late.
THEOREM ThresholdRespected == Spec => []ClosedBelowThreshold
<1>1. IInv => ClosedBelowThreshold
  BY DEF IInv
<1> QED  BY <1>1, Inductive, PTL

\* The failure count never exceeds what the diagnostics deque explains.
THEOREM CountExplained == Spec => []RecentExplainsCount
<1>1. IInv => RecentExplainsCount
  BY DEF IInv
<1> QED  BY <1>1, Inductive, PTL

\* A half-open circuit is one that still wants a success.
THEOREM ProbeStillOpen == Spec => []ProbeUnfinished
<1>1. IInv => ProbeUnfinished
  BY DEF IInv
<1> QED  BY <1>1, Inductive, PTL

-----------------------------------------------------------------------------
(* Refinement: under the mapping of Protocol, every step of the breaker is  *)
(* a step of the protocol or leaves the protocol's state alone.             *)

LEMMA AdmitRefines ==
  ASSUME IInv, NEW c \in Callers, AdmitCall(c)
  PROVE  Protocol!Probe \/ UNCHANGED Protocol!vars
<1>1. CASE state = "OPEN"
  BY <1>1, BreakerAssumption DEF AdmitCall, Refuses, StartProbe, IInv, TypeOK, Protocol!Probe
<1>2. CASE state # "OPEN"
  BY <1>2 DEF AdmitCall, Protocol!vars
<1> QED  BY <1>1, <1>2

LEMMA SucceedRefines ==
  ASSUME IInv, NEW c \in Callers, Succeed(c)
  PROVE  Protocol!Good \/ UNCHANGED Protocol!vars
<1>1. CASE state = "HALF_OPEN"
  BY <1>1 DEF Succeed, Reset, CountSuccess, ProbeDone, Protocol!Good
<1>2. CASE state # "HALF_OPEN"
  BY <1>2 DEF Succeed, Protocol!vars
<1> QED  BY <1>1, <1>2

LEMMA FailRefines ==
  ASSUME IInv, NEW c \in Callers, Fail(c)
  PROVE  Protocol!Trip \/ UNCHANGED Protocol!vars
<1>1. CASE Trips
  BY <1>1 DEF Fail, RecordFailure, Trips, Protocol!Trip
<1>2. CASE ~ Trips
  BY <1>2 DEF Fail, RecordFailure, Trips, Protocol!vars
<1> QED  BY <1>1, <1>2

LEMMA NextRefines == IInv /\ [Next]_vars => [Protocol!Next]_(Protocol!vars)
<1> SUFFICES ASSUME IInv, [Next]_vars
             PROVE  Protocol!Next \/ UNCHANGED Protocol!vars
  OBVIOUS
<1>1. CASE Tick
  BY <1>1 DEF Tick, Protocol!Next, Protocol!Elapse
<1>2. ASSUME NEW c \in Callers, AdmitCall(c)
      PROVE  Protocol!Next \/ UNCHANGED Protocol!vars
  BY <1>2, AdmitRefines DEF Protocol!Next
<1>3. ASSUME NEW c \in Callers, Succeed(c)
      PROVE  Protocol!Next \/ UNCHANGED Protocol!vars
  BY <1>3, SucceedRefines DEF Protocol!Next
<1>4. ASSUME NEW c \in Callers, Fail(c)
      PROVE  Protocol!Next \/ UNCHANGED Protocol!vars
  BY <1>4, FailRefines DEF Protocol!Next
<1>5. ASSUME NEW c \in Callers, Cancel(c)
      PROVE  Protocol!Next \/ UNCHANGED Protocol!vars
  BY <1>5 DEF Cancel, Protocol!vars
<1>6. CASE UNCHANGED vars
  BY <1>6 DEF vars, Protocol!vars
<1> QED  BY <1>1, <1>2, <1>3, <1>4, <1>5, <1>6 DEF Next, Finish

\* The breaker implements the protocol for every value of the constants.
THEOREM ImplementsBreakerProtocol == Spec => ImplementsProtocol
<1>1. Init => Protocol!Init
  BY DEF Init, Protocol!Init
<1> QED  BY <1>1, NextRefines, Inductive, PTL DEF Spec, ImplementsProtocol, Protocol!Spec
=============================================================================
