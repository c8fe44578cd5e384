--------------------------- MODULE RateLimiterProofs ---------------------------
(***************************************************************************)
(* The limiters, for all values of their parameters.                       *)
(*                                                                         *)
(* DistributedLimiter for any limits, window, delay and number of requests *)
(* under way: its type, that redis forgets no admission too early, that a  *)
(* window sees more requests than the limit only by those that share the   *)
(* member of another, and that retry_after is enough.                      *)
(*                                                                         *)
(* TokenBucket and SlidingWindowCounter: what LocalLimiterProofs proves of *)
(* each holds where the three stand side by side.                          *)
(***************************************************************************)
EXTENDS MCRateLimiter, FiniteSetTheorems, WellFoundedInduction, TLAPS

LocalProofs == INSTANCE LocalLimiterProofs
                 WITH capacity <- bucket_capacity, requests_per_minute <- bucket_rate,
                      clock <- bucket_clock, admitted <- bucket_admitted,
                      Second <- CounterSecond

\* No script carries a time of the future, or one older than MaxDelay.
SentInTime ==
    \A r \in ClientRequests :
        sent[r] # NotSent => clock - MaxDelay <= sent[r].tick /\ sent[r].tick <= clock

\* The key outlives each admission by KeyLife: expires_at never goes back.
KeyOutlives ==
    /\ expires_at <= clock + KeyLife
    /\ \A a \in admitted : a.tick + KeyLife <= expires_at

\* The requests of an interval that do not share the member of an earlier one.
Apart(t) == Within(t) \ Shared

WindowLimit == \A t \in Nat : Cardinality(Apart(t)) <= Limit

IInv == LimiterTypeOK /\ SentInTime /\ KeyOutlives /\ NothingForgotten /\ WindowLimit

-----------------------------------------------------------------------------
(* Facts about the operators of the script.                                 *)

LEMMA LimitIs ==
  /\ Limit \in Nat \ {0}
  /\ \A n \in Nat : (n < burst /\ n < requests_per_minute) <=> n < Limit
BY LimiterAssumption DEF Limit

\* Trimming keeps a part of a finite set.
LEMMA TrimIs ==
  ASSUME NEW z, IsFiniteSet(z), NEW now
  PROVE  /\ Trim(z, now) \subseteq z /\ IsFiniteSet(Trim(z, now))
         /\ Cardinality(Trim(z, now)) \in Nat /\ Cardinality(z) \in Nat
         /\ Cardinality(Trim(z, now)) <= Cardinality(z)
<1>1. Trim(z, now) \in SUBSET z
  BY DEF Trim
<1> QED  BY <1>1, FS_Subset, FS_CardinalityType

\* A set of times that is not empty has an earliest one: the interval from zero
\* to it is the smallest for inclusion.
LEMMA EarliestExists ==
  ASSUME NEW S, S \subseteq Nat, S # {}
  PROVE  \E t \in S : \A s \in S : t <= s
<1>1. PICK n \in S : TRUE
  OBVIOUS
<1> DEFINE T == {x \in SUBSET (0 .. n) : \E t \in S : t <= n /\ x = 0 .. t}
           R == StrictSubsetOrdering(0 .. n)
<1>2. n \in Nat /\ IsFiniteSet(0 .. n)
  BY <1>1, FS_Interval
<1>3. IsWellFoundedOn(R, SUBSET (0 .. n))
  BY <1>2, FS_StrictSubsetOrderingWellFounded, FS_FiniteSubsetsOfFinite
<1>4. \A t \in S : t <= n => 0 .. t \in T
  BY <1>2
<1>5. T \subseteq SUBSET (0 .. n) /\ T # {}
  BY <1>1, <1>2, <1>4
<1> HIDE DEF R
<1>6. PICK x \in T : \A y \in T : <<y, x>> \notin R
  BY <1>3, <1>5, WFMin
<1>7. PICK t \in S : t <= n /\ x = 0 .. t
  BY <1>6
<1>8. ASSUME NEW s \in S, ~ (t <= s) PROVE FALSE
  <2>1. s \in Nat /\ t \in Nat /\ s < t /\ s <= n
    BY <1>2, <1>7, <1>8
  <2>2. /\ 0 .. s \subseteq 0 .. n /\ 0 .. t \subseteq 0 .. n
        /\ 0 .. s \subseteq 0 .. t /\ t \notin 0 .. s /\ t \in 0 .. t
    BY <2>1, <1>2, <1>7
  <2>3. <<0 .. s, 0 .. t>> \in R
    BY <2>2 DEF R, StrictSubsetOrdering
  <2> QED  BY <2>1, <2>3, <1>4, <1>6, <1>7
<1> QED  BY <1>8

LEMMA OldestIs ==
  ASSUME NEW z, z \subseteq Instants, z # {}
  PROVE  /\ Oldest(z) \in Nat /\ \E m \in z : m.tick = Oldest(z)
         /\ \A m \in z : Oldest(z) <= m.tick
<1> DEFINE S == {m.tick : m \in z}
<1>1. S \subseteq Nat /\ S # {}
  BY DEF Instants
<1>2. \E t \in S : \A m \in z : t <= m.tick
  <2>1. \A m \in z : m.tick \in S
    OBVIOUS
  <2> HIDE DEF S
  <2> QED  BY <1>1, <2>1, EarliestExists
<1> QED  BY <1>1, <1>2 DEF Oldest

\* Rounding a rest up to whole seconds never shortens it.
LEMMA CeilingCovers ==
  ASSUME NEW a \in Int, NEW b \in Nat \ {0}
  PROVE  b * ((a + b - 1) \div b) >= a /\ (a + b - 1) \div b \in Int
<1> DEFINE x == a + b - 1
           q == x \div b
           m == x % b
<1>1. x = b * q + m /\ m \in 0 .. b - 1 /\ q \in Int
  OBVIOUS
<1> HIDE DEF q, m
<1>2. b * q \in Int
  BY <1>1
<1>3. b * q >= a
  BY <1>1, <1>2
<1> QED  BY <1>1, <1>3 DEF q

-----------------------------------------------------------------------------
(* The steps.                                                               *)

LEMMA InitIInv == LimiterInit => IInv
<1> SUFFICES ASSUME LimiterInit PROVE IInv
  OBVIOUS
<1>1. IsFiniteSet({}) /\ Cardinality({}) = 0
  BY FS_EmptySet
<1>2. LimiterTypeOK
  BY <1>1, LimitIs DEF LimiterInit, LimiterTypeOK
<1>3. SentInTime /\ KeyOutlives /\ NothingForgotten
  BY LimiterAssumption DEF LimiterInit, SentInTime, KeyOutlives, NothingForgotten, KeyLife
<1>4. WindowLimit
  <2>1. \A t \in Nat : Apart(t) = {}
    BY DEF LimiterInit, Apart, Within
  <2> QED  BY <1>1, <2>1, LimitIs DEF WindowLimit
<1> QED  BY <1>2, <1>3, <1>4 DEF IInv

\* The limit speaks of the admissions only.
LEMMA LimitKept ==
  ASSUME WindowLimit, UNCHANGED admitted
  PROVE  WindowLimit'
BY DEF WindowLimit, Apart, Within, Shared, Limit

\* A run of the script leaves at most Limit members: what it kept, and the
\* instant it admitted.
LEMMA ScriptTyped ==
  ASSUME LimiterTypeOK, NEW now \in Instants, RunScript(now)
  PROVE  /\ zset' \subseteq Instants /\ IsFiniteSet(zset') /\ Cardinality(zset') <= Limit
         /\ expires_at' \in Nat /\ Trim(zset, now.tick) \subseteq zset'
         /\ Admits(now) => zset' = Trim(zset, now.tick) \cup {now}
         /\ expires_at' = expires_at \/ expires_at' = clock + KeyLife
         /\ Admits(now) => expires_at' = clock + KeyLife
<1> DEFINE kept == Trim(zset, now.tick)
<1>1. /\ kept \subseteq zset /\ IsFiniteSet(kept)
      /\ Cardinality(kept) \in Nat /\ Cardinality(kept) <= Limit
  <2>1. Cardinality(kept) <= Cardinality(zset) /\ Cardinality(zset) <= Limit
    BY TrimIs DEF LimiterTypeOK
  <2> QED  BY <2>1, TrimIs, LimitIs DEF LimiterTypeOK
<1>2. clock + KeyLife \in Nat
  BY LimiterAssumption DEF LimiterTypeOK, KeyLife
<1>3. CASE HasRoom(kept)
  <2>1. zset' = kept \cup {now} /\ expires_at' = clock + KeyLife
    BY <1>3 DEF RunScript
  <2>2. /\ IsFiniteSet(kept \cup {now})
        /\ Cardinality(kept \cup {now}) = Cardinality(kept)
           \/ Cardinality(kept \cup {now}) = Cardinality(kept) + 1
    BY <1>1, FS_AddElement
  <2>3. Cardinality(kept) < Limit
    BY <1>1, <1>3, LimitIs DEF HasRoom
  <2>4. Cardinality(kept \cup {now}) <= Limit
    BY <2>2, <2>3, <1>1, LimitIs
  <2> QED  BY <2>1, <2>2, <2>4, <1>1, <1>2 DEF LimiterTypeOK
<1>4. CASE ~ HasRoom(kept)
  BY <1>1, <1>4 DEF RunScript, Admits, LimiterTypeOK
<1> QED  BY <1>3, <1>4

\* What a run of the script forgets is out of every window that still counts.
LEMMA ScriptForgets ==
  ASSUME IInv, NEW now \in Instants, RunScript(now), now.tick <= clock
  PROVE  \A a \in admitted : a.tick > clock - Window => InstantOf(a) \in zset'
<1> SUFFICES ASSUME NEW a \in admitted, a.tick > clock - Window
             PROVE  InstantOf(a) \in zset'
  OBVIOUS
<1>1. InstantOf(a) \in zset /\ a.tick \in Nat /\ InstantOf(a).tick = a.tick
  BY DEF IInv, NothingForgotten, LimiterTypeOK, Admissions, InstantOf
<1>2. a.tick > now.tick - Window
  BY <1>1, LimiterAssumption DEF IInv, LimiterTypeOK, Instants
<1> QED  BY <1>1, <1>2, ScriptTyped DEF Trim, IInv

\* An admission is one of the instant its script carried.
LEMMA AdmissionIs ==
  ASSUME LimiterTypeOK, NEW now \in Instants
  PROVE  /\ Admission(now) \in Admissions /\ InstantOf(Admission(now)) = now
         /\ Admission(now).tick = now.tick
<1> DEFINE same == {a \in admitted : InstantOf(a) = now}
<1>1. Cardinality(same) \in Nat
  <2>1. same \in SUBSET admitted /\ IsFiniteSet(admitted)
    BY DEF LimiterTypeOK
  <2> HIDE DEF same
  <2> QED  BY <2>1, FS_Subset, FS_CardinalityType
<1>2. Admission(now) = [tick |-> now.tick, fraction |-> now.fraction,
                        nth |-> Cardinality(same) + 1]
  BY DEF Admission
<1>3. InstantOf(Admission(now)) = now
  <2>1. now = [tick |-> now.tick, fraction |-> now.fraction]
    BY DEF Instants
  <2> HIDE DEF same
  <2> QED  BY <1>2, <2>1 DEF InstantOf
<1> HIDE DEF same
<1> QED  BY <1>1, <1>2, <1>3 DEF Admissions, Instants

\* Requests that share no member are told apart by their instants.
LEMMA ApartCounted ==
  ASSUME NEW A, A \subseteq Admissions, \A a \in A : ~ (a.nth > 1),
         NEW z, IsFiniteSet(z), \A a \in A : InstantOf(a) \in z
  PROVE  Cardinality(A) <= Cardinality(z)
<1> DEFINE member == [a \in A |-> InstantOf(a)]
<1>1. member \in [A -> z]
  OBVIOUS
<1>2. ASSUME NEW a \in A, NEW b \in A, member[a] = member[b]
      PROVE  a = b
  <2>1. a.tick = b.tick /\ a.fraction = b.fraction
    BY <1>2 DEF InstantOf
  <2>2. a.nth = 1 /\ b.nth = 1
    BY DEF Admissions
  <2> QED  BY <2>1, <2>2 DEF Admissions
<1> HIDE DEF member
<1>3. member \in Injection(A, z)
  BY <1>1, <1>2 DEF Injection, IsInjective
<1> QED  BY <1>3, FS_Injection

\* An admission: the interval it falls into holds only what the script counted.
LEMMA AdmissionLimited ==
  ASSUME IInv, NEW now \in Instants, RunScript(now), Admits(now),
         now.tick <= clock, clock - MaxDelay <= now.tick,
         admitted' = admitted \cup {Admission(now)}, UNCHANGED clock
  PROVE  WindowLimit'
<1> DEFINE new == Admission(now)
<1> SUFFICES ASSUME NEW t \in Nat
             PROVE  Cardinality(Apart(t)') <= Limit
  BY DEF WindowLimit, Limit
<1>1. /\ now.tick \in Nat /\ clock \in Nat /\ new \in Admissions
      /\ InstantOf(new) = now /\ new.tick = now.tick
  BY AdmissionIs DEF IInv, LimiterTypeOK, Instants
<1> HIDE DEF new
<1>2. Apart(t)' \subseteq Apart(t) \cup {new}
  BY DEF Apart, Within, Shared, new
<1>3. CASE new \in Apart(t)'
  <2>1. t <= now.tick /\ now.tick < t + Window - MaxDelay
    BY <1>1, <1>3 DEF Apart, Within
  <2>2. ASSUME NEW b \in Apart(t) PROVE InstantOf(b) \in zset'
    <3>1. b \in admitted /\ b.tick \in Nat /\ t <= b.tick /\ InstantOf(b).tick = b.tick
      BY DEF IInv, LimiterTypeOK, Admissions, Apart, Within, InstantOf
    <3>2. b.tick > clock - Window /\ b.tick > now.tick - Window
      BY <3>1, <2>1, <1>1, LimiterAssumption
    <3>3. InstantOf(b) \in Trim(zset, now.tick)
      BY <3>1, <3>2 DEF IInv, NothingForgotten, Trim
    <3> QED  BY <3>3, ScriptTyped DEF IInv
  <2>3. now \in zset'
    BY ScriptTyped DEF IInv
  <2>4. \A b \in Apart(t)' : InstantOf(b) \in zset'
    BY <1>1, <1>2, <2>2, <2>3
  <2>5. Apart(t)' \subseteq Admissions /\ \A b \in Apart(t)' : ~ (b.nth > 1)
    BY <1>1 DEF IInv, LimiterTypeOK, Apart, Within, Shared, new
  <2>6. /\ IsFiniteSet(zset') /\ Cardinality(zset') \in Nat /\ Cardinality(zset') <= Limit
        /\ IsFiniteSet(Apart(t)') /\ Cardinality(Apart(t)') \in Nat
    <3>1. IsFiniteSet(zset') /\ Cardinality(zset') <= Limit
      BY ScriptTyped DEF IInv
    <3>2. IsFiniteSet(admitted \cup {new}) /\ Apart(t)' \in SUBSET (admitted \cup {new})
      BY FS_AddElement DEF IInv, LimiterTypeOK, Apart, Within, new
    <3> QED  BY <3>1, <3>2, FS_Subset, FS_CardinalityType
  <2>7. Cardinality(Apart(t)') <= Cardinality(zset')
    BY <2>4, <2>5, <2>6, ApartCounted
  <2> QED  BY <2>6, <2>7, LimitIs
<1>4. CASE new \notin Apart(t)'
  <2>1. Apart(t)' = Apart(t)
    BY <1>2, <1>4 DEF Apart, Within, Shared, new
  <2> QED  BY <2>1 DEF IInv, WindowLimit
<1> QED  BY <1>3, <1>4

LEMMA CheckIInv ==
  ASSUME IInv, NEW r \in ClientRequests, Check(r)
  PROVE  IInv'
<1> DEFINE now == sent[r]
<1>1. /\ now \in Instants /\ now.tick \in Nat /\ clock \in Nat
      /\ clock - MaxDelay <= now.tick /\ now.tick <= clock
  BY DEF Check, IInv, LimiterTypeOK, SentInTime, Instants
<1>2. RunScript(now) /\ UNCHANGED clock /\ sent' = [sent EXCEPT ![r] = NotSent]
  BY DEF Check
<1>3. admitted' = IF Admits(now) THEN admitted \cup {Admission(now)} ELSE admitted
  BY DEF Check
<1> HIDE DEF now
<1>4. /\ zset' \subseteq Instants /\ IsFiniteSet(zset') /\ Cardinality(zset') <= Limit
      /\ expires_at' \in Nat /\ (Admits(now) => now \in zset')
      /\ expires_at' = expires_at \/ expires_at' = clock + KeyLife
      /\ Admits(now) => expires_at' = clock + KeyLife
  BY <1>1, <1>2, ScriptTyped DEF IInv
<1>5. sent' \in [ClientRequests -> Instants \cup {NotSent}] /\ SentInTime'
  BY <1>2 DEF IInv, LimiterTypeOK, SentInTime
<1>6. LimiterTypeOK'
  <2>1. admitted' \subseteq Admissions /\ IsFiniteSet(admitted')
    BY <1>1, <1>3, AdmissionIs, FS_AddElement DEF IInv, LimiterTypeOK
  <2> QED  BY <2>1, <1>2, <1>4, <1>5 DEF IInv, LimiterTypeOK
<1>7. KeyOutlives'
  <2>1. KeyLife \in Nat /\ expires_at \in Nat
    BY LimiterAssumption DEF KeyLife, IInv, LimiterTypeOK
  <2>2. expires_at <= expires_at' /\ expires_at' <= clock + KeyLife
    BY <2>1, <1>1, <1>4 DEF IInv, KeyOutlives
  <2>3. ASSUME NEW a \in admitted PROVE a.tick + KeyLife <= expires_at'
    <3>1. a.tick \in Nat /\ a.tick + KeyLife <= expires_at
      BY DEF IInv, LimiterTypeOK, Admissions, KeyOutlives
    <3> QED  BY <3>1, <2>1, <2>2, <1>4
  <2>4. Admits(now) => Admission(now).tick + KeyLife <= expires_at'
    <3>1. Admission(now).tick = now.tick
      BY <1>1, AdmissionIs DEF IInv
    <3> QED  BY <3>1, <2>1, <1>1, <1>4
  <2> QED  BY <2>2, <2>3, <2>4, <1>2, <1>3 DEF KeyOutlives, KeyLife
<1>8. NothingForgotten'
  <2>1. \A a \in admitted : a.tick > clock - Window => InstantOf(a) \in zset'
    BY <1>1, <1>2, ScriptForgets
  <2>2. Admits(now) => InstantOf(Admission(now)) \in zset'
    BY <1>1, <1>4, AdmissionIs DEF IInv
  <2>3. \A a : InstantOf(a)' = InstantOf(a)
    BY DEF InstantOf
  <2> QED  BY <2>1, <2>2, <2>3, <1>2, <1>3 DEF NothingForgotten
<1>9. WindowLimit'
  <2>1. CASE Admits(now)
    BY <2>1, <1>1, <1>2, <1>3, AdmissionLimited
  <2>2. CASE ~ Admits(now)
    BY <2>2, <1>3, LimitKept DEF IInv
  <2> QED  BY <2>1, <2>2
<1> QED  BY <1>5, <1>6, <1>7, <1>8, <1>9 DEF IInv

\* A script whose reply was lost may have counted a request nobody let through.
LEMMA CheckFailsIInv ==
  ASSUME IInv, NEW r \in ClientRequests, CheckFails(r)
  PROVE  IInv'
<1> DEFINE now == sent[r]
<1>1. /\ now \in Instants /\ now.tick \in Nat /\ clock \in Nat /\ now.tick <= clock
  BY DEF CheckFails, IInv, LimiterTypeOK, SentInTime, Instants
<1>2. UNCHANGED <<clock, admitted>> /\ sent' = [sent EXCEPT ![r] = NotSent]
  BY DEF CheckFails
<1>3. sent' \in [ClientRequests -> Instants \cup {NotSent}] /\ SentInTime' /\ WindowLimit'
  BY <1>2, LimitKept DEF IInv, LimiterTypeOK, SentInTime
<1>4. CASE RunScript(now)
  <2> HIDE DEF now
  <2>1. LimiterTypeOK'
    BY <1>1, <1>2, <1>3, <1>4, ScriptTyped DEF IInv, LimiterTypeOK
  <2>2. NothingForgotten'
    BY <1>1, <1>2, <1>4, ScriptForgets DEF NothingForgotten, InstantOf
  <2>3. KeyOutlives'
    <3>1. KeyLife \in Nat /\ expires_at \in Nat
      BY LimiterAssumption DEF KeyLife, IInv, LimiterTypeOK
    <3>2. expires_at' = expires_at \/ expires_at' = clock + KeyLife
      BY <1>1, <1>4, ScriptTyped DEF IInv
    <3>3. expires_at <= expires_at' /\ expires_at' <= clock + KeyLife
      BY <3>1, <3>2, <1>1 DEF IInv, KeyOutlives
    <3>4. ASSUME NEW a \in admitted PROVE a.tick + KeyLife <= expires_at'
      <4>1. a.tick \in Nat /\ a.tick + KeyLife <= expires_at
        BY DEF IInv, LimiterTypeOK, Admissions, KeyOutlives
      <4> QED  BY <4>1, <3>1, <3>2, <3>3, <1>1
    <3> QED  BY <3>3, <3>4, <1>2 DEF KeyOutlives, KeyLife
  <2> QED  BY <2>1, <2>2, <2>3, <1>3 DEF IInv
<1>5. CASE UNCHANGED <<zset, expires_at>>
  BY <1>2, <1>3, <1>5 DEF IInv, LimiterTypeOK, KeyOutlives, NothingForgotten, InstantOf
<1> QED  BY <1>4, <1>5 DEF CheckFails

LEMMA KeyExpiresIInv ==
  ASSUME IInv, KeyExpires
  PROVE  IInv'
<1>1. IsFiniteSet({}) /\ Cardinality({}) = 0
  BY FS_EmptySet
<1>2. LimiterTypeOK'
  BY <1>1, LimitIs DEF KeyExpires, IInv, LimiterTypeOK
<1>3. ASSUME NEW a \in admitted PROVE ~ (a.tick > clock - Window)
  <2>1. /\ a.tick \in Nat /\ clock \in Nat /\ expires_at \in Nat
        /\ a.tick + KeyLife <= expires_at /\ expires_at <= clock
    BY DEF KeyExpires, IInv, LimiterTypeOK, Admissions, KeyOutlives
  <2> QED  BY <2>1, LimiterAssumption DEF KeyLife
<1>4. NothingForgotten'
  BY <1>3 DEF KeyExpires, NothingForgotten
<1>5. SentInTime' /\ KeyOutlives' /\ WindowLimit'
  BY LimitKept DEF KeyExpires, IInv, SentInTime, KeyOutlives
<1> QED  BY <1>2, <1>4, <1>5 DEF IInv

LEMMA TickIInv ==
  ASSUME IInv, Tick
  PROVE  IInv'
<1>1. LimiterTypeOK' /\ WindowLimit'
  BY LimitKept DEF Tick, IInv, LimiterTypeOK
<1>2. SentInTime'
  BY LimiterAssumption DEF Tick, IInv, LimiterTypeOK, Instants, NotSent, SentInTime
<1>3. KeyOutlives'
  BY LimiterAssumption DEF Tick, IInv, LimiterTypeOK, KeyOutlives, KeyLife
<1>4. NothingForgotten'
  <2> SUFFICES ASSUME NEW a \in admitted, a.tick > (clock + 1) - Window
               PROVE  InstantOf(a) \in zset
    BY DEF Tick, NothingForgotten, InstantOf
  <2>1. a.tick \in Nat /\ clock \in Nat
    BY DEF IInv, LimiterTypeOK, Admissions
  <2> QED  BY <2>1, LimiterAssumption DEF IInv, NothingForgotten
<1> QED  BY <1>1, <1>2, <1>3, <1>4 DEF IInv

LEMMA NextIInv == IInv /\ [LimiterNext]_limiterVars => IInv'
<1> SUFFICES ASSUME IInv, [LimiterNext]_limiterVars PROVE IInv'
  OBVIOUS
<1>1. ASSUME NEW r \in ClientRequests, NEW f \in Fractions, Send(r, f) PROVE IInv'
  <2>1. LimiterTypeOK'
    BY <1>1 DEF Send, IInv, LimiterTypeOK, Instants
  <2>2. SentInTime'
    BY <1>1, LimiterAssumption DEF Send, IInv, LimiterTypeOK, SentInTime
  <2>3. KeyOutlives' /\ NothingForgotten' /\ WindowLimit'
    BY <1>1, LimitKept DEF Send, IInv, KeyOutlives, NothingForgotten, InstantOf
  <2> QED  BY <2>1, <2>2, <2>3 DEF IInv
<1>2. CASE UNCHANGED limiterVars
  BY <1>2, LimitKept
  DEF limiterVars, IInv, LimiterTypeOK, SentInTime, KeyOutlives, NothingForgotten, InstantOf
<1> QED  BY <1>1, <1>2, CheckIInv, CheckFailsIInv, KeyExpiresIInv, TickIInv DEF LimiterNext

LEMMA Inductive == LimiterSpec => []IInv
  BY InitIInv, NextIInv, PTL DEF LimiterSpec

-----------------------------------------------------------------------------

\* Every variable keeps its type, the sorted set its limit.
THEOREM TypeCorrect == LimiterSpec => []LimiterTypeOK
<1>1. IInv => LimiterTypeOK
  BY DEF IInv
<1> QED  BY <1>1, Inductive, PTL

\* Scripts with later times and the expiry of the key forget no admission that
\* a window still counts.
THEOREM AdmissionsRemembered == LimiterSpec => []NothingForgotten
<1>1. IInv => NothingForgotten
  BY DEF IInv
<1> QED  BY <1>1, Inductive, PTL

\* However many replicas send scripts, in whatever order redis runs them, a window
\* less the longest delay sees more requests than the limit only by those whose script
\* carried the very instant of an earlier one.
THEOREM LimitButForShared == LimiterSpec => []ExcessIsShared
<1>1. IInv => ExcessIsShared
  BY DEF IInv, LimiterTypeOK, WindowLimit, Apart, ExcessIsShared
<1> QED  BY <1>1, Inductive, PTL

\* The whole seconds of retry_after take the oldest entry out of the window.
THEOREM RetryAdmitted == LimiterSpec => []RetryAfterIsEnough
<1>1. IInv => RetryAfterIsEnough
  <2> SUFFICES ASSUME IInv, NEW now \in clock - MaxDelay .. clock, now >= 0,
                      ~ HasRoom(Trim(zset, now))
               PROVE  LET kept == Trim(zset, now)
                      IN  HasRoom(Trim(kept, now + Second * RetryAfter(kept, now)))
    BY DEF RetryAfterIsEnough
  <2> DEFINE kept == Trim(zset, now)
             old == Oldest(kept)
             rest == Window - (now - old)
             then == now + Second * RetryAfter(kept, now)
             left == Trim(kept, then)
  <2>1. now \in Int
    BY LimiterAssumption DEF IInv, LimiterTypeOK
  <2>2. /\ kept \subseteq Instants /\ IsFiniteSet(kept) /\ Cardinality(kept) \in Nat
        /\ Cardinality(kept) <= Limit
    <3>1. Cardinality(kept) <= Cardinality(zset) /\ Cardinality(zset) <= Limit
      BY TrimIs DEF IInv, LimiterTypeOK
    <3> QED  BY <3>1, TrimIs, LimitIs DEF IInv, LimiterTypeOK
  <2>3. kept # {}
    BY FS_EmptySet, LimiterAssumption DEF HasRoom
  <2> HIDE DEF kept
  <2>4. old \in Nat /\ \E m \in kept : m.tick = old
    BY <2>2, <2>3, OldestIs
  <2>5. PICK m \in kept : m.tick = old
    BY <2>4
  <2> HIDE DEF old
  <2>6. rest \in Int /\ Second \in Nat \ {0}
    BY <2>1, <2>4, LimiterAssumption
  <2>7. RetryAfter(kept, now) = (rest + Second - 1) \div Second
    BY DEF RetryAfter, old
  <2>8. /\ Second * RetryAfter(kept, now) >= rest
        /\ Second * RetryAfter(kept, now) \in Int
    <3> HIDE DEF rest
    <3>1. /\ Second * ((rest + Second - 1) \div Second) >= rest
          /\ (rest + Second - 1) \div Second \in Int
      BY <2>6, CeilingCovers
    <3> QED  BY <3>1, <2>6, <2>7
  <2>9. ~ (old > then - Window)
    BY <2>1, <2>4, <2>8, LimiterAssumption
  <2> HIDE DEF then
  <2>10. left \subseteq kept \ {m}
    BY <2>5, <2>9 DEF Trim
  <2>11. /\ IsFiniteSet(kept \ {m}) /\ Cardinality(kept \ {m}) = Cardinality(kept) - 1
    BY <2>2, <2>5, FS_RemoveElement
  <2> HIDE DEF left
  <2>12. Cardinality(left) <= Cardinality(kept \ {m}) /\ Cardinality(left) \in Nat
    BY <2>10, <2>11, FS_Subset, FS_CardinalityType
  <2>13. Cardinality(left) < Limit
    BY <2>2, <2>11, <2>12, LimitIs
  <2> QED  BY <2>12, <2>13, LimitIs DEF HasRoom, left, then, kept
<1> QED  BY <1>1, Inductive, PTL

-----------------------------------------------------------------------------
(* The limiters in the process.                                             *)

\* A behaviour of the three side by side is one of the limiter in redis, so that the
\* theorems above hold of it.
LEMMA SameLimiter == RateLimiterSpec => LimiterSpec
<1>1. RateLimiterInit => LimiterInit
  BY DEF RateLimiterInit
<1>2. [RateLimiterNext]_<<mode, limiterVars, bucketVars, counterVars>> => [LimiterNext]_limiterVars
  BY DEF RateLimiterNext, MCLimiterNext, MCLimiterTick, MCSend, LimiterNext
<1> QED
  BY <1>1, <1>2, PTL DEF RateLimiterSpec, LimiterSpec

\* Every step of the three side by side is a step of each, or leaves it alone.
LEMMA StepsOfLimiters ==
    ASSUME [RateLimiterNext]_<<mode, limiterVars, bucketVars, counterVars>>
    PROVE  [Bucket!Next]_(Bucket!vars) /\ [Counter!Next]_(Counter!vars)
<1> USE DEF limiterVars, bucketVars, counterVars, Bucket!vars, Counter!vars
<1>1. CASE mode = "redis" /\ MCLimiterNext /\ UNCHANGED <<bucketVars, counterVars>>
  BY <1>1
<1>2. CASE mode = "local" /\ LocalStep /\ UNCHANGED <<limiterVars, counterVars>>
  BY <1>2 DEF LocalStep, Bucket!Next
<1>3. CASE mode = "counter" /\ CounterStep /\ UNCHANGED <<limiterVars, bucketVars>>
  BY <1>3 DEF CounterStep, Counter!Next
<1>4. CASE UNCHANGED <<mode, limiterVars, bucketVars, counterVars>>
  BY <1>4
<1> QED
  BY <1>1, <1>2, <1>3, <1>4 DEF RateLimiterNext

\* What LocalLimiterProofs proves, it proves of this bucket.
LEMMA SameBucket == RateLimiterSpec => LocalProofs!Spec
<1>1. RateLimiterInit => LocalProofs!Init
  BY DEF RateLimiterInit, Bucket!Init, LocalProofs!Init
<1>2. [Bucket!Next]_(Bucket!vars) => [LocalProofs!Next]_(LocalProofs!vars)
  BY
  DEF Bucket!vars, LocalProofs!vars, Bucket!Next, LocalProofs!Next, Bucket!Dispatch,
      LocalProofs!Dispatch, Bucket!LeftOver, LocalProofs!LeftOver, Bucket!Allowed,
      LocalProofs!Allowed, Bucket!Refilled, LocalProofs!Refilled, Bucket!now,
      LocalProofs!now, Bucket!Tick, LocalProofs!Tick, Bucket!ClockSetBack,
      LocalProofs!ClockSetBack
<1> QED
  BY <1>1, <1>2, StepsOfLimiters, PTL DEF RateLimiterSpec, LocalProofs!Spec

LEMMA SameCounter == RateLimiterSpec => LocalProofs!Counter!Spec
<1>1. RateLimiterInit => LocalProofs!Counter!Init
  BY DEF RateLimiterInit, Counter!Init, LocalProofs!Counter!Init
<1>2. [Counter!Next]_(Counter!vars) => [LocalProofs!Counter!Next]_(LocalProofs!Counter!vars)
  BY
  DEF Counter!vars, LocalProofs!Counter!vars, Counter!Next,
      LocalProofs!Counter!Next, Counter!AllowRequest,
      LocalProofs!Counter!AllowRequest, Counter!Tick, LocalProofs!Counter!Tick,
      Counter!HasRoom, LocalProofs!Counter!HasRoom, Counter!Total,
      LocalProofs!Counter!Total, Counter!Pruned, LocalProofs!Counter!Pruned,
      Counter!InWindow, LocalProofs!Counter!InWindow, Counter!current,
      LocalProofs!Counter!current, Counter!Counted, LocalProofs!Counter!Counted,
      Counter!Oldest, LocalProofs!Counter!Oldest, Counter!Cardinality,
      LocalProofs!Counter!Cardinality, Counter!IsFiniteSet,
      LocalProofs!Counter!IsFiniteSet
<1> QED
  BY <1>1, <1>2, StepsOfLimiters, PTL DEF RateLimiterSpec, LocalProofs!Counter!Spec

\* The assumptions are those LocalLimiterProofs makes.
LEMMA SameAssumptions ==
    LocalProofs!BucketAssumption /\ LocalProofs!Counter!CounterAssumption
BY LocalLimitersAssumption
DEF Bucket!BucketAssumption, LocalProofs!BucketAssumption,
    Counter!CounterAssumption, LocalProofs!Counter!CounterAssumption

\* The tokens never exceed the burst, and never fall below zero by more than the
\* time the clock was set back is worth; no second counts more than the limit.
THEOREM LocalTypeCorrect == RateLimiterSpec => []LocalTypeOK
<1>1. LocalProofs!TypeOK /\ LocalProofs!Counter!TypeOK => LocalTypeOK
  BY
  DEF LocalTypeOK, Bucket!TypeOK, LocalProofs!TypeOK, Bucket!now, LocalProofs!now,
      Counter!TypeOK, LocalProofs!Counter!TypeOK, Counter!current,
      LocalProofs!Counter!current
<1> QED
  BY <1>1, SameBucket, SameCounter, SameAssumptions, LocalProofs!BucketTypeCorrect,
     LocalProofs!CounterTypeCorrect, PTL

\* In no stretch of true time is a client let through more often than its burst
\* and what the rate adds.
THEOREM BurstAndRateKept == RateLimiterSpec => []BurstAndRate
<1>1. LocalProofs!BurstAndRate => BurstAndRate
  BY DEF BurstAndRate, Bucket!BurstAndRate, LocalProofs!BurstAndRate
<1> QED
  BY <1>1, SameBucket, SameAssumptions, LocalProofs!BurstAndRateKept, PTL

\* A refused client waits no longer than a minute and the time the clock was set
\* back.
THEOREM RefusalEnds == RateLimiterSpec => []LockoutEnds
<1>1. LocalProofs!LockoutEnds => LockoutEnds
  BY DEF LockoutEnds, Bucket!LockoutEnds, LocalProofs!LockoutEnds, Bucket!now,
         LocalProofs!now, Bucket!Allowed, LocalProofs!Allowed, Bucket!Refilled,
         LocalProofs!Refilled
<1> QED
  BY <1>1, SameBucket, SameAssumptions, LocalProofs!RefusalEnds, PTL

\* No interval of the window's length, beginning at any tick, sees more requests
\* than the limit, although the counter remembers seconds only.
THEOREM NoBurst == RateLimiterSpec => []NoBoundaryBurst
<1>1. LocalProofs!Counter!NoBoundaryBurst => NoBoundaryBurst
  BY DEF NoBoundaryBurst, Counter!NoBoundaryBurst, LocalProofs!Counter!NoBoundaryBurst
<1> QED
  BY <1>1, SameCounter, SameAssumptions, LocalProofs!NoBurst, PTL

\* Past the second named to a refused client there is room.
THEOREM RoomAfterRefusal == RateLimiterSpec => []RoomAfterRetry
<1>1. LocalProofs!Counter!RoomAfterRetry => RoomAfterRetry
  BY
  DEF RoomAfterRetry, Counter!RoomAfterRetry, LocalProofs!Counter!RoomAfterRetry,
      Counter!HasRoom, LocalProofs!Counter!HasRoom, Counter!Total,
      LocalProofs!Counter!Total, Counter!Pruned, LocalProofs!Counter!Pruned,
      Counter!InWindow, LocalProofs!Counter!InWindow, Counter!current,
      LocalProofs!Counter!current, Counter!Cardinality, LocalProofs!Counter!Cardinality,
      Counter!IsFiniteSet, LocalProofs!Counter!IsFiniteSet
<1> QED
  BY <1>1, SameCounter, SameAssumptions, LocalProofs!RoomAfterRefusal, PTL
=============================================================================
