--------------------------- MODULE LocalLimiterProofs ---------------------------
(***************************************************************************)
(* What the limiters of rate_limiter.py that live in the process promise a *)
(* client: TokenBucket for every burst, rate, length of a minute and       *)
(* history of the clock, SlidingWindowCounter for every limit, window and  *)
(* length of a second.                                                     *)
(*                                                                         *)
(* TokenBucket: the argument weighs the balance, the tokens the bucket     *)
(* would hold after an uncapped refill: from below against the time since  *)
(* the last refusal, from above against the requests let through since any *)
(* one of them.  Each moves by the rate with the clock, and by a token     *)
(* with a request.                                                         *)
(*                                                                         *)
(* SlidingWindowCounter: from any second that still counts on, the buckets *)
(* hold as many requests as were let through.                              *)
(***************************************************************************)
EXTENDS TokenBucket, FiniteSets, SequenceTheorems, FiniteSetTheorems, WellFoundedInduction, TLAPS

CONSTANTS window_size, max_requests, Second
VARIABLES counters, counter_clock, counter_admitted, retry_at

Counter == INSTANCE SlidingWindowCounter
             WITH clock <- counter_clock, admitted <- counter_admitted

\* consume() before the cap.
Balance == tokens + (clock - last_update) * requests_per_minute

\* What a stretch of time adds.
Adds(time) == requests_per_minute * time

-----------------------------------------------------------------------------
(* TokenBucket: the inductive invariant.                                    *)

\* A clock that was set back costs what its time had added, no more.
DebtBounded ==
    /\ now \in Nat
    /\ Balance >= Adds(- set_back)

\* Since the last refusal the bucket fills, whatever is asked of it.
FillsAfterRefusal == refused_at # -1 => Balance >= Adds(now - refused_at - set_back)

\* The requests from the i-th on and the tokens that are left are paid for by the
\* burst and by the time since the i-th.
PaidFor ==
    \A i \in DOMAIN admitted :
        (Len(admitted) - i + 1) * Minute + Balance
            <= capacity * Minute + Adds(now - admitted[i])

BucketInv == TypeOK /\ DebtBounded /\ FillsAfterRefusal /\ PaidFor /\ BurstAndRate

-----------------------------------------------------------------------------
(* The operators.                                                           *)

\* The refill is the balance, or less; what is left is the refill, less the token
\* a request costs.
LEMMA RefilledIs ==
    ASSUME BucketAssumption, TypeOK
    PROVE  /\ Balance \in Int /\ Refilled \in Int /\ LeftOver \in Int
           /\ capacity * Minute \in Nat /\ Minute <= capacity * Minute
           /\ Refilled <= capacity * Minute
           /\ Refilled = Balance \/ (Refilled = capacity * Minute /\ Refilled <= Balance)
           /\ LeftOver = IF Allowed THEN Refilled - Minute ELSE Refilled
<1>1. /\ tokens \in Int /\ last_update \in Int /\ clock \in Int
      /\ capacity \in Nat \ {0} /\ requests_per_minute \in Nat /\ Minute \in Nat \ {0}
  BY DEF BucketAssumption, TypeOK, now
<1>2. Balance \in Int
  BY <1>1 DEF Balance
<1>3. capacity * Minute \in Nat /\ Minute <= capacity * Minute
  BY <1>1
<1>4. Refilled = IF Balance < capacity * Minute THEN Balance ELSE capacity * Minute
  BY DEF Refilled, Balance
<1> QED
  BY <1>1, <1>2, <1>3, <1>4 DEF LeftOver

\* What time adds is an integer, and adds up.
LEMMA AddsUp ==
    ASSUME BucketAssumption, NEW s \in Int, NEW t \in Int
    PROVE  /\ Adds(s) \in Int
           /\ Adds(s + t) = Adds(s) + Adds(t)
           /\ Adds(0) = 0 /\ Adds(1) = requests_per_minute
           /\ s <= t => Adds(s) <= Adds(t)
<1>1. requests_per_minute \in Nat
  BY DEF BucketAssumption
<1>2. requests_per_minute * (s + t) = requests_per_minute * s + requests_per_minute * t
  BY <1>1
<1>3. ASSUME s <= t PROVE requests_per_minute * s <= requests_per_minute * t
  BY <1>1, <1>3
<1> QED
  BY <1>1, <1>2, <1>3 DEF Adds

\* The bound TypeOK states for the tokens, in the terms of this module.
LEMMA DebtIs ==
    ASSUME BucketAssumption, NEW s \in Nat
    PROVE  /\ Adds(- s) = - requests_per_minute * s
           /\ Adds(- s) <= 0
<1>1. requests_per_minute \in Nat
  BY DEF BucketAssumption
<1>2. requests_per_minute * s \in Nat
  BY <1>1
<1>3. requests_per_minute * (- s) = - (requests_per_minute * s)
  BY <1>1
<1>4. (- requests_per_minute) * s = - (requests_per_minute * s)
  BY <1>1
<1> QED
  BY <1>2, <1>3, <1>4 DEF Adds

\* The times of the admitted requests.
LEMMA AdmittedTimes ==
    ASSUME TypeOK, now \in Nat, NEW i \in DOMAIN admitted
    PROVE  /\ Len(admitted) \in Nat /\ i \in 1 .. Len(admitted)
           /\ admitted[i] \in Int /\ admitted[i] <= now
<1>1. admitted \in Seq(0 .. now)
  BY DEF TypeOK
<1>2. Len(admitted) \in Nat /\ DOMAIN admitted = 1 .. Len(admitted)
  BY <1>1, LenProperties
<1>3. admitted[i] \in 0 .. now
  BY <1>1, <1>2, ElementOfSeq
<1> QED
  BY <1>2, <1>3

-----------------------------------------------------------------------------
(* The steps of the clock.                                                  *)

\* What both steps of the clock leave alone, of the requests and in true time.
LEMMA OnlyTheClock ==
    ASSUME UNCHANGED <<tokens, last_update, admitted, refused_at>>,
           BurstAndRate
    PROVE  BurstAndRate'
<1> QED
  BY DEF BurstAndRate

LEMMA BucketInitInv ==
    ASSUME BucketAssumption, Init
    PROVE  BucketInv
<1>1. /\ capacity * Minute \in Nat /\ requests_per_minute \in Nat /\ Minute \in Nat
  BY DEF BucketAssumption
<1>2. Balance = capacity * Minute /\ now = 0
  BY <1>1 DEF Init, Balance, now
<1>3. Adds(- set_back) <= 0 /\ - requests_per_minute * set_back = Adds(- set_back)
  BY DebtIs, 0 \in Nat DEF Init
<1>4. TypeOK
  BY <1>1, <1>2, <1>3 DEF Init, TypeOK
<1> QED
  BY <1>1, <1>2, <1>3, <1>4
     DEF BucketInv, DebtBounded, FillsAfterRefusal, PaidFor, BurstAndRate, Init

\* A tick adds the rate to the balance and to every side it is weighed against.
LEMMA TickKeeps ==
    ASSUME BucketAssumption, BucketInv, Tick
    PROVE  BucketInv'
<1> USE DEF BucketInv
<1>1. /\ tokens \in Int /\ last_update \in Int /\ clock \in Int /\ set_back \in Nat
      /\ now \in Nat /\ requests_per_minute \in Nat /\ refused_at \in Int
      /\ Balance \in Int /\ Minute \in Nat /\ capacity * Minute \in Nat
  BY RefilledIs DEF TypeOK, DebtBounded, BucketAssumption, now
<1>2. now' = now + 1
  BY <1>1 DEF Tick, now
<1>3. Balance' = Balance + requests_per_minute
  <2>1. (clock + 1 - last_update) * requests_per_minute
          = (clock - last_update) * requests_per_minute + requests_per_minute
    BY <1>1
  <2> QED
    BY <1>1, <2>1 DEF Tick, Balance
<1>4. \A t \in Int : Adds(t) \in Int /\ Adds(t + 1) = Adds(t) + requests_per_minute
  BY AddsUp
<1>5. TypeOK'
  <2>1. admitted \in Seq(0 .. now + 1)
    BY <1>1 DEF TypeOK
  <2> QED
    BY <1>1, <1>2, <2>1 DEF TypeOK, Tick, now
<1>6. DebtBounded'
  <2>1. Adds(- set_back) \in Int
    BY <1>1, <1>4
  <2> QED
    BY <1>1, <1>2, <1>3, <2>1 DEF DebtBounded, Tick, Adds
<1>7. FillsAfterRefusal'
  <2> DEFINE t == now - refused_at - set_back
  <2>1. t \in Int /\ Adds(t) \in Int /\ Adds(t + 1) = Adds(t) + requests_per_minute
    BY <1>1, <1>4
  <2>2. (now + 1) - refused_at - set_back = t + 1
    BY <1>1
  <2>3. refused_at # -1 => Balance >= Adds(t)
    BY DEF FillsAfterRefusal
  <2>4. refused_at # -1 => Balance + requests_per_minute >= Adds((now + 1) - refused_at - set_back)
    <3> HIDE DEF t
    <3> QED
      BY <1>1, <2>1, <2>2, <2>3
  <2> QED
    BY <1>2, <1>3, <2>4 DEF FillsAfterRefusal, Tick, Adds
<1>8. PaidFor'
  <2>1. ASSUME NEW i \in DOMAIN admitted
        PROVE  (Len(admitted) - i + 1) * Minute + Balance + requests_per_minute
                 <= capacity * Minute + Adds((now + 1) - admitted[i])
    <3> DEFINE t == now - admitted[i]
               n == (Len(admitted) - i + 1) * Minute
    <3>1. admitted[i] \in Int /\ i \in Int /\ Len(admitted) \in Nat
      BY <1>1, AdmittedTimes DEF DebtBounded
    <3>2. t \in Int /\ (now + 1) - admitted[i] = t + 1 /\ n \in Int
      BY <1>1, <3>1
    <3>3. Adds(t) \in Int /\ Adds(t + 1) = Adds(t) + requests_per_minute
      BY <1>4, <3>2
    <3>4. n + Balance <= capacity * Minute + Adds(t)
      BY DEF PaidFor
    <3> HIDE DEF t, n
    <3>5. n + Balance + requests_per_minute <= capacity * Minute + Adds(t + 1)
      BY <1>1, <3>2, <3>3, <3>4
    <3> QED
      BY <3>2, <3>5 DEF n
  <2>2. ASSUME NEW i \in DOMAIN admitted
        PROVE  (Len(admitted) - i + 1) * Minute + (Balance + requests_per_minute)
                 <= capacity * Minute + Adds((now + 1) - admitted[i])
    <3>1. i \in Int /\ Len(admitted) \in Nat
      BY LenProperties DEF TypeOK
    <3>2. (Len(admitted) - i + 1) * Minute \in Int
      BY <1>1, <3>1
    <3> QED
      BY <1>1, <2>1, <3>2
  <2>3. admitted' = admitted /\ UNCHANGED <<capacity, Minute, requests_per_minute>>
    BY DEF Tick
  <2>4. PaidFor' <=> \A i \in DOMAIN admitted :
                        (Len(admitted) - i + 1) * Minute + Balance'
                            <= capacity * Minute + Adds(now' - admitted[i])
    BY <2>3 DEF PaidFor, Adds
  <2>5. \A i \in DOMAIN admitted :
            (Len(admitted) - i + 1) * Minute + Balance'
                <= capacity * Minute + Adds(now' - admitted[i])
    <3> SUFFICES ASSUME NEW i \in DOMAIN admitted
                 PROVE  (Len(admitted) - i + 1) * Minute + Balance'
                            <= capacity * Minute + Adds(now' - admitted[i])
      OBVIOUS
    <3>1. now' - admitted[i] = (now + 1) - admitted[i]
      BY <1>2
    <3> QED
      BY <1>3, <2>2, <3>1
  <2> QED
    BY <2>4, <2>5
<1>9. BurstAndRate'
  BY OnlyTheClock DEF Tick
<1> QED
  BY <1>5, <1>6, <1>7, <1>8, <1>9

\* A correction takes the rate from the balance and from what the debt and the
\* lockout allow for; true time and the requests stay.
LEMMA SetBackKeeps ==
    ASSUME BucketAssumption, BucketInv, ClockSetBack
    PROVE  BucketInv'
<1> USE DEF BucketInv
<1>1. /\ tokens \in Int /\ last_update \in Int /\ clock \in Int /\ set_back \in Nat
      /\ now \in Nat /\ requests_per_minute \in Nat /\ refused_at \in Int
      /\ Balance \in Int /\ Minute \in Nat /\ capacity * Minute \in Nat
  BY RefilledIs DEF TypeOK, DebtBounded, BucketAssumption, now
<1>2. now' = now
  BY <1>1 DEF ClockSetBack, now
<1>3. Balance' = Balance - requests_per_minute
  <2>1. (clock - 1 - last_update) * requests_per_minute
          = (clock - last_update) * requests_per_minute - requests_per_minute
    BY <1>1
  <2> QED
    BY <1>1, <2>1 DEF ClockSetBack, Balance
<1>4. ASSUME NEW t \in Int
      PROVE  Adds(t) \in Int /\ Adds(t - 1) = Adds(t) - requests_per_minute
  <2>1. Adds(t - 1) \in Int /\ Adds((t - 1) + 1) = Adds(t - 1) + requests_per_minute
    BY <1>4, AddsUp
  <2>2. (t - 1) + 1 = t
    BY <1>4
  <2> QED
    BY <1>1, <2>1, <2>2
<1>5. TypeOK'
  <2>1. /\ - requests_per_minute * set_back = Adds(- set_back)
        /\ - requests_per_minute * (set_back + 1) = Adds(- (set_back + 1))
    BY <1>1, DebtIs, set_back + 1 \in Nat
  <2>2. - (set_back + 1) = - set_back - 1 /\ - set_back \in Int
    BY <1>1
  <2>3. Adds(- set_back) \in Int /\ Adds(- (set_back + 1)) = Adds(- set_back) - requests_per_minute
    BY <1>4, <2>2
  <2>4. tokens >= Adds(- (set_back + 1))
    BY <1>1, <2>1, <2>3 DEF TypeOK
  <2>5. tokens \in - requests_per_minute * (set_back + 1) .. capacity * Minute
    BY <1>1, <2>1, <2>3, <2>4 DEF TypeOK
  <2> QED
    BY <1>1, <1>2, <2>5 DEF TypeOK, ClockSetBack, now
<1>6. DebtBounded'
  <2>1. - (set_back + 1) = - set_back - 1 /\ - set_back \in Int
    BY <1>1
  <2>2. Adds(- set_back) \in Int /\ Adds(- (set_back + 1)) = Adds(- set_back) - requests_per_minute
    BY <1>4, <2>1
  <2>3. Balance - requests_per_minute >= Adds(- (set_back + 1))
    BY <1>1, <2>2 DEF DebtBounded
  <2> QED
    BY <1>1, <1>2, <1>3, <2>3 DEF DebtBounded, ClockSetBack, Adds
<1>7. FillsAfterRefusal'
  <2> DEFINE t == now - refused_at - set_back
  <2>1. t \in Int /\ Adds(t) \in Int /\ Adds(t - 1) = Adds(t) - requests_per_minute
    BY <1>1, <1>4
  <2>2. now - refused_at - (set_back + 1) = t - 1
    BY <1>1
  <2>3. refused_at # -1 => Balance >= Adds(t)
    BY DEF FillsAfterRefusal
  <2>4. refused_at # -1 => Balance - requests_per_minute >= Adds(now - refused_at - (set_back + 1))
    <3> HIDE DEF t
    <3> QED
      BY <1>1, <2>1, <2>2, <2>3
  <2> QED
    BY <1>2, <1>3, <2>4 DEF FillsAfterRefusal, ClockSetBack, Adds
<1>8. PaidFor'
  <2>1. ASSUME NEW i \in DOMAIN admitted
        PROVE  (Len(admitted) - i + 1) * Minute + Balance'
                 <= capacity * Minute + Adds(now' - admitted[i])
    <3> DEFINE n == (Len(admitted) - i + 1) * Minute
               paid == Adds(now - admitted[i])
    <3>1. Len(admitted) \in Nat /\ i \in Int /\ now - admitted[i] \in Int
      BY <1>1, AdmittedTimes
    <3>2. n \in Int /\ paid \in Int
      <4>1. paid \in Int
        BY <1>4, <3>1
      <4>2. Len(admitted) - i + 1 \in Int
        BY <3>1
      <4> QED
        BY <1>1, <4>1, <4>2
    <3>3. n + Balance <= capacity * Minute + paid
      BY DEF PaidFor
    <3>4. Adds(now' - admitted[i]) = paid
      BY <1>2
    <3> HIDE DEF n, paid
    <3>5. n + Balance' <= capacity * Minute + Adds(now' - admitted[i])
      BY <1>1, <1>3, <3>2, <3>3, <3>4
    <3> QED
      BY <3>5 DEF n
  <2> QED
    BY <2>1 DEF PaidFor, ClockSetBack, Adds
<1>9. BurstAndRate'
  BY OnlyTheClock DEF ClockSetBack
<1> QED
  BY <1>5, <1>6, <1>7, <1>8, <1>9

-----------------------------------------------------------------------------
(* A request.                                                               *)

\* The balance after consume() is what it left.
LEMMA DispatchLeaves ==
    ASSUME BucketAssumption, BucketInv, Dispatch
    PROVE  /\ now' = now /\ now \in Nat
           /\ LeftOver \in Int
           /\ Balance' = LeftOver
           /\ LeftOver >= Adds(- set_back)
           /\ LeftOver <= Balance
<1> USE DEF BucketInv
<1>1. /\ clock \in Int /\ set_back \in Nat /\ now \in Nat
      /\ requests_per_minute \in Nat /\ Minute \in Nat
  BY DEF TypeOK, DebtBounded, BucketAssumption
<1>2. now' = now
  BY DEF Dispatch, now
<1>3. Balance' = LeftOver
  <2>1. Balance' = LeftOver + (clock - clock) * requests_per_minute
    BY DEF Dispatch, Balance
  <2>2. (clock - clock) * requests_per_minute = 0
    BY <1>1
  <2> QED
    BY <2>1, <2>2, RefilledIs
<1>4. Adds(- set_back) \in Int /\ Adds(- set_back) <= 0
  BY <1>1, AddsUp, DebtIs
<1>5. LeftOver >= Adds(- set_back)
  BY <1>1, <1>4, RefilledIs DEF DebtBounded, Allowed
<1>6. LeftOver <= Balance
  BY <1>1, RefilledIs
<1> QED
  BY <1>1, <1>2, <1>3, <1>5, <1>6, RefilledIs

\* The new request is paid for by a token, those before it as before.
LEMMA AdmissionPaidFor ==
    ASSUME BucketAssumption, BucketInv, Dispatch, Allowed,
           NEW i \in 1 .. Len(admitted) + 1
    PROVE  /\ admitted' = Append(admitted, now)
           /\ ((Len(admitted) + 1) - i) * Minute + Refilled
                 <= capacity * Minute + Adds(now - admitted'[i])
<1> USE DEF BucketInv
<1>1. now \in Nat /\ Minute \in Nat /\ admitted' = Append(admitted, now)
  BY DEF Dispatch, DebtBounded, BucketAssumption
<1>2. admitted \in Seq(0 .. now) /\ now \in 0 .. now
  BY <1>1 DEF TypeOK
<1>3. Len(admitted) \in Nat /\ DOMAIN admitted = 1 .. Len(admitted)
  BY <1>2, LenProperties
<1>4. CASE i \in DOMAIN admitted
  <2>1. admitted'[i] = admitted[i]
    BY <1>1, <1>2, <1>3, <1>4, AppendProperties
  <2>2. (Len(admitted) - i + 1) * Minute + Balance <= capacity * Minute + Adds(now - admitted'[i])
    BY <1>4, <2>1 DEF PaidFor
  <2>3. Len(admitted) - i + 1 = (Len(admitted) + 1) - i
    BY <1>3
  <2>4. now - admitted[i] \in Int
    BY <1>1, <1>4, AdmittedTimes
  <2>5. Adds(now - admitted'[i]) \in Int
    BY <2>1, <2>4, AddsUp
  <2>6. ((Len(admitted) + 1) - i) * Minute \in Int
    BY <1>1, <1>3
  <2> QED
    BY <1>1, <2>2, <2>3, <2>5, <2>6, RefilledIs, SMTT(30)
<1>5. CASE i = Len(admitted) + 1
  <2>1. admitted'[i] = now
    BY <1>1, <1>2, <1>5, AppendProperties
  <2>2. Adds(now - admitted'[i]) = 0
    BY <1>1, <2>1, AddsUp
  <2>3. ((Len(admitted) + 1) - i) * Minute = 0
    BY <1>1, <1>3, <1>5
  <2> QED
    BY <1>1, <2>2, <2>3, RefilledIs
<1> QED
  BY <1>3, <1>4, <1>5

LEMMA DispatchKeeps ==
    ASSUME BucketAssumption, BucketInv, Dispatch
    PROVE  BucketInv'
<1> USE DEF BucketInv
<1>1. /\ clock \in Int /\ set_back \in Nat /\ now \in Nat
      /\ requests_per_minute \in Nat /\ Minute \in Nat \ {0} /\ capacity * Minute \in Nat
  BY RefilledIs DEF TypeOK, DebtBounded, BucketAssumption
<1>2. now' = now /\ now \in Nat /\ Balance' = LeftOver /\ LeftOver \in Int
  BY DispatchLeaves
<1>3. TypeOK'
  <2>1. LeftOver \in - requests_per_minute * set_back .. capacity * Minute
    <3>1. - requests_per_minute * set_back = Adds(- set_back) /\ Adds(- set_back) \in Int
      <4>1. set_back \in Nat /\ - set_back \in Int
        BY DEF TypeOK
      <4> QED
        BY <4>1, DebtIs, AddsUp
    <3>2. LeftOver <= capacity * Minute
      BY <1>1, RefilledIs
    <3> QED
      BY <1>2, <3>1, <3>2, DispatchLeaves
  <2>2. clock \in clock - now .. now
    BY <1>1 DEF now
  <2>3. admitted' \in Seq(0 .. now)
    <3>1. admitted \in Seq(0 .. now) /\ now \in 0 .. now
      BY <1>1 DEF TypeOK
    <3>2. Append(admitted, now) \in Seq(0 .. now)
      BY <3>1, AppendProperties
    <3> QED
      BY <3>1, <3>2 DEF Dispatch
  <2>4. refused_at' \in -1 .. now
    BY <1>1 DEF Dispatch
  <2> QED
    BY <1>1, <1>2, <2>1, <2>2, <2>3, <2>4 DEF TypeOK, Dispatch
<1>4. DebtBounded'
  <2>1. Balance' >= Adds(- set_back)
    BY <1>2, DispatchLeaves
  <2> QED
    BY <1>2, <2>1 DEF DebtBounded, Dispatch, Adds
<1>5. FillsAfterRefusal'
  <2>1. CASE Allowed
    BY <2>1 DEF FillsAfterRefusal, Dispatch
  <2>2. CASE ~ Allowed
    <3>1. refused_at' = now /\ set_back' = set_back
      BY <2>2 DEF Dispatch
    <3>2. now - now - set_back = - set_back
      BY <1>1
    <3>3. Balance' >= Adds(now - now - set_back)
      BY <1>2, <3>2, DispatchLeaves
    <3> QED
      BY <1>2, <3>1, <3>3 DEF FillsAfterRefusal, Adds
  <2> QED
    BY <2>1, <2>2
<1>6. PaidFor' /\ BurstAndRate'
  <2>1. CASE Allowed
    <3> DEFINE n == Len(admitted)
    <3>1. admitted \in Seq(0 .. now) /\ now \in 0 .. now
      BY <1>1 DEF TypeOK
    <3>2. n \in Nat /\ DOMAIN admitted = 1 .. n
      BY <3>1, LenProperties
    <3>3. /\ admitted' = Append(admitted, now)
          /\ Len(admitted') = n + 1 /\ DOMAIN admitted' = 1 .. n + 1
          /\ admitted'[n + 1] = now
          /\ \A i \in 1 .. n : admitted'[i] = admitted[i]
      <4>1. admitted' = Append(admitted, now)
        BY <2>1 DEF Dispatch
      <4> QED
        BY <3>1, <3>2, <4>1, AppendProperties, LenProperties
    <3>4. Refilled \in Int /\ Refilled >= Minute /\ LeftOver = Refilled - Minute
      BY <1>1, <2>1, RefilledIs DEF Allowed
    <3>5. ASSUME NEW i \in 1 .. n + 1
          PROVE  /\ admitted'[i] \in Int
                 /\ Adds(now - admitted'[i]) \in Int
                 /\ ((n + 1) - i + 1) * Minute = ((n + 1) - i) * Minute + Minute
                 /\ ((n + 1) - i) * Minute \in Int
                 /\ ((n + 1) - i) * Minute + Refilled
                      <= capacity * Minute + Adds(now - admitted'[i])
      <4>1. admitted'[i] \in Int
        <5>1. CASE i \in 1 .. n
          BY <1>2, <3>2, <3>3, <5>1, AdmittedTimes
        <5>2. CASE i = n + 1
          BY <1>2, <3>3, <5>2
        <5> QED
          BY <3>2, <5>1, <5>2
      <4>2. now - admitted'[i] \in Int
        BY <1>2, <4>1
      <4>3. (n + 1) - i \in Int
        BY <3>2
      <4>4. ((n + 1) - i + 1) * Minute = ((n + 1) - i) * Minute + Minute
        BY <1>1, <4>3
      <4>5. ((n + 1) - i) * Minute \in Int
        BY <1>1, <4>3
      <4> QED
        BY <2>1, <4>1, <4>2, <4>4, <4>5, AddsUp, AdmissionPaidFor
    <3> HIDE DEF n
    <3>6. PaidFor'
      <4>1. ASSUME NEW i \in 1 .. n + 1
            PROVE  ((n + 1) - i + 1) * Minute + Balance' <= capacity * Minute + Adds(now - admitted'[i])
        BY <1>1, <1>2, <3>4, <3>5
      <4>2. PaidFor' <=> \A i \in DOMAIN admitted' :
                            (Len(admitted') - i + 1) * Minute + Balance'
                                <= capacity * Minute + Adds(now' - admitted'[i])
        BY DEF PaidFor, Adds
      <4> QED
        BY <1>2, <3>3, <4>1, <4>2
    <3>7. BurstAndRate'
      <4> SUFFICES ASSUME NEW i \in 1 .. n + 1, NEW j \in 1 .. n + 1, i <= j
                   PROVE  (j - i + 1) * Minute
                            <= capacity * Minute + requests_per_minute * (admitted'[j] - admitted'[i])
        BY <3>3 DEF BurstAndRate
      <4>1. CASE j \in 1 .. n
        <5>1. i \in 1 .. n
          BY <3>2, <4>1
        <5> QED
          BY <3>2, <3>3, <4>1, <5>1 DEF BurstAndRate
      <4>2. CASE j = n + 1
        <5>1. ((n + 1) - i + 1) * Minute <= ((n + 1) - i) * Minute + Refilled
          BY <1>1, <3>4, <3>5
        <5>2. ((n + 1) - i + 1) * Minute <= capacity * Minute + Adds(now - admitted'[i])
          BY <1>1, <3>4, <3>5, <5>1
        <5> QED
          BY <3>3, <4>2, <5>2 DEF Adds
      <4> QED
        BY <3>2, <4>1, <4>2
    <3> QED
      BY <3>6, <3>7
  <2>2. CASE ~ Allowed
    <3>1. admitted' = admitted
      BY <2>2 DEF Dispatch
    <3>2. ASSUME NEW i \in DOMAIN admitted
          PROVE  (Len(admitted) - i + 1) * Minute + Balance' <= capacity * Minute + Adds(now - admitted[i])
      <4> DEFINE m == (Len(admitted) - i + 1) * Minute
                 paid == Adds(now - admitted[i])
      <4>1. m \in Int /\ paid \in Int
        <5>1. /\ Len(admitted) \in Nat /\ i \in Int /\ now - admitted[i] \in Int
          BY <1>1, AdmittedTimes
        <5>2. Len(admitted) - i + 1 \in Int
          BY <5>1
        <5>3. paid \in Int
          BY <5>1, AddsUp
        <5> QED
          BY <1>1, <5>2, <5>3
      <4>2. m + Balance <= capacity * Minute + paid
        BY DEF PaidFor
      <4> HIDE DEF m, paid
      <4>3. m + Balance' <= capacity * Minute + paid
        BY <1>1, <1>2, <4>1, <4>2, DispatchLeaves, RefilledIs
      <4> QED
        BY <4>3 DEF m, paid
    <3>3. PaidFor' <=> \A i \in DOMAIN admitted :
                          (Len(admitted) - i + 1) * Minute + Balance'
                              <= capacity * Minute + Adds(now' - admitted[i])
      BY <3>1 DEF PaidFor, Adds
    <3> QED
      BY <1>2, <3>1, <3>2, <3>3 DEF BurstAndRate
  <2> QED
    BY <2>1, <2>2
<1> QED
  BY <1>3, <1>4, <1>5, <1>6

LEMMA BucketStepInv ==
    ASSUME BucketAssumption, BucketInv, [Next]_vars
    PROVE  BucketInv'
<1>1. CASE Dispatch
  BY <1>1, DispatchKeeps
<1>2. CASE Tick
  BY <1>2, TickKeeps
<1>3. CASE ClockSetBack
  BY <1>3, SetBackKeeps
<1>4. CASE UNCHANGED vars
  BY <1>4 DEF vars, BucketInv, TypeOK, DebtBounded, FillsAfterRefusal, PaidFor, BurstAndRate,
              now, Balance, Adds
<1> QED
  BY <1>1, <1>2, <1>3, <1>4 DEF Next

-----------------------------------------------------------------------------
(* TokenBucket: the theorems.                                               *)

\* A minute after the last refusal, and after as much again as the clock was set
\* back, the balance is a token or more, and the cap takes none of it.
LEMMA FullAfterMinute ==
    ASSUME BucketAssumption, BucketInv
    PROVE  LockoutEnds
<1> USE DEF BucketInv
<1> SUFFICES ASSUME refused_at # -1, now >= refused_at + Minute + set_back
             PROVE  Refilled >= Minute
  BY DEF LockoutEnds, Allowed
<1>1. /\ now \in Nat /\ refused_at \in Int /\ set_back \in Nat
      /\ Minute \in Nat \ {0} /\ requests_per_minute \in Nat \ {0}
  BY DEF TypeOK, DebtBounded, BucketAssumption
<1>2. now - refused_at - set_back \in Int /\ Minute <= now - refused_at - set_back
  BY <1>1
<1>3. /\ Adds(Minute) \in Int /\ Adds(now - refused_at - set_back) \in Int
      /\ Adds(Minute) <= Adds(now - refused_at - set_back)
  BY <1>1, <1>2, AddsUp
<1>4. Minute <= Adds(Minute)
  BY <1>1 DEF Adds
<1>5. Balance >= Minute
  BY <1>1, <1>3, <1>4, RefilledIs DEF FillsAfterRefusal
<1> QED
  BY <1>1, <1>5, RefilledIs

\* The invariant of every bucket whose parameters are positive.
LEMMA BucketInvariant ==
    BucketAssumption => (Spec => []BucketInv)
<1> SUFFICES ASSUME BucketAssumption PROVE Spec => []BucketInv
  OBVIOUS
<1>1. Init => BucketInv
  BY BucketInitInv
<1>2. BucketInv /\ [Next]_vars => BucketInv'
  BY BucketStepInv
<1> QED
  BY <1>1, <1>2, PTL DEF Spec

\* The tokens never exceed the burst, and never fall below zero by more than the
\* time the clock was set back is worth.
THEOREM BucketTypeCorrect ==
    BucketAssumption => (Spec => []TypeOK)
<1>1. BucketInv => TypeOK
  BY DEF BucketInv
<1> QED
  BY <1>1, BucketInvariant, PTL

\* In no stretch of true time is a client let through more often than its burst
\* and what the rate adds.
THEOREM BurstAndRateKept ==
    BucketAssumption => (Spec => []BurstAndRate)
<1>1. BucketInv => BurstAndRate
  BY DEF BucketInv
<1> QED
  BY <1>1, BucketInvariant, PTL

\* A refused client waits no longer than a minute and the time the clock was set
\* back.
THEOREM RefusalEnds ==
    BucketAssumption => (Spec => []LockoutEnds)
<1> SUFFICES ASSUME BucketAssumption PROVE Spec => []LockoutEnds
  OBVIOUS
<1>1. BucketInv => LockoutEnds
  BY FullAfterMinute
<1>2. Spec => []BucketInv
  BY BucketInvariant
<1> QED
  BY <1>1, <1>2, PTL

-----------------------------------------------------------------------------
(* SlidingWindowCounter: the inductive invariant.                           *)

\* The requests the buckets of f stand for, from a second on.
Units(f, from) ==
    {u \in (DOMAIN f) \X (1 .. max_requests) :
        \E s, k : u = <<s, k>> /\ from <= s /\ k <= f[s]}

\* The requests let through from a second on.
Since(from) == {i \in DOMAIN counter_admitted : counter_admitted[i] \div Second >= from}

\* Requests come in the order of the clock.
InOrder ==
    \A i, j \in DOMAIN counter_admitted :
        i <= j => counter_admitted[i] <= counter_admitted[j]

\* From any second of the window on the buckets hold what was let through.
CountsAdmitted ==
    \A from \in Int :
        from >= Counter!current - window_size =>
            Cardinality(Units(counters, from)) = Cardinality(Since(from))

\* The buckets that are kept never hold more than the limit.
WithinLimit == Cardinality(Units(counters, 0)) <= max_requests

\* While a refusal stands the buckets are full, and retry_at is about the oldest.
FullAtRefusal ==
    retry_at # -1 =>
        /\ Cardinality(Units(counters, 0)) >= max_requests
        /\ \E s \in DOMAIN counters :
              retry_at = s + window_size /\ \A t \in DOMAIN counters : s <= t

CounterInv ==
    /\ Counter!TypeOK
    /\ InOrder
    /\ CountsAdmitted
    /\ WithinLimit
    /\ FullAtRefusal
    /\ Counter!NoBoundaryBurst

-----------------------------------------------------------------------------
(* Seconds and buckets.                                                     *)

\* Instants at most W seconds apart are at most W apart in seconds of the clock.
LEMMA SecondsApart ==
    ASSUME NEW S \in Nat \ {0}, NEW W \in Nat, NEW x \in Nat, NEW y \in Nat,
           y - x <= W * S
    PROVE  /\ x \div S \in Nat /\ y \div S \in Nat
           /\ x \div S >= y \div S - W
<1> DEFINE q == x \div S
           p == y \div S
           m == x % S
           r == y % S
<1>1. /\ x = S * q + m /\ m \in 0 .. S - 1 /\ q \in Nat
      /\ y = S * p + r /\ r \in 0 .. S - 1 /\ p \in Nat
  OBVIOUS
<1> HIDE DEF q, p, m, r
<1>2. ASSUME p - q - W >= 1 PROVE FALSE
  <2>1. S * (p - q - W) >= S
    BY <1>1, <1>2
  <2>2. S * (p - q - W) = S * p - S * q - W * S
    BY <1>1
  <2> QED
    BY <1>1, <2>1, <2>2
<1> QED
  BY <1>1, <1>2 DEF p, q

\* So the seconds follow the clock.
LEMMA SecondsInOrder ==
    ASSUME NEW S \in Nat \ {0}, NEW x \in Nat, NEW y \in Nat, x <= y
    PROVE  x \div S \in Nat /\ y \div S \in Nat /\ x \div S <= y \div S
<1>1. x - y <= 0 * S /\ 0 \in Nat
  OBVIOUS
<1>2. x \div S \in Nat /\ y \div S \in Nat /\ y \div S >= x \div S - 0
  BY <1>1, SecondsApart
<1> QED
  BY <1>2

\* A unit is a second and a number.
LEMMA UnitsAre ==
    ASSUME NEW f, NEW from
    PROVE  /\ \A u \in Units(f, from) : \E s \in DOMAIN f, k \in 1 .. max_requests : u = <<s, k>>
           /\ \A s, k : <<s, k>> \in Units(f, from) <=>
                 s \in DOMAIN f /\ k \in 1 .. max_requests /\ from <= s /\ k <= f[s]
<1>1. ASSUME NEW u \in Units(f, from)
      PROVE  \E s \in DOMAIN f, k \in 1 .. max_requests : u = <<s, k>>
  BY DEF Units
<1>2. ASSUME NEW s, NEW k
      PROVE  <<s, k>> \in Units(f, from) <=>
                s \in DOMAIN f /\ k \in 1 .. max_requests /\ from <= s /\ k <= f[s]
  BY DEF Units
<1> QED
  BY <1>1, <1>2

\* Two functions with the same units have equal sets of them.
LEMMA SameUnits ==
    ASSUME NEW f, NEW g, NEW from, NEW to,
           \A s, k : <<s, k>> \in Units(f, from) <=> <<s, k>> \in Units(g, to)
    PROVE  Units(f, from) = Units(g, to)
<1>1. ASSUME NEW u \in Units(f, from) PROVE u \in Units(g, to)
  <2>1. PICK s, k : u = <<s, k>>
    BY UnitsAre
  <2> QED
    BY <2>1
<1>2. ASSUME NEW u \in Units(g, to) PROVE u \in Units(f, from)
  <2>1. PICK s, k : u = <<s, k>>
    BY UnitsAre
  <2> QED
    BY <2>1
<1> QED
  BY <1>1, <1>2

\* There are finitely many units, and those of a later second on are among those of
\* an earlier one on.
LEMMA UnitsFinite ==
    ASSUME NEW n \in Nat, NEW f, DOMAIN f \subseteq 0 .. n, max_requests \in Nat,
           NEW from \in Int
    PROVE  /\ IsFiniteSet(Units(f, from)) /\ Cardinality(Units(f, from)) \in Nat
           /\ \A later \in Int : from <= later => Units(f, later) \subseteq Units(f, from)
<1>1. IsFiniteSet(0 .. n) /\ IsFiniteSet(1 .. max_requests)
  BY FS_Interval
<1>2. IsFiniteSet((0 .. n) \X (1 .. max_requests))
  BY <1>1, FS_Product
<1>3. Units(f, from) \subseteq (0 .. n) \X (1 .. max_requests)
  <2> SUFFICES ASSUME NEW u \in Units(f, from)
               PROVE  u \in (0 .. n) \X (1 .. max_requests)
    OBVIOUS
  <2>1. PICK s \in DOMAIN f, k \in 1 .. max_requests : u = <<s, k>>
    BY UnitsAre
  <2> QED
    BY <2>1
<1>4. IsFiniteSet(Units(f, from))
  BY <1>2, <1>3, FS_Subset
<1>5. ASSUME NEW later \in Int, from <= later PROVE Units(f, later) \subseteq Units(f, from)
  <2> SUFFICES ASSUME NEW u \in Units(f, later)
               PROVE  u \in Units(f, from)
    OBVIOUS
  <2>1. PICK s \in DOMAIN f, k \in 1 .. max_requests : u = <<s, k>>
    BY UnitsAre
  <2>2. later <= s /\ k <= f[s] /\ s \in Nat
    BY <2>1, UnitsAre
  <2>3. from <= s
    BY <1>5, <2>2
  <2> QED
    BY <2>1, <2>2, <2>3, UnitsAre
<1> QED
  BY <1>4, <1>5, FS_CardinalityType

\* The types of the counter, in the terms of this module.
LEMMA CounterTypes ==
    ASSUME Counter!CounterAssumption, Counter!TypeOK
    PROVE  /\ window_size \in Nat \ {0} /\ max_requests \in Nat \ {0} /\ Second \in Nat \ {0}
           /\ counter_clock \in Nat /\ Counter!current \in Nat
           /\ DOMAIN counters \subseteq 0 .. Counter!current
           /\ \A s \in DOMAIN counters : counters[s] \in 1 .. max_requests
           /\ counter_admitted \in Seq(0 .. counter_clock)
           /\ Len(counter_admitted) \in Nat
           /\ DOMAIN counter_admitted = 1 .. Len(counter_admitted)
<1>1. window_size \in Nat \ {0} /\ max_requests \in Nat \ {0} /\ Second \in Nat \ {0}
  BY DEF Counter!CounterAssumption
<1>2. counter_clock \in Nat /\ counter_admitted \in Seq(0 .. counter_clock)
  BY DEF Counter!TypeOK
<1>3. Counter!current \in Nat
  <2>1. counter_clock <= counter_clock
    BY <1>2
  <2>2. counter_clock \div Second \in Nat
    BY <1>1, <1>2, <2>1, SecondsInOrder
  <2> QED
    BY <2>2 DEF Counter!current
<1>4. Len(counter_admitted) \in Nat /\ DOMAIN counter_admitted = 1 .. Len(counter_admitted)
  BY <1>2, LenProperties
<1> QED
  BY <1>1, <1>2, <1>3, <1>4 DEF Counter!TypeOK

\* What is pruned keeps its counts, and the units of the window.
LEMMA PrunedIs ==
    ASSUME Counter!CounterAssumption, Counter!TypeOK
    PROVE  /\ DOMAIN Counter!Pruned = {s \in DOMAIN counters : s >= Counter!current - window_size}
           /\ \A s \in DOMAIN Counter!Pruned : Counter!Pruned[s] = counters[s]
           /\ \A from \in Int : from >= Counter!current - window_size =>
                 Units(Counter!Pruned, from) = Units(counters, from)
           /\ Units(Counter!Pruned, 0) = Units(counters, Counter!current - window_size)
<1>1. /\ DOMAIN Counter!Pruned = {s \in DOMAIN counters : s >= Counter!current - window_size}
      /\ \A s \in DOMAIN Counter!Pruned : Counter!Pruned[s] = counters[s]
  BY DEF Counter!Pruned, Counter!InWindow
<1>2. DOMAIN counters \subseteq Nat /\ Counter!current - window_size \in Int
  BY CounterTypes
<1> HIDE DEF Counter!Pruned
<1>3. ASSUME NEW from \in Int, from >= Counter!current - window_size
      PROVE  Units(Counter!Pruned, from) = Units(counters, from)
  <2>1. \A s \in DOMAIN counters : from <= s => s \in DOMAIN Counter!Pruned
    BY <1>1, <1>2, <1>3
  <2>2. ASSUME NEW s, NEW k
        PROVE  <<s, k>> \in Units(Counter!Pruned, from) <=> <<s, k>> \in Units(counters, from)
    <3>1. <<s, k>> \in Units(Counter!Pruned, from) <=>
            s \in DOMAIN Counter!Pruned /\ k \in 1 .. max_requests /\ from <= s /\ k <= Counter!Pruned[s]
      BY UnitsAre
    <3>2. <<s, k>> \in Units(counters, from) <=>
            s \in DOMAIN counters /\ k \in 1 .. max_requests /\ from <= s /\ k <= counters[s]
      BY UnitsAre
    <3> QED
      BY <1>1, <2>1, <3>1, <3>2
  <2> QED
    BY <2>2, SameUnits
<1>4. Units(Counter!Pruned, 0) = Units(counters, Counter!current - window_size)
  <2>1. \A s \in DOMAIN counters :
            Counter!current - window_size <= s <=> s \in DOMAIN Counter!Pruned /\ 0 <= s
    BY <1>1, <1>2
  <2>2. ASSUME NEW s, NEW k
        PROVE  <<s, k>> \in Units(Counter!Pruned, 0)
                 <=> <<s, k>> \in Units(counters, Counter!current - window_size)
    <3>1. <<s, k>> \in Units(Counter!Pruned, 0) <=>
            s \in DOMAIN Counter!Pruned /\ k \in 1 .. max_requests /\ 0 <= s /\ k <= Counter!Pruned[s]
      BY UnitsAre
    <3>2. <<s, k>> \in Units(counters, Counter!current - window_size) <=>
            /\ s \in DOMAIN counters /\ k \in 1 .. max_requests
            /\ Counter!current - window_size <= s /\ k <= counters[s]
      BY UnitsAre
    <3> QED
      BY <1>1, <2>1, <3>1, <3>2
  <2> QED
    BY <2>2, SameUnits
<1> QED
  BY <1>1, <1>3, <1>4

\* The total is the number of units in the window.
LEMMA TotalIs ==
    ASSUME Counter!CounterAssumption, Counter!TypeOK
    PROVE  Counter!Total = Cardinality(Units(counters, Counter!current - window_size))
<1> DEFINE P == Counter!Pruned
           U == UNION {{s} \X (1 .. P[s]) : s \in DOMAIN P}
<1>1. \A s \in DOMAIN P : P[s] \in 1 .. max_requests /\ s \in Nat
  BY PrunedIs, CounterTypes
<1>2. max_requests \in Nat
  BY CounterTypes
<1>3. Counter!Total = Cardinality(U)
  BY DEF Counter!Total, Counter!Cardinality, Cardinality, Counter!IsFiniteSet, IsFiniteSet
<1> HIDE DEF P
<1>4. U = Units(P, 0)
  <2>1. ASSUME NEW u \in U PROVE u \in Units(P, 0)
    <3>1. PICK s \in DOMAIN P : u \in {s} \X (1 .. P[s])
      BY <2>1
    <3>2. PICK k \in 1 .. P[s] : u = <<s, k>>
      BY <3>1
    <3>3. k \in 1 .. max_requests /\ k <= P[s] /\ 0 <= s
      BY <1>1, <1>2, <3>2
    <3> QED
      BY <3>2, <3>3, UnitsAre
  <2>2. ASSUME NEW u \in Units(P, 0) PROVE u \in U
    <3>1. PICK s \in DOMAIN P, k \in 1 .. max_requests : u = <<s, k>>
      BY <2>2, UnitsAre
    <3>2. k <= P[s]
      BY <2>2, <3>1, UnitsAre
    <3>3. k \in 1 .. P[s]
      BY <1>1, <1>2, <3>1, <3>2
    <3>4. u \in {s} \X (1 .. P[s])
      BY <3>1, <3>3
    <3> QED
      BY <3>4
  <2> QED
    BY <2>1, <2>2
<1> QED
  BY <1>3, <1>4, PrunedIs DEF P

\* The requests let through are finitely many, and those in the order of time.
LEMMA SinceFinite ==
    ASSUME Counter!CounterAssumption, Counter!TypeOK, NEW from \in Int
    PROVE  IsFiniteSet(Since(from)) /\ Cardinality(Since(from)) \in Nat
<1>1. Since(from) \subseteq 1 .. Len(counter_admitted) /\ Len(counter_admitted) \in Nat
  BY CounterTypes DEF Since
<1>2. IsFiniteSet(1 .. Len(counter_admitted))
  BY <1>1, FS_Interval
<1> QED
  BY <1>1, <1>2, FS_Subset, FS_CardinalityType

LEMMA CounterInit ==
    ASSUME Counter!CounterAssumption, Counter!Init
    PROVE  CounterInv
<1>1. /\ window_size \in Nat \ {0} /\ max_requests \in Nat \ {0} /\ Second \in Nat \ {0}
      /\ 0 \div Second \in Nat
  BY SecondsInOrder, 0 \in Nat, 0 <= 0 DEF Counter!CounterAssumption
<1>2. DOMAIN counters = {} /\ counter_admitted = <<>> /\ DOMAIN counter_admitted = {}
  BY DEF Counter!Init
<1>3. counter_admitted \in Seq(0 .. counter_clock)
  BY <1>2
<1>4. Counter!TypeOK
  BY <1>1, <1>2, <1>3 DEF Counter!Init, Counter!TypeOK, Counter!current
<1>5. \A from : Units(counters, from) = {} /\ Since(from) = {}
  BY <1>2, UnitsAre DEF Since
<1>6. CountsAdmitted
  BY <1>5, FS_EmptySet DEF CountsAdmitted
<1>7. WithinLimit
  BY <1>1, <1>5, FS_EmptySet DEF WithinLimit
<1> QED
  BY <1>2, <1>4, <1>6, <1>7
     DEF CounterInv, InOrder, FullAtRefusal, Counter!Init, Counter!NoBoundaryBurst

\* The window moves with the clock: from the seconds left in it on nothing changes.
LEMMA CounterTickKeeps ==
    ASSUME Counter!CounterAssumption, CounterInv, Counter!Tick
    PROVE  CounterInv'
<1>1. /\ counters' = counters /\ counter_admitted' = counter_admitted /\ retry_at' = retry_at
      /\ counter_clock' = counter_clock + 1
  BY DEF Counter!Tick
<1>2. Counter!TypeOK
  BY DEF CounterInv
<1>3. /\ counter_clock \in Nat /\ Second \in Nat \ {0} /\ window_size \in Nat
      /\ counter_admitted \in Seq(0 .. counter_clock)
  BY <1>2, CounterTypes
<1>4. Counter!current \in Nat /\ Counter!current' \in Nat /\ Counter!current <= Counter!current'
  <2>1. /\ counter_clock \div Second \in Nat /\ (counter_clock + 1) \div Second \in Nat
        /\ counter_clock \div Second <= (counter_clock + 1) \div Second
    BY <1>3, SecondsInOrder, counter_clock + 1 \in Nat, counter_clock <= counter_clock + 1
  <2> QED
    BY <1>1, <2>1 DEF Counter!current
<1>5. Counter!TypeOK'
  <2>1. counter_admitted' \in Seq(0 .. counter_clock')
    BY <1>1, <1>3
  <2>2. retry_at' \in {-1} \cup 0 .. Counter!current' + window_size
    <3>1. \A c, d, w \in Nat : c <= d => 0 .. c + w \subseteq 0 .. d + w
      OBVIOUS
    <3>2. 0 .. Counter!current + window_size \subseteq 0 .. Counter!current' + window_size
      BY <1>3, <1>4, <3>1
    <3> QED
      BY <1>1, <1>2, <3>2 DEF Counter!TypeOK
  <2>3. DOMAIN counters' \subseteq 0 .. Counter!current'
    BY <1>1, <1>2, <1>4 DEF Counter!TypeOK
  <2> QED
    BY <1>1, <1>2, <1>3, <2>1, <2>2, <2>3 DEF Counter!TypeOK
<1>6. CountsAdmitted'
  <2> SUFFICES ASSUME NEW from \in Int, from >= Counter!current' - window_size
               PROVE  Cardinality(Units(counters', from)) = Cardinality(Since(from)')
    BY DEF CountsAdmitted, Units, Since
  <2>1. from >= Counter!current - window_size
    <3>1. \A c, d, w \in Nat : c <= d /\ from >= d - w => from >= c - w
      OBVIOUS
    <3> QED
      BY <1>3, <1>4, <3>1
  <2>2. Since(from)' = Since(from)
    BY <1>1 DEF Since
  <2> QED
    BY <1>1, <2>1, <2>2 DEF CounterInv, CountsAdmitted
<1>7. InOrder' /\ WithinLimit' /\ FullAtRefusal' /\ Counter!NoBoundaryBurst'
  BY <1>1 DEF CounterInv, InOrder, WithinLimit, FullAtRefusal, Units, Counter!NoBoundaryBurst
<1> QED
  BY <1>5, <1>6, <1>7 DEF CounterInv

-----------------------------------------------------------------------------
(* SlidingWindowCounter: a request is let through.                          *)

\* What the bucket of this second held.
Held == IF Counter!current \in DOMAIN Counter!Pruned THEN Counter!Pruned[Counter!current] ELSE 0

\* The bucket of this second is part of the total.
LEMMA HeldIsLess ==
    ASSUME Counter!CounterAssumption, Counter!TypeOK, Counter!HasRoom
    PROVE  Held \in 0 .. max_requests - 1
<1> DEFINE c == Counter!current
           W == Units(counters, c - window_size)
           T == {c} \X (1 .. Held)
<1>1. /\ c \in Nat /\ window_size \in Nat /\ max_requests \in Nat \ {0} /\ c - window_size \in Int
      /\ DOMAIN counters \subseteq 0 .. c
  BY CounterTypes
<1>2. IsFiniteSet(W) /\ Cardinality(W) < max_requests /\ Cardinality(W) \in Nat
  BY <1>1, TotalIs, UnitsFinite DEF Counter!HasRoom
<1>3. CASE c \in DOMAIN Counter!Pruned
  <2>1. Held = counters[c] /\ c \in DOMAIN counters /\ Held \in 1 .. max_requests
    BY <1>3, PrunedIs, CounterTypes DEF Held
  <2>2. T \subseteq W
    <3> SUFFICES ASSUME NEW k \in 1 .. Held PROVE <<c, k>> \in W
      OBVIOUS
    <3>1. k \in 1 .. max_requests /\ k <= counters[c] /\ c - window_size <= c
      BY <1>1, <2>1
    <3> QED
      BY <2>1, <3>1, UnitsAre
  <2>3. Cardinality(T) = Held
    <3>1. IsFiniteSet({c}) /\ Cardinality({c}) = 1
      BY FS_Singleton
    <3>2. IsFiniteSet(1 .. Held) /\ Cardinality(1 .. Held) = Held
      BY <2>1, FS_Interval
    <3>3. Cardinality(T) = 1 * Held
      <4>1. Cardinality({c} \X (1 .. Held)) = Cardinality({c}) * Cardinality(1 .. Held)
        BY <3>1, <3>2, FS_Product
      <4> QED
        BY <3>1, <3>2, <4>1
    <3> QED
      BY <2>1, <3>3
  <2>4. Cardinality(T) <= Cardinality(W)
    BY <1>2, <2>2, FS_Subset
  <2> QED
    BY <1>1, <1>2, <2>1, <2>3, <2>4
<1>4. CASE c \notin DOMAIN Counter!Pruned
  BY <1>1, <1>4 DEF Held
<1> QED
  BY <1>3, <1>4

\* The request is one more unit, from this second or an earlier one on.
LEMMA CountedIs ==
    ASSUME Counter!CounterAssumption, Counter!TypeOK, Counter!HasRoom
    PROVE  /\ DOMAIN Counter!Counted = DOMAIN Counter!Pruned \cup {Counter!current}
           /\ \A s \in DOMAIN Counter!Counted : Counter!Counted[s] \in 1 .. max_requests
           /\ \A from \in Int :
                 /\ from <= Counter!current =>
                       Cardinality(Units(Counter!Counted, from))
                          = Cardinality(Units(Counter!Pruned, from)) + 1
                 /\ from > Counter!current =>
                       Units(Counter!Counted, from) = Units(Counter!Pruned, from)
<1> DEFINE c == Counter!current
           P == Counter!Pruned
           C == Counter!Counted
<1>1. /\ c \in Nat /\ max_requests \in Nat \ {0} /\ DOMAIN P \subseteq 0 .. c
      /\ \A s \in DOMAIN P : P[s] \in 1 .. max_requests
  BY CounterTypes, PrunedIs
<1>2. /\ DOMAIN C = DOMAIN P \cup {c}
      /\ \A s \in DOMAIN P : s # c => C[s] = P[s]
      /\ C[c] = Held + 1
  <2>1. C = [s \in DOMAIN P \cup {c} |->
                (IF s \in DOMAIN P THEN P[s] ELSE 0) + (IF s = c THEN 1 ELSE 0)]
    BY DEF Counter!Counted
  <2>2. C[c] = Held + 1
    BY <2>1 DEF Held
  <2>3. ASSUME NEW s \in DOMAIN P, s # c PROVE C[s] = P[s]
    <3>1. C[s] = P[s] + 0
      BY <2>1, <2>3
    <3> QED
      BY <1>1, <3>1
  <2> QED
    BY <2>1, <2>2, <2>3
<1>3. Held \in 0 .. max_requests - 1 /\ Held + 1 \in 1 .. max_requests
  BY <1>1, HeldIsLess
<1>4. c \in DOMAIN P => P[c] = Held
  BY DEF Held
<1>5. c \notin DOMAIN P => Held = 0
  BY DEF Held
<1> HIDE DEF P, C, c
<1>6. ASSUME NEW from \in Int, from <= c
      PROVE  Cardinality(Units(C, from)) = Cardinality(Units(P, from)) + 1
  <2>1. <<c, Held + 1>> \notin Units(P, from)
    BY <1>3, <1>4, UnitsAre
  <2>2. Units(C, from) = Units(P, from) \cup {<<c, Held + 1>>}
    <3>1. ASSUME NEW u \in Units(C, from) PROVE u \in Units(P, from) \cup {<<c, Held + 1>>}
      <4>1. PICK s \in DOMAIN C, k \in 1 .. max_requests : u = <<s, k>>
        BY <3>1, UnitsAre
      <4>2. from <= s /\ k <= C[s]
        BY <3>1, <4>1, UnitsAre
      <4>3. CASE s # c
        BY <1>2, <4>1, <4>2, <4>3, UnitsAre
      <4>4. CASE s = c /\ k # Held + 1
        <5>1. k <= Held /\ c \in DOMAIN P
          BY <1>2, <1>3, <1>5, <4>1, <4>2, <4>4
        <5> QED
          BY <1>4, <4>1, <4>2, <4>4, <5>1, UnitsAre
      <4> QED
        BY <4>1, <4>3, <4>4
    <3>2. ASSUME NEW u \in Units(P, from) PROVE u \in Units(C, from)
      <4>1. PICK s \in DOMAIN P, k \in 1 .. max_requests : u = <<s, k>>
        BY <3>2, UnitsAre
      <4>2. from <= s /\ k <= P[s]
        BY <3>2, <4>1, UnitsAre
      <4>3. k <= C[s] /\ s \in DOMAIN C
        BY <1>1, <1>2, <1>3, <1>4, <4>1, <4>2
      <4> QED
        BY <4>1, <4>2, <4>3, UnitsAre
    <3>3. <<c, Held + 1>> \in Units(C, from)
      BY <1>2, <1>3, <1>6, UnitsAre
    <3> QED
      BY <3>1, <3>2, <3>3
  <2>3. IsFiniteSet(Units(P, from))
    BY <1>1, UnitsFinite
  <2> QED
    BY <2>1, <2>2, <2>3, FS_AddElement
<1>7. ASSUME NEW from \in Int, from > c
      PROVE  Units(C, from) = Units(P, from)
  <2>1. ASSUME NEW s, NEW k PROVE <<s, k>> \in Units(C, from) <=> <<s, k>> \in Units(P, from)
    <3>1. <<s, k>> \in Units(C, from) <=>
            s \in DOMAIN C /\ k \in 1 .. max_requests /\ from <= s /\ k <= C[s]
      BY UnitsAre
    <3>2. <<s, k>> \in Units(P, from) <=>
            s \in DOMAIN P /\ k \in 1 .. max_requests /\ from <= s /\ k <= P[s]
      BY UnitsAre
    <3> QED
      BY <1>1, <1>2, <1>7, <3>1, <3>2
  <2> QED
    BY <2>1, SameUnits
<1>8. \A s \in DOMAIN C : C[s] \in 1 .. max_requests
  BY <1>1, <1>2, <1>3
<1> QED
  BY <1>2, <1>6, <1>7, <1>8 DEF P, C, c

\* It is one more of the requests let through, likewise.
LEMMA SinceGrows ==
    ASSUME Counter!CounterAssumption, Counter!TypeOK, NEW from \in Int,
           counter_admitted' = Append(counter_admitted, counter_clock)
    PROVE  /\ from <= Counter!current =>
                 Cardinality(Since(from)') = Cardinality(Since(from)) + 1
           /\ from > Counter!current => Since(from)' = Since(from)
<1> DEFINE n == Len(counter_admitted)
<1>1. /\ counter_admitted \in Seq(0 .. counter_clock) /\ counter_clock \in 0 .. counter_clock
      /\ n \in Nat /\ DOMAIN counter_admitted = 1 .. n /\ Counter!current \in Nat
  BY CounterTypes
<1>2. /\ Len(counter_admitted') = n + 1 /\ DOMAIN counter_admitted' = 1 .. n + 1
      /\ counter_admitted'[n + 1] = counter_clock
      /\ \A i \in 1 .. n : counter_admitted'[i] = counter_admitted[i]
  BY <1>1, AppendProperties, LenProperties
<1>3. counter_admitted'[n + 1] \div Second = Counter!current
  BY <1>2 DEF Counter!current
<1> HIDE DEF n
<1>4. ASSUME from <= Counter!current
      PROVE  Cardinality(Since(from)') = Cardinality(Since(from)) + 1
  <2>1. Since(from)' = Since(from) \cup {n + 1}
    BY <1>1, <1>2, <1>3, <1>4 DEF Since
  <2>2. n + 1 \notin Since(from)
    BY <1>1 DEF Since
  <2> QED
    BY <2>1, <2>2, SinceFinite, FS_AddElement
<1>5. ASSUME from > Counter!current
      PROVE  Since(from)' = Since(from)
  BY <1>1, <1>2, <1>3, <1>5 DEF Since
<1> QED
  BY <1>4, <1>5

\* With room in the window, a window that ends now has one request more than was
\* counted, at most.
LEMMA NoBurstOnAdmission ==
    ASSUME Counter!CounterAssumption, CounterInv, Counter!HasRoom,
           counter_admitted' = Append(counter_admitted, counter_clock)
    PROVE  Counter!NoBoundaryBurst'
<1> DEFINE n == Len(counter_admitted)
           c == Counter!current
<1>1. /\ counter_admitted \in Seq(0 .. counter_clock) /\ counter_clock \in Nat
      /\ n \in Nat /\ DOMAIN counter_admitted = 1 .. n
      /\ c \in Nat /\ c - window_size \in Int
      /\ window_size \in Nat /\ Second \in Nat \ {0} /\ max_requests \in Nat \ {0}
  BY CounterTypes DEF CounterInv
<1>2. /\ Len(counter_admitted') = n + 1 /\ DOMAIN counter_admitted' = 1 .. n + 1
      /\ counter_admitted'[n + 1] = counter_clock
      /\ \A i \in 1 .. n : counter_admitted'[i] = counter_admitted[i]
  <2>1. counter_clock \in 0 .. counter_clock
    BY <1>1
  <2> QED
    BY <1>1, <2>1, AppendProperties, LenProperties
<1>3. \A i \in 1 .. n : counter_admitted[i] \in Nat /\ counter_admitted[i] <= counter_clock
  BY <1>1, ElementOfSeq
<1>4. Cardinality(Since(c - window_size)) < max_requests
  <2>1. Counter!TypeOK
    BY DEF CounterInv
  <2>2. c - window_size >= c - window_size
    BY <1>1
  <2>3. Cardinality(Units(counters, c - window_size)) = Cardinality(Since(c - window_size))
    BY <1>1, <2>2 DEF CounterInv, CountsAdmitted
  <2> QED
    BY <2>1, <2>3, TotalIs DEF Counter!HasRoom
<1>5. ASSUME NEW i \in 1 .. n, counter_clock - counter_admitted[i] <= window_size * Second
      PROVE  (n + 1) - i + 1 <= max_requests
  <2>1. i .. n \subseteq Since(c - window_size)
    <3> SUFFICES ASSUME NEW l \in i .. n PROVE l \in Since(c - window_size)
      OBVIOUS
    <3>1. l \in 1 .. n /\ counter_admitted[i] <= counter_admitted[l]
      BY <1>1, SMTT(30) DEF CounterInv, InOrder
    <3>2. counter_clock - counter_admitted[l] <= counter_clock - counter_admitted[i]
      BY <1>1, <1>3, <3>1
    <3>3. window_size * Second \in Nat
      BY <1>1
    <3>4. counter_clock - counter_admitted[l] <= window_size * Second
      BY <1>1, <1>3, <1>5, <3>1, <3>2, <3>3
    <3>5. counter_admitted[l] \div Second >= counter_clock \div Second - window_size
      BY <1>1, <1>3, <3>1, <3>4, SecondsApart
    <3> QED
      BY <1>1, <3>1, <3>5 DEF Since, Counter!current
  <2>2. IsFiniteSet(Since(c - window_size)) /\ Cardinality(Since(c - window_size)) \in Nat
    BY <1>1, SinceFinite DEF CounterInv
  <2>3. Cardinality(i .. n) <= Cardinality(Since(c - window_size))
    BY <2>1, <2>2, FS_Subset
  <2>4. Cardinality(i .. n) = n - i + 1
    BY <1>1, FS_Interval
  <2> QED
    BY <1>1, <1>4, <2>2, <2>3, <2>4
<1> HIDE DEF n, c
<1> SUFFICES ASSUME NEW i \in 1 .. n + 1, NEW j \in 1 .. n + 1, i <= j,
                    counter_admitted'[j] - counter_admitted'[i] <= window_size * Second
             PROVE  j - i + 1 <= max_requests
  BY <1>2 DEF Counter!NoBoundaryBurst
<1>6. CASE j \in 1 .. n
  <2>1. i \in 1 .. n
    BY <1>1, <1>6
  <2> QED
    BY <1>1, <1>2, <1>6, <2>1 DEF CounterInv, Counter!NoBoundaryBurst
<1>7. CASE j = n + 1 /\ i \in 1 .. n
  BY <1>2, <1>5, <1>7
<1>8. CASE j = n + 1 /\ i = n + 1
  BY <1>1, <1>8
<1> QED
  BY <1>1, <1>6, <1>7, <1>8

LEMMA AdmitKeeps ==
    ASSUME Counter!CounterAssumption, CounterInv, Counter!AllowRequest, Counter!HasRoom
    PROVE  CounterInv'
<1> DEFINE c == Counter!current
<1>1. /\ counters' = Counter!Counted /\ counter_admitted' = Append(counter_admitted, counter_clock)
      /\ retry_at' = -1 /\ counter_clock' = counter_clock /\ Counter!current' = c
  BY DEF Counter!AllowRequest, Counter!current
<1>2. Counter!TypeOK
  BY DEF CounterInv
<1>3. /\ c \in Nat /\ c - window_size \in Int /\ counter_clock \in Nat
      /\ window_size \in Nat /\ max_requests \in Nat \ {0}
      /\ counter_admitted \in Seq(0 .. counter_clock) /\ counter_clock \in 0 .. counter_clock
      /\ DOMAIN counters \subseteq 0 .. c
  BY <1>2, CounterTypes
<1>4. Counter!TypeOK'
  <2>1. counter_admitted' \in Seq(0 .. counter_clock)
    BY <1>1, <1>3, AppendProperties
  <2>2. DOMAIN counters' \subseteq 0 .. c
    BY <1>1, <1>2, <1>3, PrunedIs, CountedIs
  <2>3. \A s \in DOMAIN counters' : counters'[s] \in 1 .. max_requests
    BY <1>1, <1>2, CountedIs
  <2> QED
    BY <1>1, <1>3, <2>1, <2>2, <2>3 DEF Counter!TypeOK
<1>5. InOrder'
  <2> DEFINE n == Len(counter_admitted)
  <2>1. /\ n \in Nat /\ DOMAIN counter_admitted = 1 .. n
        /\ Len(counter_admitted') = n + 1 /\ DOMAIN counter_admitted' = 1 .. n + 1
        /\ counter_admitted'[n + 1] = counter_clock
        /\ \A i \in 1 .. n : counter_admitted'[i] = counter_admitted[i]
    BY <1>1, <1>3, AppendProperties, LenProperties
  <2>2. \A i \in 1 .. n : counter_admitted[i] <= counter_clock
    BY <1>3, <2>1, ElementOfSeq
  <2> HIDE DEF n
  <2>3. \A i, j \in 1 .. n : i <= j => counter_admitted[i] <= counter_admitted[j]
    BY <2>1 DEF CounterInv, InOrder
  <2>4. ASSUME NEW i \in 1 .. n + 1, NEW j \in 1 .. n + 1, i <= j
        PROVE  counter_admitted'[i] <= counter_admitted'[j]
    <3>1. CASE j \in 1 .. n
      BY <2>1, <2>3, <2>4, <3>1
    <3>2. CASE j = n + 1 /\ i \in 1 .. n
      BY <2>1, <2>2, <3>2
    <3>3. CASE j = n + 1 /\ i = n + 1
      BY <1>3, <2>1, <3>3
    <3> QED
      BY <2>1, <3>1, <3>2, <3>3
  <2> QED
    BY <2>1, <2>4 DEF InOrder
<1>6. CountsAdmitted'
  <2> SUFFICES ASSUME NEW from \in Int, from >= c - window_size
               PROVE  Cardinality(Units(Counter!Counted, from)) = Cardinality(Since(from)')
    BY <1>1 DEF CountsAdmitted, Units, Since
  <2>1. Units(Counter!Pruned, from) = Units(counters, from)
    BY <1>2, PrunedIs
  <2>2. Cardinality(Units(counters, from)) = Cardinality(Since(from))
    BY DEF CounterInv, CountsAdmitted
  <2>3. CASE from <= c
    BY <1>1, <1>2, <2>1, <2>2, <2>3, CountedIs, SinceGrows
  <2>4. CASE from > c
    BY <1>1, <1>2, <2>1, <2>2, <2>4, CountedIs, SinceGrows
  <2> QED
    BY <1>3, <2>3, <2>4
<1>7. WithinLimit'
  <2>1. Cardinality(Units(Counter!Counted, 0)) = Cardinality(Units(Counter!Pruned, 0)) + 1
    BY <1>2, <1>3, CountedIs
  <2>2. Units(Counter!Pruned, 0) = Units(counters, c - window_size)
    BY <1>2, PrunedIs
  <2>3. Cardinality(Units(counters, c - window_size)) < max_requests
    BY <1>2, TotalIs DEF Counter!HasRoom
  <2>4. Cardinality(Units(counters, c - window_size)) \in Nat
    BY <1>3, UnitsFinite
  <2>5. Cardinality(Units(Counter!Counted, 0)) <= max_requests
    BY <1>3, <2>1, <2>2, <2>3, <2>4
  <2> QED
    BY <1>1, <2>5 DEF WithinLimit, Units
<1>8. FullAtRefusal'
  BY <1>1 DEF FullAtRefusal
<1>9. Counter!NoBoundaryBurst'
  BY <1>1, NoBurstOnAdmission
<1> QED
  BY <1>4, <1>5, <1>6, <1>7, <1>8, <1>9 DEF CounterInv

-----------------------------------------------------------------------------
(* SlidingWindowCounter: a request is refused.                              *)

\* A set of seconds that is not empty has an earliest one: the interval from zero
\* to it is the smallest for inclusion.
LEMMA EarliestSecond ==
  ASSUME NEW S, S \subseteq Nat, S # {}
  PROVE  \E t \in S : \A s \in S : t <= s
<1>1. PICK n \in S : TRUE
  OBVIOUS
<1> DEFINE T == {x \in SUBSET (0 .. n) : \E t \in S : t <= n /\ x = 0 .. t}
           R == StrictSubsetOrdering(0 .. n)
<1>2. n \in Nat /\ IsFiniteSet(0 .. n)
  BY <1>1, FS_Interval
<1>3. IsWellFoundedOn(R, SUBSET (0 .. n))
  BY <1>2, FS_StrictSubsetOrderingWellFounded, FS_FiniteSubsetsOfFinite
<1>4. \A t \in S : t <= n => 0 .. t \in T
  BY <1>2
<1>5. T \subseteq SUBSET (0 .. n) /\ T # {}
  BY <1>1, <1>2, <1>4
<1> HIDE DEF R
<1>6. PICK x \in T : \A y \in T : <<y, x>> \notin R
  BY <1>3, <1>5, WFMin
<1>7. PICK t \in S : t <= n /\ x = 0 .. t
  BY <1>6
<1>8. ASSUME NEW s \in S, ~ (t <= s) PROVE FALSE
  <2>1. s \in Nat /\ t \in Nat /\ s < t /\ s <= n
    BY <1>2, <1>7, <1>8
  <2>2. /\ 0 .. s \subseteq 0 .. n /\ 0 .. t \subseteq 0 .. n
        /\ 0 .. s \subseteq 0 .. t /\ t \notin 0 .. s /\ t \in 0 .. t
    BY <2>1, <1>2, <1>7
  <2>3. <<0 .. s, 0 .. t>> \in R
    BY <2>2 DEF R, StrictSubsetOrdering
  <2> QED  BY <2>1, <2>3, <1>4, <1>6, <1>7
<1> QED  BY <1>8


\* A refused client finds a bucket in the window, and the oldest is the first.
LEMMA OldestSecond ==
    ASSUME Counter!CounterAssumption, Counter!TypeOK, ~ Counter!HasRoom
    PROVE  /\ Counter!Oldest \in DOMAIN Counter!Pruned
           /\ \A t \in DOMAIN Counter!Pruned : Counter!Oldest <= t
           /\ Cardinality(Units(Counter!Pruned, 0)) >= max_requests
<1> DEFINE P == Counter!Pruned
<1>1. /\ DOMAIN P \subseteq Nat /\ max_requests \in Nat \ {0}
      /\ DOMAIN counters \subseteq 0 .. Counter!current /\ Counter!current \in Nat
      /\ window_size \in Nat
  BY CounterTypes, PrunedIs
<1>2. Cardinality(Units(P, 0)) >= max_requests
  <2>1. Counter!Total = Cardinality(Units(P, 0))
    BY TotalIs, PrunedIs
  <2>2. Cardinality(Units(counters, Counter!current - window_size)) \in Nat
    BY <1>1, UnitsFinite
  <2> QED
    BY <1>1, <2>1, <2>2, TotalIs DEF Counter!HasRoom
<1>3. DOMAIN P # {}
  <2>1. Units(P, 0) # {}
    BY <1>1, <1>2, FS_EmptySet
  <2> QED
    BY <2>1, UnitsAre
<1>4. \E s \in DOMAIN P : \A t \in DOMAIN P : s <= t
  <2> HIDE DEF P
  <2> QED
    BY <1>1, <1>3, EarliestSecond
<1> QED
  BY <1>2, <1>4 DEF Counter!Oldest

LEMMA RefuseKeeps ==
    ASSUME Counter!CounterAssumption, CounterInv, Counter!AllowRequest, ~ Counter!HasRoom
    PROVE  CounterInv'
<1> DEFINE c == Counter!current
<1>1. /\ counters' = Counter!Pruned /\ counter_admitted' = counter_admitted
      /\ retry_at' = Counter!Oldest + window_size
      /\ counter_clock' = counter_clock /\ Counter!current' = c
  BY DEF Counter!AllowRequest, Counter!current
<1>2. Counter!TypeOK
  BY DEF CounterInv
<1>3. /\ c \in Nat /\ c - window_size \in Int /\ counter_clock \in Nat
      /\ window_size \in Nat /\ max_requests \in Nat \ {0}
      /\ DOMAIN counters \subseteq 0 .. c
  BY <1>2, CounterTypes
<1>4. /\ DOMAIN Counter!Pruned \subseteq 0 .. c /\ Counter!Oldest \in 0 .. c
      /\ \A s \in DOMAIN Counter!Pruned : Counter!Pruned[s] \in 1 .. max_requests
  BY <1>2, <1>3, PrunedIs, CounterTypes, OldestSecond
<1>5. Counter!TypeOK'
  <2>1. Counter!Oldest + window_size \in {-1} \cup 0 .. c + window_size
    BY <1>3, <1>4
  <2> QED
    BY <1>1, <1>2, <1>4, <2>1 DEF Counter!TypeOK
<1>6. CountsAdmitted'
  <2> SUFFICES ASSUME NEW from \in Int, from >= c - window_size
               PROVE  Cardinality(Units(Counter!Pruned, from)) = Cardinality(Since(from))
    BY <1>1 DEF CountsAdmitted, Units, Since
  <2>1. Units(Counter!Pruned, from) = Units(counters, from)
    BY <1>2, PrunedIs
  <2> QED
    BY <2>1 DEF CounterInv, CountsAdmitted
<1>7. WithinLimit'
  <2>1. Units(Counter!Pruned, 0) = Units(counters, c - window_size)
    BY <1>2, PrunedIs
  <2>2. Units(counters, c - window_size) \subseteq Units(counters, 0)
    <3>1. ASSUME NEW u \in Units(counters, c - window_size) PROVE u \in Units(counters, 0)
      <4>1. PICK s \in DOMAIN counters, k \in 1 .. max_requests : u = <<s, k>>
        BY <3>1, UnitsAre
      <4>2. k <= counters[s] /\ 0 <= s
        BY <1>3, <3>1, <4>1, UnitsAre
      <4> QED
        BY <4>1, <4>2, UnitsAre
    <3> QED
      BY <3>1
  <2>3. /\ IsFiniteSet(Units(counters, 0)) /\ Cardinality(Units(counters, 0)) \in Nat
        /\ Cardinality(Units(counters, c - window_size)) \in Nat
    BY <1>3, UnitsFinite
  <2>4. Cardinality(Units(counters, c - window_size)) <= Cardinality(Units(counters, 0))
    BY <2>2, <2>3, FS_Subset
  <2>5. Cardinality(Units(counters, 0)) <= max_requests
    BY DEF CounterInv, WithinLimit
  <2>6. Cardinality(Units(Counter!Pruned, 0)) <= max_requests
    BY <1>3, <2>1, <2>3, <2>4, <2>5
  <2> QED
    BY <1>1, <2>6 DEF WithinLimit, Units
<1>8. FullAtRefusal'
  <2>1. /\ Counter!Oldest \in DOMAIN Counter!Pruned
        /\ \A t \in DOMAIN Counter!Pruned : Counter!Oldest <= t
        /\ Cardinality(Units(Counter!Pruned, 0)) >= max_requests
    BY <1>2, OldestSecond
  <2> QED
    BY <1>1, <2>1 DEF FullAtRefusal, Units
<1>9. InOrder' /\ Counter!NoBoundaryBurst'
  BY <1>1 DEF CounterInv, InOrder, Counter!NoBoundaryBurst
<1> QED
  BY <1>5, <1>6, <1>7, <1>8, <1>9 DEF CounterInv

\* After retry_at the oldest bucket has left the window, and the others had room for it.
LEMMA RoomIsAfterRetry ==
    ASSUME Counter!CounterAssumption, CounterInv
    PROVE  Counter!RoomAfterRetry
<1> DEFINE c == Counter!current
           all == Units(counters, 0)
           inside == Units(counters, c - window_size)
<1> SUFFICES ASSUME retry_at # -1, c > retry_at
             PROVE  Counter!HasRoom
  BY DEF Counter!RoomAfterRetry
<1>1. Counter!TypeOK
  BY DEF CounterInv
<1>2. /\ c \in Nat /\ c - window_size \in Int /\ window_size \in Nat /\ max_requests \in Nat \ {0}
      /\ DOMAIN counters \subseteq 0 .. c
      /\ \A s \in DOMAIN counters : counters[s] \in 1 .. max_requests
  BY <1>1, CounterTypes
<1>3. PICK s \in DOMAIN counters :
         retry_at = s + window_size /\ \A t \in DOMAIN counters : s <= t
  BY DEF CounterInv, FullAtRefusal
<1>4. /\ IsFiniteSet(all) /\ Cardinality(all) = max_requests
      /\ IsFiniteSet(inside) /\ Cardinality(inside) \in Nat
  <2>1. IsFiniteSet(all) /\ Cardinality(all) \in Nat /\ IsFiniteSet(inside) /\ Cardinality(inside) \in Nat
    BY <1>2, UnitsFinite
  <2>2. Cardinality(all) >= max_requests /\ Cardinality(all) <= max_requests
    BY DEF CounterInv, FullAtRefusal, WithinLimit
  <2> QED
    BY <1>2, <2>1, <2>2
<1>5. Counter!HasRoom <=> Cardinality(inside) < max_requests
  BY <1>1, TotalIs DEF Counter!HasRoom
<1> HIDE DEF c
<1>6. Cardinality(inside) < max_requests
  <2>1. inside \subseteq all \ {<<s, 1>>}
    <3> SUFFICES ASSUME NEW u \in inside PROVE u \in all /\ u # <<s, 1>>
      OBVIOUS
    <3>1. PICK t \in DOMAIN counters, k \in 1 .. max_requests : u = <<t, k>>
      BY UnitsAre
    <3>2. c - window_size <= t /\ k <= counters[t]
      BY <3>1, UnitsAre
    <3>3. s < t /\ 0 <= t
      BY <1>2, <1>3, <3>2
    <3> QED
      BY <1>2, <3>1, <3>2, <3>3, UnitsAre
  <2>2. <<s, 1>> \in all
    <3>1. 1 \in 1 .. max_requests /\ 0 <= s /\ 1 <= counters[s]
      BY <1>2
    <3> QED
      BY <3>1, UnitsAre
  <2>3. IsFiniteSet(all \ {<<s, 1>>}) /\ Cardinality(all \ {<<s, 1>>}) = max_requests - 1
    BY <1>4, <2>2, FS_RemoveElement
  <2>4. Cardinality(inside) <= max_requests - 1
    BY <2>1, <2>3, FS_Subset
  <2> QED
    BY <1>2, <1>4, <2>4
<1> QED
  BY <1>5, <1>6

LEMMA CounterStep ==
    ASSUME Counter!CounterAssumption, CounterInv, [Counter!Next]_(Counter!vars)
    PROVE  CounterInv'
<1>1. CASE Counter!AllowRequest /\ Counter!HasRoom
  BY <1>1, AdmitKeeps
<1>2. CASE Counter!AllowRequest /\ ~ Counter!HasRoom
  BY <1>2, RefuseKeeps
<1>3. CASE Counter!Tick
  BY <1>3, CounterTickKeeps
<1>4. CASE UNCHANGED Counter!vars
  <2>1. /\ counters' = counters /\ counter_admitted' = counter_admitted
        /\ counter_clock' = counter_clock /\ retry_at' = retry_at
        /\ Counter!current' = Counter!current
    BY <1>4 DEF Counter!vars, Counter!current
  <2>2. Counter!TypeOK'
    BY <2>1 DEF CounterInv, Counter!TypeOK
  <2> QED
    BY <2>1, <2>2 DEF CounterInv, InOrder, CountsAdmitted, WithinLimit, FullAtRefusal, Units, Since,
                  Counter!NoBoundaryBurst
<1> QED
  BY <1>1, <1>2, <1>3, <1>4 DEF Counter!Next

-----------------------------------------------------------------------------
(* SlidingWindowCounter: the theorems.                                      *)

LEMMA CounterInvariant ==
    Counter!CounterAssumption => (Counter!Spec => []CounterInv)
<1> SUFFICES ASSUME Counter!CounterAssumption PROVE Counter!Spec => []CounterInv
  OBVIOUS
<1>1. Counter!Init => CounterInv
  BY CounterInit
<1>2. CounterInv /\ [Counter!Next]_(Counter!vars) => CounterInv'
  BY CounterStep
<1> QED
  BY <1>1, <1>2, PTL DEF Counter!Spec

\* No bucket counts more than the limit, none is of the future, and a client is told
\* to come back within the window.
THEOREM CounterTypeCorrect ==
    Counter!CounterAssumption => (Counter!Spec => []Counter!TypeOK)
<1>1. CounterInv => Counter!TypeOK
  BY DEF CounterInv
<1> QED
  BY <1>1, CounterInvariant, PTL

\* No interval of the window's length, beginning at any tick, sees more requests than
\* the limit, although the counter remembers seconds only.
THEOREM NoBurst ==
    Counter!CounterAssumption => (Counter!Spec => []Counter!NoBoundaryBurst)
<1>1. CounterInv => Counter!NoBoundaryBurst
  BY DEF CounterInv
<1> QED
  BY <1>1, CounterInvariant, PTL

\* Past the second named to a refused client there is room.
THEOREM RoomAfterRefusal ==
    Counter!CounterAssumption => (Counter!Spec => []Counter!RoomAfterRetry)
<1> SUFFICES ASSUME Counter!CounterAssumption PROVE Counter!Spec => []Counter!RoomAfterRetry
  OBVIOUS
<1>1. CounterInv => Counter!RoomAfterRetry
  BY RoomIsAfterRetry
<1>2. Counter!Spec => []CounterInv
  BY CounterInvariant
<1> QED
  BY <1>1, <1>2, PTL
=============================================================================
