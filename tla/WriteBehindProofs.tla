--------------------------- MODULE WriteBehindProofs ---------------------------
(***************************************************************************)
(* WriteBehind for any keys, responses, tasks, sizes and times: its type,  *)
(* that no accepted write is lost, skipped or reordered, that batch and    *)
(* waiting time are bounded, and that it implements OrderedStore.          *)
(***************************************************************************)
EXTENDS WriteBehind, SequenceTheorems, FiniteSetTheorems, WellFoundedInduction, TLAPS

-----------------------------------------------------------------------------
(* The inductive invariant.                                                 *)

\* Writes that have left the queue.
Taken == Len(accepted) - Len(queue)

\* The queue is what was accepted last, and redis has seen none of it.
QueueIsLast ==
    /\ Len(queue) <= Len(accepted) /\ applied <= Taken
    /\ \A i \in 1 .. Len(queue) : queue[i] = accepted[Taken + i]

\* The batch is what was accepted just before it, and redis has seen all that
\* came before the batch.
BatchIsNext ==
    worker # "off" =>
        /\ Len(batch) <= Taken /\ Taken - Len(batch) <= applied
        /\ \A i \in 1 .. Len(batch) : batch[i] = accepted[Taken - Len(batch) + i]

\* redis holds, for each key, the last of the writes it has executed: a batch
\* executed again changes nothing.
RedisIsPrefix ==
    \A i \in 1 .. applied :
        (\A j \in i + 1 .. applied : accepted[j].key # accepted[i].key)
            => redis[accepted[i].key] = accepted[i].response

OrderInv == WriterTypeOK /\ QueueIsLast /\ BatchIsNext /\ RedisIsPrefix

\* Only a batch that is due is longer than what the failures explain.
BatchRoom ==
    IF worker = "storing" THEN Len(batch) <= pipeline_batch_size + failures
                          ELSE Len(batch) + 1 <= pipeline_batch_size + failures

\* How long the batch has waited, told by where the worker is.
WaitedFor ==
    /\ batch = <<>> => age = 0
    /\ since_flush <= FlushInterval => age <= since_flush
    /\ worker = "get" =>
          /\ timer <= GetTimeout
          /\ age <= (IF failures = 0 THEN FlushInterval ELSE Backoff + FlushInterval) + timer
    /\ worker = "sleep" => failures > 0 /\ timer <= Backoff /\ age <= timer

IInv == OrderInv /\ BatchRoom /\ WaitedFor /\ AttemptIsPrompt

-----------------------------------------------------------------------------
(* Facts about writes in order, whatever the sequence.                      *)

LEMMA WriteOf ==
  ASSUME NEW s \in Seq(Writes)
  PROVE  /\ Len(s) \in Nat /\ DOMAIN s = 1 .. Len(s)
         /\ \A i \in 1 .. Len(s) :
               s[i] \in Writes /\ s[i].key \in Keys /\ s[i].response \in Responses
<1>1. Len(s) \in Nat /\ DOMAIN s = 1 .. Len(s) /\ \A i \in 1 .. Len(s) : s[i] \in Writes
  BY LenProperties
<1> QED  BY <1>1 DEF Writes

\* A non-empty set of positions has a last one: the interval from it to the end
\* is the smallest for inclusion.
LEMMA LastExists ==
  ASSUME NEW n \in Nat, NEW S, S \subseteq 1 .. n, S # {}
  PROVE  \E i \in S : \A j \in S : j <= i
<1> DEFINE T == {m \in SUBSET (1 .. n) : \E i \in S : m = i .. n}
           R == StrictSubsetOrdering(1 .. n)
<1>1. IsFiniteSet(1 .. n)
  BY FS_Interval
<1>2. IsWellFoundedOn(R, SUBSET (1 .. n))
  BY <1>1, FS_StrictSubsetOrderingWellFounded, FS_FiniteSubsetsOfFinite
<1>3. \A i \in S : i .. n \in T
  OBVIOUS
<1>4. T \subseteq SUBSET (1 .. n) /\ T # {}
  BY <1>3
<1> HIDE DEF R
<1>5. PICK x \in T : \A y \in T : <<y, x>> \notin R
  BY <1>2, <1>4, WFMin
<1>6. PICK i \in S : x = i .. n
  BY <1>5
<1>7. ASSUME NEW j \in S, ~ (j <= i) PROVE FALSE
  <2>1. /\ j .. n \subseteq 1 .. n /\ i .. n \subseteq 1 .. n
        /\ j .. n \subseteq i .. n /\ i \notin j .. n /\ i \in i .. n
    BY <1>7
  <2>2. <<j .. n, i .. n>> \in R
    BY <2>1 DEF R, StrictSubsetOrdering
  <2> QED  BY <1>3, <1>5, <1>6, <2>2
<1> QED  BY <1>7

\* The last write to a key in a sequence, as both modules choose it.
LEMMA LastWrite ==
  ASSUME NEW s \in Seq(Writes), NEW k, NEW i0 \in 1 .. Len(s), s[i0].key = k
  PROVE  /\ LastWriteTo(s, k) \in 1 .. Len(s) /\ s[LastWriteTo(s, k)].key = k
         /\ \A j \in 1 .. Len(s) : s[j].key = k => j <= LastWriteTo(s, k)
<1> DEFINE S == {i \in 1 .. Len(s) : s[i].key = k}
<1>1. Len(s) \in Nat
  BY LenProperties
<1>2. \E i \in S : \A j \in S : j <= i
  <2>1. S \subseteq 1 .. Len(s) /\ S # {}
    OBVIOUS
  <2> HIDE DEF S
  <2> QED  BY <1>1, <2>1, LastExists
<1>3. \E i \in 1 .. Len(s) :
         s[i].key = k /\ \A j \in 1 .. Len(s) : s[j].key = k => j <= i
  BY <1>2
<1> QED  BY <1>3 DEF LastWriteTo

\* A middle part of a sequence.
LEMMA Part ==
  ASSUME NEW s \in Seq(Writes), NEW a \in Nat, NEW b \in a .. Len(s)
  PROVE  /\ SubSeq(s, a + 1, b) \in Seq(Writes) /\ Len(SubSeq(s, a + 1, b)) = b - a
         /\ \A i \in 1 .. b - a : SubSeq(s, a + 1, b)[i] = s[a + i]
<1> DEFINE p == SubSeq(s, a + 1, b)
<1>1. Len(s) \in Nat /\ \A i \in 1 .. Len(s) : s[i] \in Writes
  BY WriteOf
<1>2. b \in Nat /\ a <= b /\ \A i \in a + 1 .. b : s[i] \in Writes
  BY <1>1
<1>3. /\ p \in Seq(Writes) /\ Len(p) = IF a + 1 <= b THEN b - (a + 1) + 1 ELSE 0
      /\ \A i \in 1 .. b - (a + 1) + 1 : p[i] = s[(a + 1) + i - 1]
  BY <1>2, SubSeqProperties
<1> HIDE DEF p
<1>4. b - (a + 1) + 1 = b - a /\ \A i \in 1 .. b - a : (a + 1) + i - 1 = a + i
  BY <1>2
<1>5. Len(p) = b - a
  BY <1>2, <1>3
<1>6. \A i \in 1 .. b - a : p[i] = s[a + i]
  BY <1>3, <1>4
<1> QED  BY <1>3, <1>5, <1>6 DEF p

-----------------------------------------------------------------------------
(* What the parts of the actions do to the order.                           *)

\* A put that went through.
LEMMA EnqueueKeeps ==
  ASSUME OrderInv, NEW w \in Writes, Enqueue(w),
         UNCHANGED <<batch, worker, redis, applied>>
  PROVE  /\ QueueIsLast' /\ BatchIsNext' /\ RedisIsPrefix'
         /\ queue' \in Seq(Writes) /\ Len(queue') <= queue_maxsize
         /\ accepted' \in Seq(Writes) /\ applied' \in 0 .. Len(accepted')
<1>1. /\ queue' \in Seq(Writes) /\ Len(queue') = Len(queue) + 1
      /\ \A i \in 1 .. Len(queue) : queue'[i] = queue[i]
      /\ queue'[Len(queue) + 1] = w
  BY AppendProperties DEF OrderInv, WriterTypeOK, Enqueue
<1>2. /\ accepted' \in Seq(Writes) /\ Len(accepted') = Len(accepted) + 1
      /\ \A i \in 1 .. Len(accepted) : accepted'[i] = accepted[i]
      /\ accepted'[Len(accepted) + 1] = w
  BY AppendProperties DEF OrderInv, WriterTypeOK, Enqueue
<1>3. Len(queue) \in Nat /\ Len(accepted) \in Nat /\ Len(batch) \in Nat /\ applied \in Nat
  BY WriteOf DEF OrderInv, WriterTypeOK
<1>4. Taken \in Nat /\ Taken' = Taken /\ applied <= Taken /\ Taken <= Len(accepted)
  BY <1>1, <1>2, <1>3 DEF Taken, OrderInv, QueueIsLast
<1>5. QueueIsLast'
  <2>1. ASSUME NEW i \in 1 .. Len(queue) + 1 PROVE queue'[i] = accepted'[Taken + i]
    <3>1. CASE i \in 1 .. Len(queue)
      <4>1. Taken + i \in 1 .. Len(accepted)
        BY <3>1, <1>3 DEF Taken, OrderInv, QueueIsLast
      <4> QED  BY <3>1, <4>1, <1>1, <1>2 DEF OrderInv, QueueIsLast
    <3>2. CASE i = Len(queue) + 1
      <4>1. Taken + i = Len(accepted) + 1
        BY <3>2, <1>3 DEF Taken
      <4> QED  BY <3>2, <4>1, <1>1, <1>2
    <3> QED  BY <3>1, <3>2, <1>3
  <2> QED  BY <2>1, <1>1, <1>2, <1>3, <1>4 DEF OrderInv, QueueIsLast
<1>6. BatchIsNext'
  <2> SUFFICES ASSUME worker # "off"
               PROVE  /\ Len(batch) <= Taken /\ Taken - Len(batch) <= applied
                      /\ \A i \in 1 .. Len(batch) : batch[i] = accepted'[Taken - Len(batch) + i]
    BY <1>4 DEF BatchIsNext
  <2>1. /\ Len(batch) <= Taken /\ Taken - Len(batch) <= applied
        /\ \A i \in 1 .. Len(batch) : batch[i] = accepted[Taken - Len(batch) + i]
    BY DEF OrderInv, BatchIsNext
  <2>2. \A i \in 1 .. Len(batch) : Taken - Len(batch) + i \in 1 .. Len(accepted)
    BY <2>1, <1>3, <1>4
  <2> QED  BY <2>1, <2>2, <1>2
<1>7. RedisIsPrefix'
  <2>1. \A i \in 1 .. applied : accepted'[i] = accepted[i]
    BY <1>2, <1>3, <1>4
  <2>2. \A i \in 1 .. applied : i + 1 .. applied \subseteq 1 .. applied
    BY <1>3
  <2> QED  BY <2>1, <2>2 DEF OrderInv, RedisIsPrefix
<1>8. Len(queue') <= queue_maxsize
  BY <1>1, <1>3, WriteBehindAssumption DEF Enqueue, HasRoom
<1> QED  BY <1>1, <1>2, <1>3, <1>4, <1>5, <1>6, <1>7, <1>8

\* The worker takes the head of the queue into its batch.
LEMMA TakeKeeps ==
  ASSUME OrderInv, worker # "off", worker' # "off", queue # <<>>,
         queue' = Tail(queue), batch' = Append(batch, Head(queue)),
         UNCHANGED <<accepted, applied, redis>>
  PROVE  /\ QueueIsLast' /\ BatchIsNext' /\ RedisIsPrefix'
         /\ queue' \in Seq(Writes) /\ Len(queue') <= queue_maxsize
         /\ batch' \in Seq(Writes) /\ Len(batch') = Len(batch) + 1
<1>1. Len(queue) \in Nat /\ Len(accepted) \in Nat /\ Len(batch) \in Nat /\ applied \in Nat
  BY WriteOf DEF OrderInv, WriterTypeOK
<1>2. /\ queue' \in Seq(Writes) /\ Len(queue') = Len(queue) - 1
      /\ \A i \in 1 .. Len(queue') : queue'[i] = queue[i + 1]
      /\ Head(queue) \in Writes /\ Head(queue) = queue[1] /\ Len(queue) >= 1
  BY <1>1, HeadTailProperties, EmptySeq DEF OrderInv, WriterTypeOK
<1>3. /\ batch' \in Seq(Writes) /\ Len(batch') = Len(batch) + 1
      /\ \A i \in 1 .. Len(batch) : batch'[i] = batch[i]
      /\ batch'[Len(batch) + 1] = queue[1]
  BY <1>2, AppendProperties DEF OrderInv, WriterTypeOK
<1>4. Taken \in Nat /\ Taken' = Taken + 1 /\ applied <= Taken
  BY <1>1, <1>2 DEF Taken, OrderInv, QueueIsLast
<1>5. QueueIsLast'
  <2>1. ASSUME NEW i \in 1 .. Len(queue') PROVE queue'[i] = accepted[Taken + 1 + i]
    <3>1. i + 1 \in 1 .. Len(queue) /\ Taken + 1 + i = Taken + (i + 1)
      BY <1>1, <1>2, <1>4
    <3> QED  BY <3>1, <1>2 DEF OrderInv, QueueIsLast
  <2> QED  BY <2>1, <1>1, <1>2, <1>4 DEF OrderInv, QueueIsLast
<1>6. BatchIsNext'
  <2>1. /\ Len(batch) <= Taken /\ Taken - Len(batch) <= applied
        /\ \A i \in 1 .. Len(batch) : batch[i] = accepted[Taken - Len(batch) + i]
    BY DEF OrderInv, BatchIsNext
  <2>2. Taken' - Len(batch') = Taken - Len(batch) /\ Len(batch') <= Taken'
    BY <2>1, <1>1, <1>3, <1>4
  <2>3. ASSUME NEW i \in 1 .. Len(batch) + 1
        PROVE  batch'[i] = accepted[Taken - Len(batch) + i]
    <3>1. CASE i \in 1 .. Len(batch)
      BY <3>1, <2>1, <1>3
    <3>2. CASE i = Len(batch) + 1
      <4>1. Taken - Len(batch) + i = Taken + 1 /\ 1 \in 1 .. Len(queue)
        BY <3>2, <1>1, <1>2, <1>4
      <4> QED  BY <3>2, <4>1, <1>3 DEF OrderInv, QueueIsLast
    <3> QED  BY <3>1, <3>2, <1>1
  <2> QED  BY <2>1, <2>2, <2>3, <1>3 DEF BatchIsNext
<1>7. RedisIsPrefix'
  BY DEF OrderInv, RedisIsPrefix
<1>8. Len(queue') <= queue_maxsize
  BY <1>1, <1>2, WriteBehindAssumption DEF OrderInv, WriterTypeOK
<1> QED  BY <1>2, <1>3, <1>5, <1>6, <1>7, <1>8

\* A pipeline that was executed, whether or not its reply arrived: the batch is
\* kept or emptied, or the worker ends.
LEMMA ExecuteKeeps ==
  ASSUME OrderInv, worker = "storing", Execute, UNCHANGED <<queue, accepted>>,
         batch' = batch \/ batch' = <<>>
  PROVE  /\ QueueIsLast' /\ BatchIsNext' /\ RedisIsPrefix'
         /\ redis' \in [Keys -> Responses \cup {NoResponse}]
         /\ applied' \in 0 .. Len(accepted')
<1> DEFINE flushed == Taken - Len(batch)
<1>1. Len(queue) \in Nat /\ Len(accepted) \in Nat /\ Len(batch) \in Nat /\ applied \in Nat
  BY WriteOf DEF OrderInv, WriterTypeOK
<1>2. Taken \in Nat /\ Taken' = Taken /\ applied' = Taken /\ Taken <= Len(accepted)
  BY <1>1 DEF Taken, Execute, OrderInv, QueueIsLast
<1>3. /\ flushed \in Nat /\ flushed <= applied /\ applied <= Taken
      /\ Taken = flushed + Len(batch)
      /\ \A i \in 1 .. Len(batch) : batch[i] = accepted[flushed + i]
  BY <1>1, <1>2 DEF OrderInv, BatchIsNext, QueueIsLast
<1> HIDE DEF flushed
<1>4. QueueIsLast'
  BY <1>1, <1>2 DEF OrderInv, QueueIsLast
<1>5. BatchIsNext'
  <2>1. CASE batch' = batch
    BY <2>1, <1>1, <1>2 DEF OrderInv, BatchIsNext
  <2>2. CASE batch' = <<>>
    <3>1. Len(batch') = 0 /\ \A i \in 1 .. 0 : FALSE
      BY <2>2
    <3> QED  BY <3>1, <1>2 DEF BatchIsNext
  <2> QED  BY <2>1, <2>2
<1>6. redis' \in [Keys -> Responses \cup {NoResponse}]
  <2> SUFFICES ASSUME NEW k \in Keys PROVE redis'[k] \in Responses \cup {NoResponse}
    BY DEF Execute
  <2>1. CASE \E i \in 1 .. Len(batch) : batch[i].key = k
    BY <2>1, LastWrite, WriteOf DEF Execute, OrderInv, WriterTypeOK
  <2>2. CASE ~ \E i \in 1 .. Len(batch) : batch[i].key = k
    BY <2>2 DEF Execute, OrderInv, WriterTypeOK
  <2> QED  BY <2>1, <2>2
<1>7. RedisIsPrefix'
  <2> SUFFICES ASSUME NEW i \in 1 .. Taken,
                      \A j \in i + 1 .. Taken : accepted[j].key # accepted[i].key
               PROVE  redis'[accepted[i].key] = accepted[i].response
    BY <1>2 DEF RedisIsPrefix
  <2> DEFINE k == accepted[i].key
             last == LastWriteTo(batch, k)
  <2>1. k \in Keys
    BY <1>1, <1>2, WriteOf DEF OrderInv, WriterTypeOK
  <2>2. CASE i > flushed
    <3>1. i - flushed \in 1 .. Len(batch) /\ flushed + (i - flushed) = i
      BY <2>2, <1>1, <1>2, <1>3
    <3>2. batch[i - flushed] = accepted[i]
      BY <3>1, <1>3
    <3>3. /\ last \in 1 .. Len(batch) /\ batch[last].key = k /\ i - flushed <= last
      BY <3>1, <3>2, LastWrite DEF OrderInv, WriterTypeOK
    <3>4. accepted[flushed + last].key = k /\ flushed + last \in i .. Taken
      <4>1. batch[last] = accepted[flushed + last]
        BY <3>3, <1>3
      <4>2. flushed + last \in i .. Taken
        <5>1. flushed + Len(batch) = Taken /\ flushed \in Int /\ Taken \in Int
          BY <1>1, <1>2, <1>3
        <5> QED  BY <3>1, <3>3, <5>1
      <4> QED  BY <3>3, <4>1, <4>2
    <3>5. flushed + last = i
      BY <3>4, <1>2
    <3>6. last = i - flushed
      BY <3>3, <3>5, <1>1, <1>2, <1>3
    <3>7. redis'[k] = batch[last].response
      BY <2>1, <3>1, <3>2 DEF Execute
    <3> QED  BY <3>2, <3>6, <3>7
  <2>3. CASE ~ (i > flushed)
    <3>1. i \in 1 .. applied /\ i + 1 .. applied \subseteq i + 1 .. Taken
      BY <2>3, <1>1, <1>2, <1>3
    <3>2. \A j \in 1 .. Len(batch) : flushed + j \in i + 1 .. Taken
      BY <2>3, <1>1, <1>2, <1>3
    <3>3. \A j \in 1 .. Len(batch) : batch[j].key # k
      BY <3>2, <1>3
    <3>4. redis'[k] = redis[k]
      BY <2>1, <3>3 DEF Execute
    <3> QED  BY <3>1, <3>4 DEF OrderInv, RedisIsPrefix
  <2> QED  BY <2>2, <2>3
<1> QED  BY <1>1, <1>2, <1>4, <1>5, <1>6, <1>7

\* A pipeline whose execution the worker need not know of.
LEMMA MaybeExecuteKeeps ==
  ASSUME OrderInv, UNCHANGED <<queue, accepted>>,
         worker' # "off" => worker # "off" /\ batch' = batch,
         batch' = batch \/ batch' = <<>>,
         (worker = "storing" /\ Execute) \/ UNCHANGED <<redis, applied>>
  PROVE  /\ QueueIsLast' /\ BatchIsNext' /\ RedisIsPrefix'
         /\ redis' \in [Keys -> Responses \cup {NoResponse}]
         /\ applied' \in 0 .. Len(accepted')
<1>1. CASE worker = "storing" /\ Execute
  BY <1>1, ExecuteKeeps
<1>2. CASE UNCHANGED <<redis, applied>>
  BY <1>2 DEF OrderInv, WriterTypeOK, QueueIsLast, BatchIsNext, RedisIsPrefix, Taken
<1> QED  BY <1>1, <1>2

-----------------------------------------------------------------------------
(* The steps.                                                               *)

LEMMA InitIInv == WriterInit => IInv
<1> SUFFICES ASSUME WriterInit PROVE IInv
  OBVIOUS
<1>1. Len(<<>>) = 0 /\ \A S : <<>> \in Seq(S)
  BY EmptySeq
<1>2. WriterTypeOK
  BY <1>1, WriteBehindAssumption DEF WriterInit, WriterTypeOK
<1>3. QueueIsLast /\ BatchIsNext /\ RedisIsPrefix
  BY <1>1 DEF WriterInit, QueueIsLast, BatchIsNext, RedisIsPrefix, Taken
<1>4. BatchRoom /\ WaitedFor /\ AttemptIsPrompt
  BY <1>1, WriteBehindAssumption DEF WriterInit, BatchRoom, WaitedFor, AttemptIsPrompt
<1> QED  BY <1>2, <1>3, <1>4 DEF IInv, OrderInv

LEMMA PutIInv ==
  ASSUME IInv, NEW t \in SetTasks, PutResumes(t) \/ \E w \in Writes : Put(t, w)
  PROVE  IInv'
<1>1. UNCHANGED <<batch, worker, timer, since_flush, redis, shutdown, applied, failures, age>>
  BY DEF PutResumes, Put
<1>2. BatchRoom' /\ WaitedFor' /\ AttemptIsPrompt'
  BY <1>1 DEF IInv, BatchRoom, WaitedFor, AttemptIsPrompt
<1>3. blocked' \in [SetTasks -> Writes \cup {NoWrite}]
  BY DEF PutResumes, Put, IInv, OrderInv, WriterTypeOK
<1>4. CASE \E w \in Writes : Enqueue(w)
  BY <1>1, <1>2, <1>3, <1>4, EnqueueKeeps DEF IInv, OrderInv, WriterTypeOK
<1>5. CASE UNCHANGED <<queue, accepted>>
  BY <1>1, <1>2, <1>3, <1>5
  DEF IInv, OrderInv, WriterTypeOK, QueueIsLast, BatchIsNext, RedisIsPrefix, Taken
<1>6. (\E w \in Writes : Enqueue(w)) \/ UNCHANGED <<queue, accepted>>
  BY DEF PutResumes, Put, IInv, OrderInv, WriterTypeOK
<1> QED  BY <1>4, <1>5, <1>6

\* An item joins the batch, in get or in a close that was swallowed.
LEMMA TakeItemIInv ==
  ASSUME IInv, worker = "get", queue # <<>>, TakeItem,
         shutdown' \in {"no", "closed", "hung"},
         UNCHANGED <<since_flush, blocked, redis, accepted, applied, failures, age>>
  PROVE  IInv'
<1> DEFINE b == Append(batch, Head(queue))
<1>1. /\ queue' = Tail(queue) /\ batch' = b /\ timer' = 0
      /\ worker' = IF FlushDue(b) THEN "storing" ELSE "get"
  BY DEF TakeItem, Iterate
<1> HIDE DEF b
<1>2. /\ QueueIsLast' /\ BatchIsNext' /\ RedisIsPrefix'
      /\ queue' \in Seq(Writes) /\ Len(queue') <= queue_maxsize
      /\ batch' \in Seq(Writes) /\ Len(batch') = Len(batch) + 1
  BY <1>1, TakeKeeps DEF IInv, b
<1>3. Len(batch) \in Nat /\ Len(b) = Len(batch) + 1 /\ b # <<>>
  BY <1>1, <1>2, WriteOf, EmptySeq DEF IInv, OrderInv, WriterTypeOK
<1>4. WriterTypeOK'
  BY <1>1, <1>2 DEF IInv, OrderInv, WriterTypeOK
<1>5. BatchRoom'
  BY <1>1, <1>2, <1>3, WriteBehindAssumption
  DEF IInv, OrderInv, WriterTypeOK, BatchRoom, FlushDue
<1>6. WaitedFor' /\ AttemptIsPrompt'
  BY <1>1, <1>3, WriteBehindAssumption
  DEF IInv, OrderInv, WriterTypeOK, WaitedFor, AttemptIsPrompt, FlushDue
<1> QED  BY <1>2, <1>4, <1>5, <1>6 DEF IInv, OrderInv

LEMMA GetTimesOutIInv ==
  ASSUME IInv, GetTimesOut
  PROVE  IInv'
<1>1. /\ worker = "get" /\ batch' = batch /\ timer' = 0
      /\ worker' = IF FlushDue(batch) THEN "storing" ELSE "get"
      /\ UNCHANGED <<queue, since_flush, blocked, redis, shutdown, accepted, applied,
                     failures, age>>
  BY DEF GetTimesOut, Iterate
<1>2. WriterTypeOK'
  BY <1>1 DEF IInv, OrderInv, WriterTypeOK
<1>3. QueueIsLast' /\ BatchIsNext' /\ RedisIsPrefix'
  BY <1>1 DEF IInv, OrderInv, QueueIsLast, BatchIsNext, RedisIsPrefix, Taken
<1>4. Len(batch) \in Nat
  BY WriteOf DEF IInv, OrderInv, WriterTypeOK
<1>5. BatchRoom'
  BY <1>1, <1>4, WriteBehindAssumption DEF IInv, OrderInv, WriterTypeOK, BatchRoom, FlushDue
<1>6. WaitedFor' /\ AttemptIsPrompt'
  BY <1>1, WriteBehindAssumption
  DEF IInv, OrderInv, WriterTypeOK, WaitedFor, AttemptIsPrompt, FlushDue
<1> QED  BY <1>2, <1>3, <1>5, <1>6 DEF IInv, OrderInv

LEMMA StoreSucceedsIInv ==
  ASSUME IInv, StoreSucceeds
  PROVE  IInv'
<1> USE DEF StoreSucceeds
<1>1. batch' \in Seq(Writes) /\ Len(batch') = 0
  BY EmptySeq
<1>2. /\ QueueIsLast' /\ BatchIsNext' /\ RedisIsPrefix'
      /\ redis' \in [Keys -> Responses \cup {NoResponse}]
      /\ applied' \in 0 .. Len(accepted')
  BY ExecuteKeeps DEF IInv
<1>3. WriterTypeOK'
  BY <1>1, <1>2, WriteBehindAssumption DEF IInv, OrderInv, WriterTypeOK
<1>4. BatchRoom' /\ WaitedFor' /\ AttemptIsPrompt'
  BY <1>1, WriteBehindAssumption DEF BatchRoom, WaitedFor, AttemptIsPrompt
<1> QED  BY <1>2, <1>3, <1>4 DEF IInv, OrderInv

LEMMA StoreFailsIInv ==
  ASSUME IInv, StoreFails
  PROVE  IInv'
<1> USE DEF StoreFails, KeepBatch
<1>1. Len(batch) \in Nat
  BY WriteOf DEF IInv, OrderInv, WriterTypeOK
<1>2. /\ QueueIsLast' /\ BatchIsNext' /\ RedisIsPrefix'
      /\ redis' \in [Keys -> Responses \cup {NoResponse}]
      /\ applied' \in 0 .. Len(accepted')
  BY MaybeExecuteKeeps DEF IInv
<1>3. WriterTypeOK'
  BY <1>2 DEF IInv, OrderInv, WriterTypeOK
<1>4. BatchRoom'
  BY <1>1, WriteBehindAssumption DEF IInv, OrderInv, WriterTypeOK, BatchRoom
<1>5. WaitedFor' /\ AttemptIsPrompt'
  BY WriteBehindAssumption DEF IInv, OrderInv, WriterTypeOK, WaitedFor, AttemptIsPrompt
<1> QED  BY <1>2, <1>3, <1>4, <1>5 DEF IInv, OrderInv

LEMMA CloseIInv ==
  ASSUME IInv, Close
  PROVE  IInv'
<1> USE DEF Close
<1>1. batch' \in Seq(Writes) /\ Len(batch') = 0
  BY EmptySeq
<1>2. /\ QueueIsLast' /\ BatchIsNext' /\ RedisIsPrefix'
      /\ redis' \in [Keys -> Responses \cup {NoResponse}]
      /\ applied' \in 0 .. Len(accepted')
  BY MaybeExecuteKeeps DEF IInv
<1>3. WriterTypeOK'
  BY <1>1, <1>2 DEF IInv, OrderInv, WriterTypeOK
<1>4. BatchRoom' /\ WaitedFor' /\ AttemptIsPrompt'
  BY <1>1, WriteBehindAssumption
  DEF IInv, OrderInv, WriterTypeOK, BatchRoom, WaitedFor, AttemptIsPrompt
<1> QED  BY <1>2, <1>3, <1>4 DEF IInv, OrderInv

\* Waking up and the passing of time move no write.
LEMMA TimeIInv ==
  ASSUME IInv, SleepEnds \/ WriterTick
  PROVE  IInv'
<1>1. /\ worker # "off" /\ worker' # "off"
      /\ UNCHANGED <<queue, batch, redis, accepted, applied, failures>>
  BY DEF SleepEnds, WriterTick
<1>2. QueueIsLast' /\ BatchIsNext' /\ RedisIsPrefix'
  BY <1>1 DEF IInv, OrderInv, QueueIsLast, BatchIsNext, RedisIsPrefix, Taken
<1>3. WriterTypeOK'
  BY WriteBehindAssumption, SMTT(30) DEF SleepEnds, WriterTick, IInv, OrderInv, WriterTypeOK
<1>4. BatchRoom'
  BY DEF SleepEnds, WriterTick, IInv, BatchRoom
<1>5. CASE SleepEnds
  <2>1. WaitedFor' /\ AttemptIsPrompt'
    BY <1>5, WriteBehindAssumption
    DEF SleepEnds, IInv, OrderInv, WriterTypeOK, WaitedFor, AttemptIsPrompt
  <2> QED  BY <2>1, <1>2, <1>3, <1>4 DEF IInv, OrderInv
<1>6. CASE WriterTick
  <2>1. WaitedFor'
    BY <1>6, WriteBehindAssumption DEF WriterTick, IInv, OrderInv, WriterTypeOK, WaitedFor
  <2>2. AttemptIsPrompt'
    BY <1>6, WriteBehindAssumption
    DEF WriterTick, IInv, OrderInv, WriterTypeOK, WaitedFor, AttemptIsPrompt
  <2> QED  BY <2>1, <2>2, <1>2, <1>3, <1>4 DEF IInv, OrderInv
<1> QED  BY <1>5, <1>6

LEMMA NextIInv == IInv /\ [WriterNext]_writerVars => IInv'
<1> SUFFICES ASSUME IInv, [WriterNext]_writerVars PROVE IInv'
  OBVIOUS
<1>1. CASE Get
  BY <1>1, TakeItemIInv DEF Get, IInv, OrderInv, WriterTypeOK
<1>2. CASE CloseSwallowed
  BY <1>2, TakeItemIInv DEF CloseSwallowed
<1>3. CASE UNCHANGED writerVars
  BY <1>3 DEF writerVars, IInv, OrderInv, WriterTypeOK, QueueIsLast, BatchIsNext, RedisIsPrefix,
     Taken, BatchRoom, WaitedFor, AttemptIsPrompt
<1> QED  BY <1>1, <1>2, <1>3, PutIInv, GetTimesOutIInv, StoreSucceedsIInv, StoreFailsIInv,
           CloseIInv, TimeIInv DEF WriterNext, WorkerStep

LEMMA Inductive == WriterSpec => []IInv
  BY InitIInv, NextIInv, PTL DEF WriterSpec

-----------------------------------------------------------------------------

\* Every variable of the worker keeps its type, the queue its bound.
THEOREM TypeCorrect == WriterSpec => []WriterTypeOK
<1>1. IInv => WriterTypeOK
  BY DEF IInv, OrderInv
<1> QED  BY <1>1, Inductive, PTL

\* What the worker still holds is the end of what was accepted, in order.
THEOREM AcceptedIsKept == WriterSpec => []NothingLost
<1>1. IInv => NothingLost
  <2> SUFFICES ASSUME IInv, worker # "off"
               PROVE  LET left == batch \o queue
                      IN  left = SubSeq(accepted, Len(accepted) - Len(left) + 1, Len(accepted))
    BY DEF NothingLost
  <2> DEFINE left == batch \o queue
             flushed == Taken - Len(batch)
             rest == SubSeq(accepted, flushed + 1, Len(accepted))
  <2>1. Len(queue) \in Nat /\ Len(accepted) \in Nat /\ Len(batch) \in Nat
    BY WriteOf DEF IInv, OrderInv, WriterTypeOK
  <2>2. /\ left \in Seq(Writes) /\ Len(left) = Len(batch) + Len(queue)
        /\ \A i \in 1 .. Len(batch) + Len(queue) :
              left[i] = IF i <= Len(batch) THEN batch[i] ELSE queue[i - Len(batch)]
    BY ConcatProperties DEF IInv, OrderInv, WriterTypeOK
  <2>3. /\ Taken \in Nat /\ Taken = Len(accepted) - Len(queue) /\ flushed \in Nat
        /\ flushed <= Len(accepted) /\ Len(accepted) - flushed = Len(batch) + Len(queue)
        /\ \A i \in 1 .. Len(batch) : batch[i] = accepted[flushed + i]
        /\ \A i \in 1 .. Len(queue) : queue[i] = accepted[Taken + i]
    BY <2>1 DEF Taken, IInv, OrderInv, QueueIsLast, BatchIsNext
  <2> HIDE DEF left, flushed
  <2>4. /\ rest \in Seq(Writes) /\ Len(rest) = Len(accepted) - flushed
        /\ \A i \in 1 .. Len(accepted) - flushed : rest[i] = accepted[flushed + i]
    BY <2>1, <2>3, Part DEF IInv, OrderInv, WriterTypeOK
  <2> HIDE DEF rest
  <2>5. ASSUME NEW i \in 1 .. Len(left) PROVE left[i] = rest[i]
    <3>1. CASE i <= Len(batch)
      <4>1. /\ i \in 1 .. Len(batch) /\ i \in 1 .. Len(batch) + Len(queue)
            /\ i \in 1 .. Len(accepted) - flushed
        BY <3>1, <2>1, <2>2, <2>3
      <4> QED  BY <3>1, <4>1, <2>2, <2>3, <2>4
    <3>2. CASE ~ (i <= Len(batch))
      <4>1. /\ i \in Int /\ 1 <= i /\ i <= Len(batch) + Len(queue) /\ i > Len(batch)
            /\ Len(batch) \in Nat /\ Len(queue) \in Nat /\ Taken \in Nat /\ flushed \in Nat
        BY <3>2, <2>1, <2>2, <2>3
      <4>2. Taken = flushed + Len(batch)
        <5>1. Taken = Len(accepted) - Len(queue) /\ Len(accepted) - flushed = Len(batch) + Len(queue)
          BY <2>3
        <5> QED  BY <5>1, <4>1, <2>1
      <4>3. i - Len(batch) \in 1 .. Len(queue) /\ Taken + (i - Len(batch)) = flushed + i
        BY <4>1, <4>2
      <4> QED  BY <3>2, <4>3, <2>2, <2>3, <2>4
    <3> QED  BY <3>1, <3>2
  <2>6. left = rest
    BY <2>2, <2>3, <2>4, <2>5, SeqEqual
  <2>7. flushed = Len(accepted) - Len(left)
    <3>1. /\ Len(left) = Len(batch) + Len(queue) /\ flushed \in Nat
          /\ Len(accepted) - flushed = Len(batch) + Len(queue)
      BY <2>2, <2>3
    <3> QED  BY <3>1, <2>1
  <2> QED  BY <2>6, <2>7 DEF left, rest
<1> QED  BY <1>1, Inductive, PTL

\* No write leaves the batch before redis has executed it.
THEOREM NoneSkipped == WriterSpec => []FlushedWasApplied
<1>1. IInv => FlushedWasApplied
  <2> SUFFICES ASSUME IInv, worker # "off"
               PROVE  Len(accepted) - Len(batch) - Len(queue) <= applied
    BY DEF FlushedWasApplied
  <2>1. /\ Len(queue) \in Nat /\ Len(accepted) \in Nat /\ Len(batch) \in Nat
        /\ applied \in Nat
    BY WriteOf DEF IInv, OrderInv, WriterTypeOK
  <2> QED  BY <2>1 DEF IInv, OrderInv, BatchIsNext, Taken
<1> QED  BY <1>1, Inductive, PTL

\* A batch is at most its size and the failures since the last success.
THEOREM BatchSizeKept == WriterSpec => []BatchBounded
<1>1. IInv => BatchBounded
  <2> SUFFICES ASSUME IInv PROVE Len(batch) <= pipeline_batch_size + failures
    BY DEF BatchBounded
  <2>1. Len(batch) \in Nat
    BY WriteOf DEF IInv, OrderInv, WriterTypeOK
  <2> QED  BY <2>1, WriteBehindAssumption DEF IInv, OrderInv, WriterTypeOK, BatchRoom
<1> QED  BY <1>1, Inductive, PTL

\* Whatever the flush interval, the get timeout and the backoff, no write waits
\* longer than their sum for the next attempt to store it.
THEOREM AttemptInTime == WriterSpec => []AttemptIsPrompt
<1>1. IInv => AttemptIsPrompt
  BY DEF IInv
<1> QED  BY <1>1, Inductive, PTL

-----------------------------------------------------------------------------
(* Refinement: an accepted write is an Accept, an executed pipeline applies *)
(* the writes that redis had not seen yet and leaves the others as they are.*)

Pending == SubSeq(accepted, applied + 1, Len(accepted))

\* What is pending: the writes after the applied ones.
LEMMA PendingIs ==
  ASSUME OrderInv
  PROVE  /\ Len(accepted) \in Nat /\ applied \in 0 .. Len(accepted)
         /\ Pending \in Seq(Writes) /\ Len(Pending) = Len(accepted) - applied
         /\ \A i \in 1 .. Len(accepted) - applied : Pending[i] = accepted[applied + i]
<1>1. Len(accepted) \in Nat /\ applied \in 0 .. Len(accepted) /\ accepted \in Seq(Writes)
  BY WriteOf DEF OrderInv, WriterTypeOK
<1>2. applied \in Nat /\ Len(accepted) \in applied .. Len(accepted)
  BY <1>1
<1> QED  BY <1>1, <1>2, Part DEF Pending

LEMMA EnqueueRefines ==
  ASSUME OrderInv, OrderInv', NEW w \in Writes, Enqueue(w), UNCHANGED <<redis, applied, worker>>
  PROVE  Ordered!Accept
<1>1. /\ Len(accepted') = Len(accepted) + 1
      /\ \A i \in 1 .. Len(accepted) : accepted'[i] = accepted[i]
      /\ accepted'[Len(accepted) + 1] = w
  BY AppendProperties DEF OrderInv, WriterTypeOK, Enqueue
<1>2. /\ Len(accepted) \in Nat /\ applied \in 0 .. Len(accepted)
      /\ Pending \in Seq(Writes) /\ Len(Pending) = Len(accepted) - applied
      /\ \A i \in 1 .. Len(accepted) - applied : Pending[i] = accepted[applied + i]
  BY PendingIs
<1>3. /\ Pending' \in Seq(Writes) /\ Len(Pending') = Len(Pending) + 1
      /\ \A i \in 1 .. Len(Pending) + 1 : Pending'[i] = accepted'[applied + i]
  <2> DEFINE p == SubSeq(accepted', applied + 1, Len(accepted'))
  <2>1. /\ accepted' \in Seq(Writes) /\ applied \in Nat
        /\ Len(accepted') \in applied .. Len(accepted')
    BY <1>1, <1>2 DEF OrderInv, WriterTypeOK
  <2>2. /\ p \in Seq(Writes) /\ Len(p) = Len(accepted') - applied
        /\ \A i \in 1 .. Len(accepted') - applied : p[i] = accepted'[applied + i]
    BY <2>1, Part
  <2>3. Pending' = p
    BY DEF Pending
  <2> HIDE DEF p
  <2> QED  BY <2>2, <2>3, <1>1, <1>2
<1> DEFINE grown == Append(Pending, w)
<1>4. /\ grown \in Seq(Writes) /\ Len(grown) = Len(Pending) + 1
      /\ \A i \in 1 .. Len(Pending) : grown[i] = Pending[i]
      /\ grown[Len(Pending) + 1] = w
  BY <1>2, AppendProperties
<1> HIDE DEF grown
<1>5. ASSUME NEW i \in 1 .. Len(Pending) + 1 PROVE Pending'[i] = grown[i]
  <2>1. CASE i \in 1 .. Len(Pending)
    <3>1. applied + i \in 1 .. Len(accepted) /\ i \in 1 .. Len(accepted) - applied
      BY <2>1, <1>2
    <3> QED  BY <2>1, <3>1, <1>1, <1>2, <1>3, <1>4
  <2>2. CASE i = Len(Pending) + 1
    <3>1. applied + i = Len(accepted) + 1
      BY <2>2, <1>2
    <3>2. Pending'[i] = accepted'[Len(accepted) + 1]
      BY <3>1, <1>3
    <3> QED  BY <2>2, <3>2, <1>1, <1>4
  <2>3. Len(Pending) \in Nat
    BY <1>2
  <2> QED  BY <2>1, <2>2, <2>3
<1>6. Pending' = Append(Pending, w)
  BY <1>3, <1>4, <1>5, SeqEqual DEF grown
<1> QED  BY <1>6 DEF Ordered!Accept, Ordered!Writes, Writes, Pending

\* What one pipeline adds to what redis has seen.
LEMMA ExecuteRefines ==
  ASSUME OrderInv, OrderInv', worker = "storing", Execute, UNCHANGED <<queue, accepted>>
  PROVE  \/ UNCHANGED <<Pending, redis>>
         \/ \E n \in 1 .. Len(Pending) :
               /\ redis' = Ordered!WriteAll(redis, SubSeq(Pending, 1, n))
               /\ Pending' = SubSeq(Pending, n + 1, Len(Pending))
<1> DEFINE flushed == Taken - Len(batch)
           n == Taken - applied
           part == SubSeq(Pending, 1, n)
<1>1. Len(queue) \in Nat /\ Len(accepted) \in Nat /\ Len(batch) \in Nat /\ applied \in Nat
  BY WriteOf DEF OrderInv, WriterTypeOK
<1>2. Taken \in Nat /\ applied' = Taken /\ Taken <= Len(accepted)
  BY <1>1 DEF Taken, Execute, OrderInv, QueueIsLast
<1>3. /\ flushed \in Nat /\ flushed <= applied /\ applied <= Taken
      /\ Taken = flushed + Len(batch)
      /\ \A i \in 1 .. Len(batch) : batch[i] = accepted[flushed + i]
  BY <1>1, <1>2 DEF OrderInv, BatchIsNext, QueueIsLast
<1>4. /\ Pending \in Seq(Writes) /\ Len(Pending) = Len(accepted) - applied
      /\ \A i \in 1 .. Len(accepted) - applied : Pending[i] = accepted[applied + i]
  BY PendingIs
<1>5. n \in Nat /\ n \in 0 .. Len(Pending) /\ applied + n = Taken
  BY <1>1, <1>2, <1>3, <1>4
<1> HIDE DEF flushed, n
<1>6. /\ part \in Seq(Writes) /\ Len(part) = n
      /\ \A i \in 1 .. n : part[i] = accepted[applied + i]
  <2>1. /\ SubSeq(Pending, 0 + 1, n) \in Seq(Writes) /\ Len(SubSeq(Pending, 0 + 1, n)) = n - 0
        /\ \A i \in 1 .. n - 0 : SubSeq(Pending, 0 + 1, n)[i] = Pending[0 + i]
    BY <1>4, <1>5, Part
  <2>2. /\ part \in Seq(Writes) /\ Len(part) = n
        /\ \A i \in 1 .. n : part[i] = Pending[i]
    BY <2>1, <1>5
  <2>3. \A i \in 1 .. n : i \in 1 .. Len(accepted) - applied
    BY <1>1, <1>4, <1>5
  <2> QED  BY <2>2, <2>3, <1>4
<1> HIDE DEF part
<1>7. redis' = Ordered!WriteAll(redis, part)
  <2> SUFFICES ASSUME NEW k \in Keys PROVE redis'[k] = Ordered!WriteAll(redis, part)[k]
    BY DEF Execute, Ordered!WriteAll
  <2> DEFINE last == LastWriteTo(batch, k)
             l == LastWriteTo(part, k)
             at == {i \in 1 .. Len(part) : part[i].key = k}
  <2>1. Ordered!WriteAll(redis, part)[k] =
           IF at = {} THEN redis[k] ELSE part[CHOOSE i \in at : \A j \in at : j <= i].response
    BY DEF Ordered!WriteAll
  <2>2. CASE at # {}
    <3>1. PICK i0 \in 1 .. n : part[i0].key = k
      BY <2>2, <1>6
    <3>2. l \in 1 .. n /\ part[l].key = k /\ \A j \in 1 .. n : part[j].key = k => j <= l
      BY <3>1, <1>6, LastWrite
    <3> HIDE DEF l
    <3>3. (CHOOSE i \in at : \A j \in at : j <= i) = l
      <4>1. l \in at /\ \A j \in at : j <= l
        BY <3>2, <1>6
      <4>2. \A i \in at : (\A j \in at : j <= i) => i = l
        <5> SUFFICES ASSUME NEW i \in at, \A j \in at : j <= i PROVE i = l
          OBVIOUS
        <5>1. i \in Nat /\ l \in Nat /\ i <= l /\ l <= i
          BY <4>1, <1>6, <1>5
        <5> QED  BY <5>1
      <4> HIDE DEF at
      <4> QED  BY <4>1, <4>2
    <3>4. accepted[applied + l].key = k /\ part[l] = accepted[applied + l]
      BY <3>2, <1>6
    <3>5. applied + l - flushed \in 1 .. Len(batch) /\ flushed + (applied + l - flushed) = applied + l
      BY <3>2, <1>1, <1>2, <1>3, <1>5
    <3>6. batch[applied + l - flushed].key = k
      BY <3>4, <3>5, <1>3
    <3>7. /\ last \in 1 .. Len(batch) /\ batch[last].key = k
          /\ applied + l - flushed <= last
      BY <3>5, <3>6, LastWrite DEF OrderInv, WriterTypeOK
    <3>8. redis'[k] = batch[last].response
      BY <3>5, <3>6 DEF Execute
    <3> HIDE DEF last
    <3>9. batch[last] = accepted[flushed + last]
      BY <3>7, <1>3
    <3>10. flushed + last - applied \in 1 .. n /\ applied + (flushed + last - applied) = flushed + last
      BY <3>2, <3>7, <1>1, <1>2, <1>3, <1>5
    <3>11. part[flushed + last - applied] = accepted[flushed + last]
      BY <3>10, <1>6
    <3>12. flushed + last - applied <= l
      BY <3>2, <3>7, <3>9, <3>10, <3>11
    <3>13. flushed + last = applied + l
      <4>1. l \in Int /\ last \in Int /\ flushed \in Int /\ applied \in Int
        BY <3>2, <3>7, <1>1, <1>3, <1>5
      <4>2. flushed + last - applied <= l /\ applied + l - flushed <= last
        BY <3>7, <3>12
      <4> QED  BY <4>1, <4>2
    <3> QED  BY <2>1, <2>2, <3>3, <3>4, <3>8, <3>9, <3>13
  <2>3. CASE at = {} /\ \E i \in 1 .. Len(batch) : batch[i].key = k
    <3>1. /\ last \in 1 .. Len(batch) /\ batch[last].key = k
          /\ \A j \in 1 .. Len(batch) : batch[j].key = k => j <= last
      <4>1. PICK i0 \in 1 .. Len(batch) : batch[i0].key = k
        BY <2>3
      <4>2. batch \in Seq(Writes)
        BY DEF OrderInv, WriterTypeOK
      <4> QED  BY <4>1, <4>2, LastWrite
    <3>2. redis'[k] = batch[last].response
      BY <2>3 DEF Execute
    <3> HIDE DEF last
    <3> DEFINE i == flushed + last
    <3>3. accepted[i] = batch[last] /\ i \in 1 .. Taken
      BY <3>1, <1>1, <1>2, <1>3
    <3>4. i \in 1 .. applied
      <4> SUFFICES ASSUME ~ (i <= applied) PROVE FALSE
        BY <3>3, <1>1, <1>2, <1>3
      <4>1. i - applied \in 1 .. n /\ applied + (i - applied) = i
        BY <3>3, <1>1, <1>2, <1>5
      <4>2. part[i - applied].key = k
        BY <4>1, <3>1, <3>3, <1>6
      <4> QED  BY <4>1, <4>2, <2>3, <1>6
    <3>5. ASSUME NEW j \in i + 1 .. applied PROVE accepted[j].key # k
      <4>1. j - flushed \in 1 .. Len(batch) /\ flushed + (j - flushed) = j /\ ~ (j - flushed <= last)
        BY <3>1, <3>3, <1>1, <1>2, <1>3
      <4> QED  BY <4>1, <3>1, <1>3
    <3>6. redis[k] = accepted[i].response
      BY <3>1, <3>3, <3>4, <3>5 DEF OrderInv, RedisIsPrefix
    <3> QED  BY <2>1, <2>3, <3>2, <3>3, <3>6
  <2>4. CASE at = {} /\ ~ \E i \in 1 .. Len(batch) : batch[i].key = k
    BY <2>1, <2>4 DEF Execute
  <2> QED  BY <2>2, <2>3, <2>4
<1>8. CASE n = 0
  <2>1. redis' = redis
    <3>1. \A k \in Keys : redis'[k] = redis[k]
      BY <1>6, <1>7, <1>8 DEF Ordered!WriteAll
    <3>2. redis \in [Keys -> Responses \cup {NoResponse}] /\ redis' \in [Keys -> Responses \cup {NoResponse}]
      BY DEF OrderInv, WriterTypeOK
    <3> QED  BY <3>1, <3>2
  <2>2. applied' = applied
    BY <1>1, <1>2, <1>5, <1>8
  <2> QED  BY <2>1, <2>2 DEF Pending
<1>9. CASE n # 0
  <2> DEFINE later == SubSeq(Pending, n + 1, Len(Pending))
             p == SubSeq(accepted, applied' + 1, Len(accepted))
  <2>1. n \in 1 .. Len(Pending) /\ Len(Pending) \in Nat /\ Len(Pending) \in n .. Len(Pending)
    BY <1>1, <1>4, <1>5, <1>9
  <2>2. /\ later \in Seq(Writes) /\ Len(later) = Len(Pending) - n
        /\ \A i \in 1 .. Len(Pending) - n : later[i] = Pending[n + i]
    BY <2>1, <1>4, <1>5, Part
  <2> HIDE DEF later
  <2>3. applied' \in Nat /\ Len(accepted) \in applied' .. Len(accepted)
    BY <1>1, <1>2
  <2>4. /\ p \in Seq(Writes) /\ Len(p) = Len(accepted) - applied'
        /\ \A i \in 1 .. Len(accepted) - applied' : p[i] = accepted[applied' + i]
    BY <2>3, Part DEF OrderInv, WriterTypeOK
  <2> HIDE DEF p
  <2>5. Len(p) = Len(later) /\ Len(p) \in Nat /\ Len(p) = Len(accepted) - applied'
    <3>1. Len(p) = Len(accepted) - applied' /\ Len(later) = Len(Pending) - n
      BY <2>2, <2>4
    <3>2. /\ Len(Pending) = Len(accepted) - applied /\ applied + n = applied'
          /\ n \in Nat /\ applied' <= Len(accepted)
      BY <1>2, <1>4, <1>5
    <3> QED  BY <3>1, <3>2, <2>3, <1>1
  <2>6. ASSUME NEW i \in 1 .. Len(p) PROVE p[i] = later[i]
    <3>1. /\ i \in 1 .. Len(Pending) - n /\ n + i \in 1 .. Len(accepted) - applied
          /\ applied + (n + i) = applied' + i
      BY <2>1, <2>2, <2>5, <1>1, <1>2, <1>4, <1>5
    <3> QED  BY <3>1, <2>2, <2>4, <2>5, <1>4
  <2>7. p = later
    BY <2>2, <2>4, <2>5, <2>6, SeqEqual
  <2>8. Pending' = p
    BY DEF Pending, p
  <2> QED  BY <2>1, <2>7, <2>8, <1>7 DEF later, part
<1> QED  BY <1>8, <1>9

LEMMA NextRefines == IInv /\ IInv' /\ [WriterNext]_writerVars => [Ordered!Next]_(Ordered!vars)
<1> SUFFICES ASSUME IInv, IInv', [WriterNext]_writerVars
             PROVE  Ordered!Next \/ UNCHANGED Ordered!vars
  OBVIOUS
<1> USE DEF Ordered!vars
<1>1. ASSUME NEW t \in SetTasks, NEW w \in Writes, Put(t, w)
      PROVE  Ordered!Next \/ UNCHANGED Ordered!vars
  BY <1>1, EnqueueRefines DEF Put, Ordered!Next, IInv
<1>2. ASSUME NEW t \in SetTasks, PutResumes(t)
      PROVE  Ordered!Next \/ UNCHANGED Ordered!vars
  <2>1. blocked[t] \in Writes
    BY <1>2 DEF PutResumes, IInv, OrderInv, WriterTypeOK
  <2> QED  BY <1>2, <2>1, EnqueueRefines DEF PutResumes, Ordered!Next, IInv
<1>3. CASE worker = "storing" /\ Execute /\ UNCHANGED <<queue, accepted>>
  <2>1. CASE UNCHANGED <<Pending, redis>>
    <3>1. CASE worker' = "off"
      BY <1>3, <2>1, <3>1 DEF Ordered!End, Ordered!Next, Pending
    <3>2. CASE worker' # "off"
      BY <1>3, <2>1, <3>2 DEF Pending
    <3> QED  BY <3>1, <3>2
  <2>2. CASE \E n \in 1 .. Len(Pending) :
               /\ redis' = Ordered!WriteAll(redis, SubSeq(Pending, 1, n))
               /\ Pending' = SubSeq(Pending, n + 1, Len(Pending))
    BY <1>3, <2>2 DEF Ordered!Apply, Ordered!Next, Pending
  <2> QED  BY <1>3, <2>1, <2>2, ExecuteRefines DEF IInv
<1>4. CASE UNCHANGED <<accepted, applied, redis>>
  <2>1. CASE worker' = "off" /\ worker # "off"
    BY <1>4, <2>1 DEF Ordered!End, Ordered!Next
  <2>2. CASE (worker' = "off") = (worker = "off")
    BY <1>4, <2>2
  <2>3. CASE worker' # "off" /\ worker = "off"
    BY <2>3 DEF WriterNext, WorkerStep, Put, PutResumes, Get, GetTimesOut, StoreSucceeds,
       StoreFails, SleepEnds, Close, CloseSwallowed, WriterTick, writerVars
  <2> QED  BY <2>1, <2>2, <2>3
<1>5. CASE WorkerStep \/ Close \/ CloseSwallowed \/ WriterTick
  BY <1>3, <1>4, <1>5
  DEF WorkerStep, Get, GetTimesOut, StoreSucceeds, StoreFails, SleepEnds, Close,
      CloseSwallowed, WriterTick
<1>6. CASE UNCHANGED writerVars
  BY <1>4, <1>6 DEF writerVars
<1> QED  BY <1>1, <1>2, <1>5, <1>6 DEF WriterNext

\* Whatever fails and however often, redis sees the accepted writes in their
\* order, each batch as one, and never goes back.
THEOREM WritesInOrder == WriterSpec => ImplementsOrderedStore
<1>1. WriterInit => Ordered!Init
  <2> SUFFICES ASSUME WriterInit PROVE Ordered!Init
    OBVIOUS
  <2>1. SubSeq(accepted, applied + 1, Len(accepted)) = <<>>
    BY SubSeqEmpty, EmptySeq DEF WriterInit
  <2> QED  BY <2>1 DEF WriterInit, Ordered!Init
<1> QED  BY <1>1, NextRefines, Inductive, PTL DEF WriterSpec, ImplementsOrderedStore, Ordered!Spec

=============================================================================
