-------------------------- MODULE EmbeddingCacheProofs --------------------------
(***************************************************************************)
(* generate_batch() returns the vectors in the order of the texts, for any *)
(* lists, chunk size and limits, whatever other calls do to the cache.     *)
(*                                                                         *)
(* While a batch gathers, its results are the vectors of the first texts,  *)
(* an entry of its chunk is the vector of its text or a placeholder, and   *)
(* the k-th task generates the text of the k-th placeholder.  A task keeps *)
(* its text however often it is retried, so that a change of the cache     *)
(* between the two awaits of a chunk moves nothing.                        *)
(***************************************************************************)
EXTENDS EmbeddingCache, FiniteSetTheorems, TLAPS

-----------------------------------------------------------------------------
(* The inductive invariant.                                                 *)

\* A call under way has a text, and one that waits to retry may.
CallsUnderWay ==
    \A c \in Calls :
        /\ call[c].pc \in {"queued", "posting", "backoff"} => call[c].text \in Texts
        /\ call[c].pc = "backoff" => call[c].attempt < max_attempts

\* How many placeholders chunk has up to position i.
Gap(chunk, i) == Cardinality({j \in 1 .. i : chunk[j] = None})

\* The results so far, and how far the chunk reaches.
ResultsInOrder(q) ==
    /\ q.texts \in Inputs
    /\ Len(q.chunk) <= batch_size
    /\ Len(q.results) + Len(q.chunk) <= Len(q.texts)
    /\ \A k \in 1 .. Len(q.results) : q.results[k] = q.texts[k]

\* What the chunk of b has and what its tasks will give.
ChunkInOrder(b) ==
    \A i \in 1 .. Len(batch[b].chunk) :
        LET text == batch[b].texts[Len(batch[b].results) + i]
        IN  IF batch[b].chunk[i] # None
              THEN batch[b].chunk[i] = text
              ELSE call[<<b, Gap(batch[b].chunk, i)>>].text = text

GatheringInOrder ==
    \A b \in Batches :
        batch[b].pc = "gathering" => ResultsInOrder(batch[b]) /\ ChunkInOrder(b)

EmbeddingInv == TypeOK /\ CallsUnderWay /\ GatheringInOrder /\ BatchInOrder

-----------------------------------------------------------------------------
(* Positions and placeholders.                                              *)

\* Counting from the left numbers the elements of a set of positions: each has a
\* number of its own, and every number up to the size of the set is used.
LEMMA Ranks ==
    ASSUME NEW n \in Nat, NEW S \in SUBSET (1 .. n)
    PROVE  /\ Cardinality(S) \in 0 .. n
           /\ \A i \in S : LET k == Cardinality({j \in S : j <= i})
                           IN  k \in 1 .. Cardinality(S) /\ Nth(S, k) = i
           /\ \A k \in 1 .. Cardinality(S) : Nth(S, k) \in S
<1> DEFINE UpTo(i) == {j \in S : j <= i}
           rank == [i \in S |-> Cardinality(UpTo(i))]
           size == Cardinality(S)
<1>1. IsFiniteSet(1 .. n) /\ Cardinality(1 .. n) = n
  BY FS_Interval
<1>2. IsFiniteSet(S) /\ size <= n /\ size \in Nat
  BY <1>1, FS_Subset, FS_CardinalityType
<1>3. \A i \in S : /\ IsFiniteSet(UpTo(i)) /\ Cardinality(UpTo(i)) \in Nat
                   /\ Cardinality(UpTo(i)) \in 1 .. size
  <2> TAKE i \in S
  <2>1. UpTo(i) \in SUBSET S /\ i \in UpTo(i)
    OBVIOUS
  <2>2. IsFiniteSet(UpTo(i)) /\ Cardinality(UpTo(i)) <= size
    BY <2>1, <1>2, FS_Subset
  <2>3. Cardinality(UpTo(i)) \in Nat /\ Cardinality(UpTo(i)) # 0
    BY <2>1, <2>2, FS_CardinalityType, FS_EmptySet
  <2> QED
    BY <2>2, <2>3, <1>2
<1>4. \A i, j \in S : Cardinality(UpTo(i)) = Cardinality(UpTo(j)) => i = j
  <2>1. \A i, j \in S : i < j => Cardinality(UpTo(i)) # Cardinality(UpTo(j))
    <3> SUFFICES ASSUME NEW i \in S, NEW j \in S, i < j,
                        Cardinality(UpTo(i)) = Cardinality(UpTo(j))
                 PROVE  FALSE
      OBVIOUS
    <3>1. i \in Nat /\ j \in Nat /\ \A x \in S : x \in Nat
      OBVIOUS
    <3>2. \A x \in S : x <= i => x <= j
      BY <3>1
    <3>3. UpTo(i) \in SUBSET UpTo(j)
      BY <3>2
    <3>4. j \in UpTo(j) /\ j \notin UpTo(i)
      BY <3>1
    <3> QED
      BY <3>3, <3>4, <1>3, FS_Subset
  <2>2. \A i, j \in S : i < j \/ j < i \/ i = j
    OBVIOUS
  <2> HIDE DEF UpTo
  <2> QED
    BY <2>1, <2>2
<1>5. rank \in Injection(S, 1 .. size)
  BY <1>3, <1>4 DEF Injection, IsInjective
<1>6. rank \in Surjection(S, 1 .. size)
  <2>1. IsFiniteSet(1 .. size) /\ Cardinality(1 .. size) = size
    BY <1>2, FS_Interval
  <2> HIDE DEF rank, size
  <2>2. Cardinality(S) = size
    BY DEF size
  <2> QED
    BY <1>5, <2>1, <2>2, FS_Injection
<1>7. \A k \in 1 .. size : \E i \in S : Cardinality(UpTo(i)) = k
  BY <1>6 DEF Surjection
<1>8. \A i \in S : Nth(S, Cardinality(UpTo(i))) = i
  BY <1>4 DEF Nth
<1>9. \A k \in 1 .. size : Nth(S, k) \in S
  BY <1>7 DEF Nth
<1> QED
  BY <1>2, <1>3, <1>8, <1>9

\* The number of a placeholder of a chunk is the number of a task.
LEMMA GapIsTask ==
    ASSUME EmbeddingAssumption, NEW chunk, NEW i \in Nat, 1 <= i, i <= batch_size,
           chunk[i] = None
    PROVE  Gap(chunk, i) \in 1 .. batch_size
<1> DEFINE P == {j \in 1 .. i : chunk[j] = None}
<1>1. IsFiniteSet(1 .. i) /\ Cardinality(1 .. i) = i
  BY FS_Interval
<1>2. P \in SUBSET (1 .. i) /\ i \in P
  OBVIOUS
<1>3. IsFiniteSet(P) /\ Cardinality(P) <= i
  BY <1>1, <1>2, FS_Subset
<1>4. Cardinality(P) \in Nat /\ Cardinality(P) # 0
  BY <1>2, <1>3, FS_CardinalityType, FS_EmptySet
<1> QED
  BY <1>3, <1>4 DEF Gap, EmbeddingAssumption

-----------------------------------------------------------------------------
(* The cache.                                                               *)

\* A shortened cache has room, and holds nothing twice.
LEMMA KeptIsShorter ==
    ASSUME EmbeddingAssumption, TypeOK
    PROVE  Kept \in Seq(Texts) /\ IsInjective(Kept) /\ Len(Kept) < cache_size
<1>1. CASE Len(cache) >= cache_size
  <2>1. /\ Kept = SubSeq(cache, remove_count + 1, Len(cache))
        /\ Len(cache) = cache_size /\ cache \in Seq(Texts) /\ IsInjective(cache)
    BY <1>1 DEF Kept, TypeOK, EmbeddingAssumption
  <2>2. /\ remove_count \in Nat /\ cache_size \in Nat /\ remove_count >= 1
        /\ remove_count <= cache_size
    BY DEF EmbeddingAssumption
  <2>3. /\ Kept \in Seq(Texts) /\ Len(Kept) = cache_size - remove_count
        /\ \A i \in 1 .. Len(Kept) : Kept[i] = cache[i + remove_count]
    BY <2>1, <2>2
  <2>4. IsInjective(Kept)
    BY <2>1, <2>2, <2>3, SMTT(30) DEF IsInjective
  <2> QED
    BY <2>2, <2>3, <2>4
<1>2. CASE Len(cache) < cache_size
  BY <1>2 DEF Kept, TypeOK, EmbeddingAssumption
<1> QED
  BY <1>1, <1>2 DEF TypeOK, EmbeddingAssumption

LEMMA InsertedIsCache ==
    ASSUME EmbeddingAssumption, TypeOK, NEW t \in Texts
    PROVE  Inserted(t) \in Seq(Texts) /\ IsInjective(Inserted(t)) /\ Len(Inserted(t)) <= cache_size
<1>1. Kept \in Seq(Texts) /\ IsInjective(Kept) /\ Len(Kept) < cache_size /\ cache_size \in Nat
  BY KeptIsShorter DEF EmbeddingAssumption
<1>2. CASE t \in Range(Kept)
  BY <1>1, <1>2 DEF Inserted
<1>3. CASE t \notin Range(Kept)
  <2>1. Inserted(t) = Append(Kept, t) /\ \A i \in 1 .. Len(Kept) : Kept[i] # t
    BY <1>1, <1>3 DEF Inserted, Range
  <2> QED
    BY <1>1, <2>1 DEF IsInjective
<1> QED
  BY <1>2, <1>3

-----------------------------------------------------------------------------
(* Steps that leave the batches alone.                                      *)

\* A step of calls under way, and of callers that are no tasks, moves no result.
LEMMA OrderKept ==
    ASSUME EmbeddingAssumption, EmbeddingInv, UNCHANGED batch,
           \A b \in Batches, k \in 1 .. batch_size :
               call'[<<b, k>>].text = call[<<b, k>>].text
    PROVE  GatheringInOrder' /\ BatchInOrder'
<1>1. BatchInOrder'
  BY DEF EmbeddingInv, BatchInOrder
<1>2. ASSUME NEW b \in Batches, batch'[b].pc = "gathering"
      PROVE  ResultsInOrder(batch'[b]) /\ ChunkInOrder(b)'
  <2>1. batch' = batch /\ ResultsInOrder(batch[b]) /\ ChunkInOrder(b)
    BY <1>2 DEF EmbeddingInv, GatheringInOrder
  <2>2. batch[b].chunk \in Seq(Texts \cup {None}) /\ Len(batch[b].chunk) <= batch_size
    BY <2>1 DEF EmbeddingInv, TypeOK, ResultsInOrder
  <2>3. ASSUME NEW i \in 1 .. Len(batch[b].chunk), batch[b].chunk[i] = None
        PROVE  Gap(batch[b].chunk, i) \in 1 .. batch_size
    <3>1. i \in Nat /\ 1 <= i /\ i <= batch_size
      BY <2>2 DEF EmbeddingAssumption
    <3> QED
      BY <3>1, <2>3, GapIsTask
  <2>4. ASSUME NEW i \in 1 .. Len(batch[b].chunk), batch[b].chunk[i] = None
        PROVE  call'[<<b, Gap(batch[b].chunk, i)>>].text
                  = call[<<b, Gap(batch[b].chunk, i)>>].text
    BY <2>3, <2>4
  <2>5. ChunkInOrder(b)'
    BY <2>1, <2>4 DEF ChunkInOrder
  <2> QED
    BY <2>1, <2>5
<1> QED
  BY <1>1, <1>2 DEF GatheringInOrder

\* The steps of one call.
LEMMA CallChange ==
    ASSUME EmbeddingAssumption, EmbeddingInv, UNCHANGED batch,
           NEW c \in Calls, NEW new, call' = [call EXCEPT ![c] = new],
           new \in [pc : {"queued", "posting", "backoff", "ended", "failed"},
                    text : Texts \cup {None}, attempt : 0 .. max_attempts],
           new.pc \in {"queued", "posting", "backoff"} => new.text \in Texts,
           new.pc = "backoff" => new.attempt < max_attempts,
           c \in Callers \/ new.text = call[c].text,
           cache' \in Seq(Texts) /\ IsInjective(cache') /\ Len(cache') <= cache_size
    PROVE  EmbeddingInv'
<1>1. TypeOK /\ CallsUnderWay
  BY DEF EmbeddingInv
<1>2. TypeOK'
  BY <1>1 DEF TypeOK
<1>3. CallsUnderWay'
  BY <1>1 DEF TypeOK, CallsUnderWay
<1>4. ASSUME NEW b \in Batches, NEW k \in 1 .. batch_size
      PROVE  call'[<<b, k>>].text = call[<<b, k>>].text
  <2>1. <<b, k>> \in Calls /\ <<b, k>> \notin Callers
    BY DEF Calls, EmbeddingAssumption
  <2> QED
    BY <1>1, <2>1 DEF TypeOK
<1> QED
  BY <1>2, <1>3, <1>4, OrderKept DEF EmbeddingInv

\* generate() entered with a text is well-typed.
LEMMA EnteredType ==
    ASSUME EmbeddingAssumption, NEW t \in Texts, NEW attempt \in 1 .. max_attempts
    PROVE  /\ Entered(t, attempt) \in
                [pc : {"queued", "posting", "backoff", "ended", "failed"},
                 text : Texts \cup {None}, attempt : 0 .. max_attempts]
           /\ Entered(t, attempt).pc # "backoff" /\ Entered(t, attempt).text = t
  BY DEF Entered, EmbeddingAssumption

-----------------------------------------------------------------------------
(* The chunks.                                                              *)

\* Where what is known of the first results agrees with the texts, a new chunk does
\* too: the tasks are numbered as the placeholders are.
LEMMA ChunkStarts ==
    ASSUME EmbeddingAssumption, EmbeddingInv, NEW b \in Batches, NEW texts \in Inputs,
           NEW results \in Seq(Texts), Len(results) < Len(texts),
           \A k \in 1 .. Len(results) : results[k] = texts[k],
           StartChunk(b, texts, results)
    PROVE  EmbeddingInv'
<1> DEFINE todo == SubSeq(texts, Len(results) + 1, Len(texts))
           size == IF Len(todo) < batch_size THEN Len(todo) ELSE batch_size
           chunk == SubSeq(todo, 1, size)
           missing == {i \in DOMAIN chunk : ~ Cached(chunk[i])}
           to_generate == Selected(chunk, missing)
           placed == [i \in DOMAIN chunk |-> IF Cached(chunk[i]) THEN chunk[i] ELSE None]
           started == [pc |-> "gathering", texts |-> texts, results |-> results,
                       chunk |-> placed]
<1>1. /\ texts \in Seq(Texts) /\ batch_size \in Nat \ {0} /\ max_attempts \in Nat
      /\ None \notin Texts
  BY DEF EmbeddingAssumption
<1>2. TypeOK /\ CallsUnderWay /\ GatheringInOrder /\ BatchInOrder
  BY DEF EmbeddingInv
<1>3. /\ todo \in Seq(Texts) /\ Len(todo) = Len(texts) - Len(results)
      /\ \A i \in 1 .. Len(todo) : todo[i] = texts[Len(results) + i]
  BY <1>1
<1>4. /\ chunk \in Seq(Texts) /\ Len(chunk) = size
      /\ size \in Nat /\ size <= batch_size /\ size <= Len(todo)
      /\ \A i \in 1 .. size : chunk[i] = texts[Len(results) + i]
  <2>1. size \in Nat /\ size <= batch_size /\ size <= Len(todo)
    BY <1>1, <1>3
  <2> HIDE DEF todo, size
  <2>2. chunk \in Seq(Texts) /\ Len(chunk) = size /\ \A i \in 1 .. size : chunk[i] = todo[i]
    BY <1>3, <2>1
  <2> QED
    BY <1>3, <2>1, <2>2
<1>5. /\ batch' = [batch EXCEPT ![b] = started]
      /\ call' = [c \in Calls |->
                    IF c \notin Tasks(b) THEN call[c]
                    ELSE IF c[2] <= Len(to_generate)
                           THEN [pc |-> "queued", text |-> to_generate[c[2]], attempt |-> 0]
                           ELSE NoCall]
      /\ cache' = cache
  BY DEF StartChunk
<1> HIDE DEF chunk, size, todo
<1>6. DOMAIN chunk = 1 .. size /\ missing \in SUBSET (1 .. size)
  BY <1>4
<1>7. placed \in Seq(Texts \cup {None}) /\ Len(placed) = size
  <2>1. \A i \in 1 .. size : chunk[i] \in Texts
    BY <1>4
  <2>2. placed \in [1 .. size -> Texts \cup {None}]
    BY <1>6, <2>1
  <2> HIDE DEF placed
  <2> QED
    BY <1>4, <2>2
<1>8. /\ Cardinality(missing) \in 0 .. size
      /\ \A k \in 1 .. Cardinality(missing) : Nth(missing, k) \in missing
      /\ \A i \in missing :
            LET k == Cardinality({j \in missing : j <= i})
            IN  k \in 1 .. Cardinality(missing) /\ Nth(missing, k) = i
  <2> HIDE DEF missing
  <2> QED
    BY <1>4, <1>6, Ranks
<1>9. \A i \in 1 .. size :
         /\ placed[i] # None => placed[i] = texts[Len(results) + i]
         /\ placed[i] = None => i \in missing
  BY <1>1, <1>4, <1>6
<1>10. \A i \in missing :
          Gap(placed, i) = Cardinality({j \in missing : j <= i})
  <2> SUFFICES ASSUME NEW i \in missing
               PROVE  {j \in 1 .. i : placed[j] = None} = {j \in missing : j <= i}
    BY DEF Gap
  <2>1. i \in 1 .. size /\ size \in Nat /\ \A j \in missing : j \in 1 .. size
    BY <1>4, <1>6
  <2>2. \A j \in 1 .. size : placed[j] = None <=> j \in missing
    BY <1>1, <1>4, <1>6
  <2> HIDE DEF placed, missing
  <2>3. \A j : j \in 1 .. i <=> j \in 1 .. size /\ j <= i
    BY <2>1
  <2> QED
    BY <2>1, <2>2, <2>3
<1> HIDE DEF placed, missing
<1>11. /\ Len(to_generate) = Cardinality(missing)
       /\ \A k \in 1 .. Len(to_generate) :
             to_generate[k] = chunk[Nth(missing, k)] /\ to_generate[k] \in Texts
  <2>1. /\ Len(to_generate) = Cardinality(missing)
        /\ \A k \in 1 .. Cardinality(missing) : to_generate[k] = chunk[Nth(missing, k)]
    BY <1>8 DEF Selected
  <2>2. \A k \in 1 .. Cardinality(missing) : Nth(missing, k) \in 1 .. size
    BY <1>6, <1>8
  <2> QED
    BY <1>4, <2>1, <2>2
<1> HIDE DEF to_generate
<1>12. \A k \in 1 .. batch_size : <<b, k>> \in Calls /\ <<b, k>> \in Tasks(b)
  BY DEF Calls, Tasks
<1>13. \A c \in Calls :
          \/ c \notin Tasks(b) /\ call'[c] = call[c]
          \/ \E k \in 1 .. batch_size :
                /\ c = <<b, k>> /\ k <= Len(to_generate)
                /\ call'[c] = [pc |-> "queued", text |-> to_generate[k], attempt |-> 0]
          \/ call'[c] = NoCall
  BY <1>5 DEF Tasks
<1>14. /\ TypeOK' /\ CallsUnderWay'
  <2>1. \A c \in Calls : /\ call'[c] \in
                             [pc : {"queued", "posting", "backoff", "ended", "failed"},
                              text : Texts \cup {None}, attempt : 0 .. max_attempts]
                         /\ call'[c].pc \in {"queued", "posting", "backoff"}
                              => call'[c].text \in Texts
                         /\ call'[c].pc = "backoff" => call'[c].attempt < max_attempts
    <3> TAKE c \in Calls
    <3>1. CASE c \notin Tasks(b) /\ call'[c] = call[c]
      BY <1>2, <3>1 DEF TypeOK, CallsUnderWay
    <3>2. CASE \E k \in 1 .. batch_size :
                 /\ c = <<b, k>> /\ k <= Len(to_generate)
                 /\ call'[c] = [pc |-> "queued", text |-> to_generate[k], attempt |-> 0]
      <4>1. PICK k \in 1 .. batch_size :
               /\ k <= Len(to_generate)
               /\ call'[c] = [pc |-> "queued", text |-> to_generate[k], attempt |-> 0]
        BY <3>2
      <4>2. k \in 1 .. Len(to_generate)
        BY <4>1, <1>1, <1>8, <1>11
      <4> QED
        BY <4>1, <4>2, <1>1, <1>11
    <3>3. CASE call'[c] = NoCall
      BY <3>3, <1>1 DEF NoCall
    <3> QED
      BY <3>1, <3>2, <3>3, <1>13
  <2>2. batch' \in [Batches -> [pc : {"idle", "gathering", "returned", "raised"},
                                texts : Inputs \cup {<<>>},
                                chunk : Seq(Texts \cup {None}),
                                results : Seq(Texts)]]
    BY <1>2, <1>5, <1>7 DEF TypeOK
  <2>3. DOMAIN call' = Calls /\ call' = [c \in Calls |-> call'[c]]
    BY <1>5
  <2> QED
    BY <1>2, <1>5, <2>1, <2>2, <2>3 DEF TypeOK, CallsUnderWay
<1>15. ASSUME NEW other \in Batches \ {b}
       PROVE  /\ batch'[other] = batch[other]
              /\ \A k \in 1 .. batch_size : call'[<<other, k>>] = call[<<other, k>>]
  <2>1. \A k \in 1 .. batch_size : <<other, k>> \in Calls /\ <<other, k>> \notin Tasks(b)
    BY DEF Calls, Tasks
  <2> QED
    BY <1>2, <1>5, <2>1 DEF TypeOK
<1>16. batch'[b] = started
  BY <1>2, <1>5 DEF TypeOK
<1>17. BatchInOrder'
  BY <1>2, <1>15, <1>16 DEF BatchInOrder
<1>18. ResultsInOrder(batch'[b])
  BY <1>1, <1>3, <1>4, <1>7, <1>16 DEF ResultsInOrder
<1>19. ChunkInOrder(b)'
  <2> SUFFICES ASSUME NEW i \in 1 .. size, placed[i] = None
               PROVE  call'[<<b, Gap(placed, i)>>].text = texts[Len(results) + i]
    BY <1>7, <1>9, <1>16 DEF ChunkInOrder, Gap
  <2> DEFINE k == Gap(placed, i)
  <2>1. i \in missing
    BY <1>9
  <2>2. k \in 1 .. Cardinality(missing) /\ Nth(missing, k) = i
    BY <2>1, <1>8, <1>10
  <2>3. k \in 1 .. batch_size /\ k \in 1 .. Len(to_generate) /\ k <= Len(to_generate)
    BY <2>2, <1>1, <1>4, <1>8, <1>11
  <2> HIDE DEF k
  <2>4. call'[<<b, k>>].text = to_generate[k]
    BY <2>3, <1>5, <1>12
  <2>5. to_generate[k] = chunk[i]
    BY <2>2, <2>3, <1>11
  <2> QED
    BY <2>4, <2>5, <1>4 DEF k
<1>20. ASSUME NEW other \in Batches \ {b}, batch[other].pc = "gathering"
       PROVE  ResultsInOrder(batch'[other]) /\ ChunkInOrder(other)'
  <2>1. ResultsInOrder(batch[other]) /\ ChunkInOrder(other)
    BY <1>2, <1>20 DEF GatheringInOrder
  <2>2. batch[other].chunk \in Seq(Texts \cup {None}) /\ Len(batch[other].chunk) <= batch_size
    BY <2>1, <1>2 DEF TypeOK, ResultsInOrder
  <2>3. ASSUME NEW i \in 1 .. Len(batch[other].chunk), batch[other].chunk[i] = None
        PROVE  Gap(batch[other].chunk, i) \in 1 .. batch_size
    <3>1. i \in Nat /\ 1 <= i /\ i <= batch_size
      BY <2>2, <1>1
    <3> QED
      BY <3>1, <2>3, GapIsTask
  <2>4. ASSUME NEW i \in 1 .. Len(batch[other].chunk)
        PROVE  LET text == batch[other].texts[Len(batch[other].results) + i]
               IN  IF batch[other].chunk[i] # None
                     THEN batch[other].chunk[i] = text
                     ELSE call'[<<other, Gap(batch[other].chunk, i)>>].text = text
    BY <2>1, <2>3, <1>15 DEF ChunkInOrder
  <2>5. ChunkInOrder(other)'
    BY <2>4, <1>15 DEF ChunkInOrder
  <2> QED
    BY <2>1, <2>5, <1>15
<1>21. GatheringInOrder'
  BY <1>15, <1>18, <1>19, <1>20 DEF GatheringInOrder
<1> QED
  BY <1>14, <1>17, <1>21 DEF EmbeddingInv

LEMMA Lengths ==
    ASSUME NEW S, NEW s \in Seq(S)
    PROVE  Len(s) \in Nat /\ DOMAIN s = 1 .. Len(s)
  OBVIOUS

\* Where s is a prefix of u and t continues it, both together are a prefix.
LEMMA Continued ==
    ASSUME NEW s \in Seq(Texts), NEW t \in Seq(Texts), NEW u \in Seq(Texts),
           Len(s) + Len(t) <= Len(u),
           \A k \in 1 .. Len(s) : s[k] = u[k],
           \A i \in 1 .. Len(t) : t[i] = u[Len(s) + i]
    PROVE  /\ s \o t \in Seq(Texts) /\ Len(s \o t) <= Len(u)
           /\ \A k \in 1 .. Len(s \o t) : (s \o t)[k] = u[k]
<1>1. s \o t \in Seq(Texts) /\ Len(s \o t) = Len(s) + Len(t)
  OBVIOUS
<1>2. ASSUME NEW k \in 1 .. Len(s) + Len(t) PROVE (s \o t)[k] = u[k]
  <2>1. CASE k <= Len(s)
    BY <2>1
  <2>2. CASE k > Len(s)
    <3>1. k - Len(s) \in 1 .. Len(t) /\ k = Len(s) + (k - Len(s))
      BY <2>2
    <3>2. (s \o t)[k] = t[k - Len(s)]
      BY <2>2
    <3> QED
      BY <3>1, <3>2
  <2> QED
    BY <2>1, <2>2
<1> QED
  BY <1>1, <1>2

\* A complete chunk has the vectors of its texts.
LEMMA StitchedInOrder ==
    ASSUME EmbeddingAssumption, EmbeddingInv, NEW b \in Batches, batch[b].pc = "gathering"
    PROVE  LET results == batch[b].results \o Stitched(b)
           IN  /\ results \in Seq(Texts)
               /\ Len(results) <= Len(batch[b].texts)
               /\ \A k \in 1 .. Len(results) : results[k] = batch[b].texts[k]
<1>1. ResultsInOrder(batch[b]) /\ ChunkInOrder(b) /\ TypeOK
  BY DEF EmbeddingInv, GatheringInOrder
<1>2. batch[b].results \in Seq(Texts) /\ batch[b].chunk \in Seq(Texts \cup {None})
  BY <1>1 DEF TypeOK
<1>3. batch[b].texts \in Seq(Texts)
  BY <1>1 DEF ResultsInOrder, EmbeddingAssumption
<1>4. PICK s, c, u :
         /\ s = batch[b].results /\ u = batch[b].texts /\ c = batch[b].chunk
         /\ s \in Seq(Texts) /\ u \in Seq(Texts) /\ c \in Seq(Texts \cup {None})
  BY <1>2, <1>3
<1>5. Len(s) + Len(c) <= Len(u) /\ \A k \in 1 .. Len(s) : s[k] = u[k]
  BY <1>1, <1>4 DEF ResultsInOrder
<1>6. PICK n \in Nat : n = Len(c) /\ DOMAIN c = 1 .. n /\ Len(s) + n <= Len(u)
  <2>1. Len(c) \in Nat /\ DOMAIN c = 1 .. Len(c)
    BY <1>4, Lengths
  <2> QED
    BY <1>5, <2>1
<1>7. \A i \in 1 .. n : Stitched(b)[i] = u[Len(s) + i]
  BY <1>1, <1>4, <1>6 DEF Stitched, ChunkInOrder, Gap
<1>8. \A i \in 1 .. n : Stitched(b)[i] \in Texts
  <2> SUFFICES ASSUME NEW i \in 1 .. n PROVE u[Len(s) + i] \in Texts
    BY <1>7
  <2>1. Len(s) + i \in 1 .. Len(u)
    <3>1. Len(s) \in Nat /\ Len(u) \in Nat
      BY <1>4, Lengths
    <3> QED
      BY <1>6, <3>1
  <2> QED
    BY <1>4, <2>1
<1>9. Stitched(b) = [i \in 1 .. n |-> Stitched(b)[i]]
  BY <1>4, <1>6 DEF Stitched
<1>10. PICK t \in Seq(Texts) : t = Stitched(b) /\ Len(t) = n
  BY <1>6, <1>8, <1>9
<1>11. /\ s \o t \in Seq(Texts) /\ Len(s \o t) <= Len(u)
       /\ \A k \in 1 .. Len(s \o t) : (s \o t)[k] = u[k]
  <2>1. Len(s) + Len(t) <= Len(u) /\ \A i \in 1 .. Len(t) : t[i] = u[Len(s) + i]
    BY <1>6, <1>7, <1>10
  <2>2. s \in Seq(Texts) /\ u \in Seq(Texts) /\ \A k \in 1 .. Len(s) : s[k] = u[k]
    BY <1>4, <1>5
  <2> QED
    BY <1>10, <2>1, <2>2, Continued
<1> QED
  BY <1>4, <1>10, <1>11

\* When one batch ends, the others are as they were.
LEMMA OthersInOrder ==
    ASSUME EmbeddingInv, NEW b \in Batches, batch'[b].pc # "gathering",
           \A other \in Batches \ {b} : batch'[other] = batch[other],
           UNCHANGED call
    PROVE  GatheringInOrder'
<1> SUFFICES ASSUME NEW other \in Batches, batch'[other].pc = "gathering"
             PROVE  ResultsInOrder(batch'[other]) /\ ChunkInOrder(other)'
  BY DEF GatheringInOrder
<1>1. batch'[other] = batch[other] /\ call' = call
  OBVIOUS
<1>2. ResultsInOrder(batch[other]) /\ ChunkInOrder(other)
  BY <1>1 DEF EmbeddingInv, GatheringInOrder
<1> QED
  BY <1>1, <1>2 DEF ChunkInOrder

-----------------------------------------------------------------------------
(* The invariant.                                                           *)

LEMMA EmbeddingInit == ASSUME EmbeddingAssumption, Init PROVE EmbeddingInv
<1>1. TypeOK
  BY DEF Init, TypeOK, NoCall, NoBatch, IsInjective, EmbeddingAssumption
<1>2. CallsUnderWay /\ GatheringInOrder /\ BatchInOrder
  BY DEF Init, CallsUnderWay, GatheringInOrder, BatchInOrder, NoCall, NoBatch
<1> QED
  BY <1>1, <1>2 DEF EmbeddingInv

LEMMA EmbeddingStep ==
    ASSUME EmbeddingAssumption, EmbeddingInv, [Next]_vars
    PROVE  EmbeddingInv'
<1>1. TypeOK /\ CallsUnderWay
  BY DEF EmbeddingInv
<1>2. /\ cache \in Seq(Texts) /\ IsInjective(cache) /\ Len(cache) <= cache_size
      /\ max_attempts \in Nat \ {0}
  BY <1>1 DEF TypeOK, EmbeddingAssumption
<1>3. \A c \in Calls :
         /\ call[c] \in [pc : {"queued", "posting", "backoff", "ended", "failed"},
                         text : Texts \cup {None}, attempt : 0 .. max_attempts]
         /\ call[c].pc \in {"queued", "posting", "backoff"} => call[c].text \in Texts
         /\ call[c].pc = "backoff" => call[c].attempt < max_attempts
  BY <1>1 DEF TypeOK, CallsUnderWay
<1>4. ASSUME NEW c \in Calls, Reply(c) PROVE EmbeddingInv'
  <2>1. call[c].text \in Texts
    BY <1>3, <1>4 DEF Reply
  <2>2. call' = [call EXCEPT ![c] = [call[c] EXCEPT !.pc = "ended"]] /\ UNCHANGED batch
    BY <1>4 DEF Reply
  <2>3. cache' \in Seq(Texts) /\ IsInjective(cache') /\ Len(cache') <= cache_size
    BY <1>1, <1>4, <2>1, InsertedIsCache DEF Reply
  <2> QED
    BY <1>3, <2>2, <2>3, CallChange
<1>5. ASSUME NEW c \in Calls, PostFails(c) PROVE EmbeddingInv'
  <2> DEFINE new == [call[c] EXCEPT !.pc =
                       IF call[c].attempt < max_attempts THEN "backoff" ELSE "failed"]
  <2>1. call[c].pc = "posting" /\ call' = [call EXCEPT ![c] = new] /\ UNCHANGED <<cache, batch>>
    BY <1>5 DEF PostFails
  <2>2. /\ new \in [pc : {"queued", "posting", "backoff", "ended", "failed"},
                    text : Texts \cup {None}, attempt : 0 .. max_attempts]
        /\ new.text = call[c].text /\ new.text \in Texts
        /\ new.pc = "backoff" => new.attempt < max_attempts
    BY <1>3, <2>1
  <2> HIDE DEF new
  <2> QED
    BY <1>2, <2>1, <2>2, CallChange
<1>6. ASSUME NEW c \in Calls, Retry(c) PROVE EmbeddingInv'
  <2> DEFINE new == Entered(call[c].text, call[c].attempt + 1)
  <2>1. call[c].pc = "backoff" /\ call' = [call EXCEPT ![c] = new] /\ UNCHANGED <<cache, batch>>
    BY <1>6 DEF Retry
  <2>2. call[c].text \in Texts /\ call[c].attempt + 1 \in 1 .. max_attempts
    BY <1>2, <1>3, <2>1
  <2>3. /\ new \in [pc : {"queued", "posting", "backoff", "ended", "failed"},
                    text : Texts \cup {None}, attempt : 0 .. max_attempts]
        /\ new.text = call[c].text /\ new.pc # "backoff"
    BY <2>2, EnteredType
  <2> HIDE DEF new
  <2> QED
    BY <1>2, <2>1, <2>2, <2>3, CallChange
<1>7. ASSUME NEW c \in Callers, NEW t \in Texts, Generate(c, t) PROVE EmbeddingInv'
  <2> DEFINE new == Entered(t, 1)
  <2>1. call' = [call EXCEPT ![c] = new] /\ UNCHANGED <<cache, batch>> /\ c \in Calls
    BY <1>7 DEF Generate, Calls
  <2>2. /\ new \in [pc : {"queued", "posting", "backoff", "ended", "failed"},
                    text : Texts \cup {None}, attempt : 0 .. max_attempts]
        /\ new.text = t /\ new.pc # "backoff"
    BY <1>2, EnteredType
  <2> HIDE DEF new
  <2> QED
    BY <1>2, <2>1, <2>2, CallChange
<1>8. ASSUME NEW b \in Batches, NEW k \in 1 .. batch_size, Acquire(b, k) PROVE EmbeddingInv'
  <2> DEFINE c == <<b, k>>
             new == Entered(call[c].text, 1)
  <2>1. /\ call[c].pc = "queued" /\ call' = [call EXCEPT ![c] = new]
        /\ UNCHANGED <<cache, batch>> /\ c \in Calls
    BY <1>8 DEF Acquire, Calls
  <2>2. call[c].text \in Texts
    BY <1>3, <2>1
  <2>3. /\ new \in [pc : {"queued", "posting", "backoff", "ended", "failed"},
                    text : Texts \cup {None}, attempt : 0 .. max_attempts]
        /\ new.text = call[c].text /\ new.pc # "backoff"
    BY <1>2, <2>2, EnteredType
  <2> HIDE DEF new, c
  <2> QED
    BY <1>2, <2>1, <2>2, <2>3, CallChange
<1>9. ASSUME NEW b \in Batches, GatherCompletes(b) PROVE EmbeddingInv'
  <2> DEFINE results == batch[b].results \o Stitched(b)
  <2>1. batch[b].pc = "gathering" /\ batch[b].texts \in Inputs /\ batch[b].texts \in Seq(Texts)
    BY <1>9 DEF GatherCompletes, EmbeddingInv, GatheringInOrder, ResultsInOrder,
                EmbeddingAssumption
  <2>2. /\ results \in Seq(Texts) /\ Len(results) <= Len(batch[b].texts)
        /\ \A k \in 1 .. Len(results) : results[k] = batch[b].texts[k]
    BY <2>1, StitchedInOrder
  <2>3. IF Len(results) < Len(batch[b].texts)
          THEN StartChunk(b, batch[b].texts, results)
          ELSE /\ batch' = [batch EXCEPT ![b].pc = "returned", ![b].chunk = <<>>,
                                         ![b].results = results]
               /\ UNCHANGED <<cache, call>>
    BY <1>9 DEF GatherCompletes
  <2> HIDE DEF results
  <2>4. CASE Len(results) < Len(batch[b].texts)
    BY <2>1, <2>2, <2>3, <2>4, ChunkStarts
  <2>5. CASE ~ (Len(results) < Len(batch[b].texts))
    <3>1. results = batch[b].texts
      BY <2>1, <2>2, <2>5
    <3>2. /\ batch'[b] = [batch[b] EXCEPT !.pc = "returned", !.chunk = <<>>,
                                          !.results = results]
          /\ \A other \in Batches \ {b} : batch'[other] = batch[other]
          /\ UNCHANGED <<cache, call>>
      BY <2>3, <2>5, <1>1 DEF TypeOK
    <3>3. TypeOK'
      <4>1. batch' \in [Batches -> [pc : {"idle", "gathering", "returned", "raised"},
                                    texts : Inputs \cup {<<>>},
                                    chunk : Seq(Texts \cup {None}),
                                    results : Seq(Texts)]]
        <5>1. [batch[b] EXCEPT !.pc = "returned", !.chunk = <<>>, !.results = results] \in
                 [pc : {"idle", "gathering", "returned", "raised"},
                  texts : Inputs \cup {<<>>},
                  chunk : Seq(Texts \cup {None}),
                  results : Seq(Texts)]
          <6>1. batch[b] \in [pc : {"idle", "gathering", "returned", "raised"},
                              texts : Inputs \cup {<<>>},
                              chunk : Seq(Texts \cup {None}),
                              results : Seq(Texts)]
            BY <1>1 DEF TypeOK
          <6>2. <<>> \in Seq(Texts \cup {None}) /\ results \in Seq(Texts)
            BY <2>2
          <6> QED
            BY <6>1, <6>2
        <5> QED
          BY <1>1, <2>3, <2>5, <5>1 DEF TypeOK
      <4> QED
        BY <1>1, <3>2, <4>1 DEF TypeOK
    <3>4. CallsUnderWay'
      BY <1>1, <3>2 DEF CallsUnderWay
    <3>5. batch'[b].pc = "returned" /\ batch'[b].results = batch'[b].texts
      BY <3>1, <3>2, <1>1 DEF TypeOK
    <3>6. BatchInOrder'
      BY <3>2, <3>5 DEF BatchInOrder, EmbeddingInv
    <3>7. GatheringInOrder'
      BY <3>2, <3>5, OthersInOrder
    <3> QED
      BY <3>3, <3>4, <3>6, <3>7 DEF EmbeddingInv
  <2> QED
    BY <2>4, <2>5
<1>10. ASSUME NEW b \in Batches, GatherRaises(b) PROVE EmbeddingInv'
  <2>1. /\ batch'[b] = [NoBatch EXCEPT !.pc = "raised"]
        /\ \A other \in Batches \ {b} : batch'[other] = batch[other]
        /\ UNCHANGED <<cache, call>>
    BY <1>1, <1>10 DEF GatherRaises, TypeOK
  <2>2. TypeOK'
    <3>1. /\ [NoBatch EXCEPT !.pc = "raised"] =
                [pc |-> "raised", texts |-> <<>>, chunk |-> <<>>, results |-> <<>>]
          /\ <<>> \in Seq(Texts) /\ <<>> \in Seq(Texts \cup {None})
      BY DEF NoBatch
    <3>2. batch' \in [Batches -> [pc : {"idle", "gathering", "returned", "raised"},
                                  texts : Inputs \cup {<<>>},
                                  chunk : Seq(Texts \cup {None}),
                                  results : Seq(Texts)]]
      BY <1>1, <1>10, <3>1 DEF GatherRaises, TypeOK
    <3> QED
      BY <1>1, <2>1, <3>2 DEF TypeOK
  <2>3. CallsUnderWay'
    BY <1>1, <2>1 DEF CallsUnderWay
  <2>4. batch'[b].pc = "raised"
    BY <2>1 DEF NoBatch
  <2>5. BatchInOrder' /\ GatheringInOrder'
    BY <2>1, <2>4, OthersInOrder DEF BatchInOrder, EmbeddingInv
  <2> QED
    BY <2>2, <2>3, <2>5 DEF EmbeddingInv
<1>11. ASSUME NEW b \in Batches, NEW texts \in Inputs, GenerateBatch(b, texts)
       PROVE  EmbeddingInv'
  <2>1. texts \in Seq(Texts) /\ texts # <<>>
    BY DEF EmbeddingAssumption
  <2>2. <<>> \in Seq(Texts) /\ Len(<<>>) = 0 /\ 0 < Len(texts)
    BY <2>1
  <2>3. StartChunk(b, texts, <<>>)
    BY <1>11 DEF GenerateBatch
  <2>4. \A k \in 1 .. Len(<<>>) : <<>>[k] = texts[k]
    OBVIOUS
  <2> QED
    BY <2>2, <2>3, <2>4, ChunkStarts
<1>12. ASSUME UNCHANGED vars PROVE EmbeddingInv'
  BY <1>12 DEF vars, EmbeddingInv, TypeOK, CallsUnderWay, GatheringInOrder, ChunkInOrder,
               BatchInOrder
<1> QED
  BY <1>4, <1>5, <1>6, <1>7, <1>8, <1>9, <1>10, <1>11, <1>12 DEF Next, CallStep, BatchStep

\* Nothing in it needs the fairness.
LEMMA EmbeddingInvariant == EmbeddingAssumption => (Init /\ [][Next]_vars => []EmbeddingInv)
<1> SUFFICES ASSUME EmbeddingAssumption PROVE Init /\ [][Next]_vars => []EmbeddingInv
  OBVIOUS
<1>1. Init => EmbeddingInv
  BY EmbeddingInit
<1>2. EmbeddingInv /\ [Next]_vars => EmbeddingInv'
  BY EmbeddingStep
<1> QED
  BY <1>1, <1>2, PTL

\* The cache of EmbeddingGenerator never holds more than cache_size texts and holds
\* none twice, and calls and batches are well-formed.
THEOREM TypeCorrect == EmbeddingAssumption => (Spec => []TypeOK)
<1> SUFFICES ASSUME EmbeddingAssumption PROVE Spec => []TypeOK
  OBVIOUS
<1>1. EmbeddingInv => TypeOK
  BY DEF EmbeddingInv
<1> QED
  BY <1>1, EmbeddingInvariant, PTL DEF Spec

\* generate_batch() returns the vectors of its texts in the order of the texts.
THEOREM VectorsInOrder == EmbeddingAssumption => (Spec => []BatchInOrder)
<1> SUFFICES ASSUME EmbeddingAssumption PROVE Spec => []BatchInOrder
  OBVIOUS
<1>1. EmbeddingInv => BatchInOrder
  BY DEF EmbeddingInv
<1> QED
  BY <1>1, EmbeddingInvariant, PTL DEF Spec
=============================================================================
