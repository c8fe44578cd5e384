---------------------------- MODULE WorkerPartsProofs ----------------------------
(***************************************************************************)
(* What parts of a worker promise for any number of requests and workers,  *)
(* any texts and any thresholds.  Each part has its invariant; the last    *)
(* section carries them, and that of EmbeddingCacheProofs, to WorkerParts, *)
(* where each step is a step of one part.                                  *)
(*                                                                         *)
(* Metrics: a lookup is counted at most twice, however requests overlap,   *)
(* are cancelled, and are overtaken by a reset.  A recorded lookup whose   *)
(* request still goes on is a second count that is owed.  Recording one    *)
(* adds to both sides; the end of a request turns what is owed into a      *)
(* count, or forgives it; a reset leaves exactly what is owed, which       *)
(* carried is set to.                                                      *)
(*                                                                         *)
(* Lifespan: there is an index when all workers serve, and no search finds *)
(* what redis does not hold, in whatever order workers start, fail and are *)
(* stopped.  The index is dropped only by a worker that is then about to   *)
(* create it, or is down, so that whoever serves last has created it after *)
(* every drop.                                                             *)
(*                                                                         *)
(* TTLCalculator: a TTL is the product of the factors, less than Loss      *)
(* seconds apart.  One truncation loses less than a second, two with the   *)
(* rounding of 0.7, and the later factors enlarge an earlier loss.         *)
(*                                                                         *)
(* AdaptiveTTL: what is kept of a key is the window that ended with its    *)
(* last access.  The timestamps are in order, so that those which one      *)
(* access prunes stay outside the windows of all later ones.               *)
(***************************************************************************)
EXTENDS Integers, WorkerParts, FiniteSetTheorems, TLAPS

\* The requests whose match was found and awaits the hit counter in redis.
Matching == {q \in Requests : pc[q] = "semantic"}

-----------------------------------------------------------------------------
(* Metrics: the inductive invariant.                                        *)

\* The bounds of the model: on the lookups, those that will still be recorded
\* included, and on the writes.
Bounded ==
    /\ served + missed + Collector!Cardinality(Matching) <= MaxLookups
    /\ writing + cache_write_ops <= MaxWrites

MetricsInv == Collector!TypeOK /\ Bounded /\ Collector!CountedAtMostTwice

-----------------------------------------------------------------------------
(* The requests and their awaits.                                           *)

\* Metrics counts with the same cardinality.
LEMMA CollectorCardinality ==
    /\ \A S : Collector!Cardinality(S) = Cardinality(S)
    /\ \A S : Collector!IsFiniteSet(S) <=> IsFiniteSet(S)
  BY DEF Collector!Cardinality, Cardinality, Collector!IsFiniteSet, IsFiniteSet

\* The two sets of requests are finite.
LEMMA Counts ==
    ASSUME Collector!MetricsAssumption
    PROVE  /\ Collector!IsFiniteSet(Collector!Recorded) /\ Collector!IsFiniteSet(Matching)
           /\ Collector!Cardinality(Collector!Recorded) \in Nat
           /\ Collector!Cardinality(Matching) \in Nat
           /\ Collector!Cardinality(Collector!Recorded) \in 0 .. Collector!Cardinality(Requests)
<1>1. /\ Collector!IsFiniteSet(Requests)
      /\ Collector!Recorded \subseteq Requests /\ Matching \subseteq Requests
  BY DEF Collector!MetricsAssumption, Collector!Recorded, Matching
<1>2. /\ Collector!IsFiniteSet(Collector!Recorded)
      /\ Collector!Cardinality(Collector!Recorded) <= Collector!Cardinality(Requests)
      /\ Collector!IsFiniteSet(Matching)
  BY <1>1, CollectorCardinality, FS_Subset
<1>3. /\ Collector!Cardinality(Collector!Recorded) \in Nat
      /\ Collector!Cardinality(Matching) \in Nat /\ Collector!Cardinality(Requests) \in Nat
  BY <1>1, <1>2, CollectorCardinality, FS_CardinalityType
<1> QED
  BY <1>2, <1>3

\* A request that comes to an await where its lookup has been recorded is one more
\* of them, one that leaves such an await is one less.
LEMMA RecordedChanges ==
    ASSUME Collector!MetricsAssumption, Collector!TypeOK, NEW r \in Requests, NEW to,
           pc' = [pc EXCEPT ![r] = to]
    PROVE  /\ (pc[r] \notin {"hit", "llm"} /\ to \in {"hit", "llm"})
                => Collector!Cardinality(Collector!Recorded') = Collector!Cardinality(Collector!Recorded) + 1
           /\ (pc[r] \in {"hit", "llm"} /\ to \notin {"hit", "llm"})
                => Collector!Cardinality(Collector!Recorded') = Collector!Cardinality(Collector!Recorded) - 1
           /\ (pc[r] \in {"hit", "llm"} <=> to \in {"hit", "llm"})
                => Collector!Cardinality(Collector!Recorded') = Collector!Cardinality(Collector!Recorded)
<1>1. /\ \A q \in Requests \ {r} : pc'[q] = pc[q]
      /\ pc'[r] = to
  BY DEF Collector!TypeOK
<1>2. ASSUME pc[r] \notin {"hit", "llm"}, to \in {"hit", "llm"}
      PROVE  Collector!Cardinality(Collector!Recorded') = Collector!Cardinality(Collector!Recorded) + 1
  <2>1. Collector!Recorded' = Collector!Recorded \cup {r} /\ r \notin Collector!Recorded
    BY <1>1, <1>2 DEF Collector!Recorded
  <2> QED
    BY <2>1, Counts, CollectorCardinality, FS_AddElement
<1>3. ASSUME pc[r] \in {"hit", "llm"}, to \notin {"hit", "llm"}
      PROVE  Collector!Cardinality(Collector!Recorded') = Collector!Cardinality(Collector!Recorded) - 1
  <2>1. Collector!Recorded' = Collector!Recorded \ {r} /\ r \in Collector!Recorded
    BY <1>1, <1>3 DEF Collector!Recorded
  <2> QED
    BY <2>1, Counts, CollectorCardinality, FS_RemoveElement
<1>4. ASSUME pc[r] \in {"hit", "llm"} <=> to \in {"hit", "llm"}
      PROVE  Collector!Cardinality(Collector!Recorded') = Collector!Cardinality(Collector!Recorded)
  <2>1. Collector!Recorded' = Collector!Recorded
    BY <1>1, <1>4 DEF Collector!Recorded
  <2> QED
    BY <2>1
<1> QED
  BY <1>2, <1>3, <1>4

\* The same of the matches that are still to be recorded.
LEMMA MatchingChanges ==
    ASSUME Collector!MetricsAssumption, Collector!TypeOK, NEW r \in Requests, NEW to,
           pc' = [pc EXCEPT ![r] = to]
    PROVE  /\ (pc[r] # "semantic" /\ to = "semantic")
                => Collector!Cardinality(Matching') = Collector!Cardinality(Matching) + 1
           /\ (pc[r] = "semantic" /\ to # "semantic")
                => Collector!Cardinality(Matching') = Collector!Cardinality(Matching) - 1
           /\ (pc[r] = "semantic" <=> to = "semantic")
                => Collector!Cardinality(Matching') = Collector!Cardinality(Matching)
<1>1. /\ \A q \in Requests \ {r} : pc'[q] = pc[q]
      /\ pc'[r] = to
  BY DEF Collector!TypeOK
<1>2. ASSUME pc[r] # "semantic", to = "semantic"
      PROVE  Collector!Cardinality(Matching') = Collector!Cardinality(Matching) + 1
  <2>1. Matching' = Matching \cup {r} /\ r \notin Matching
    BY <1>1, <1>2 DEF Matching
  <2> QED
    BY <2>1, Counts, CollectorCardinality, FS_AddElement
<1>3. ASSUME pc[r] = "semantic", to # "semantic"
      PROVE  Collector!Cardinality(Matching') = Collector!Cardinality(Matching) - 1
  <2>1. Matching' = Matching \ {r} /\ r \in Matching
    BY <1>1, <1>3 DEF Matching
  <2> QED
    BY <2>1, Counts, CollectorCardinality, FS_RemoveElement
<1>4. ASSUME pc[r] = "semantic" <=> to = "semantic"
      PROVE  Collector!Cardinality(Matching') = Collector!Cardinality(Matching)
  <2>1. Matching' = Matching
    BY <1>1, <1>4 DEF Matching
  <2> QED
    BY <2>1
<1> QED
  BY <1>2, <1>3, <1>4

\* Types of what moves.
LEMMA GoesTo ==
    ASSUME Collector!TypeOK, NEW r \in Requests, NEW to \in {"idle", "semantic", "hit", "llm"},
           pc' = [pc EXCEPT ![r] = to]
    PROVE  pc' \in [Requests -> {"idle", "semantic", "hit", "llm"}]
<1> QED
  BY DEF Collector!TypeOK

\* The numbers, for the arithmetic of the steps.
LEMMA Numbers ==
    ASSUME Collector!MetricsAssumption, MetricsInv
    PROVE  /\ served \in Nat /\ missed \in Nat /\ carried \in Nat
           /\ cache_hits \in Nat /\ cache_misses \in Nat /\ errors \in Nat
           /\ l1_hits \in Nat /\ l2_hits \in Nat /\ l1_hits <= served /\ l2_hits <= served
           /\ cache_write_ops \in Nat /\ writing \in Nat
           /\ MaxLookups \in Nat /\ MaxWrites \in Nat
           /\ Collector!Cardinality(Collector!Recorded) \in Nat
           /\ Collector!Cardinality(Matching) \in Nat
           /\ served + missed + Collector!Cardinality(Matching) <= MaxLookups
           /\ writing + cache_write_ops <= MaxWrites
           /\ served <= cache_hits /\ missed <= cache_misses
           /\ (cache_hits - served) + (cache_misses - missed) + errors
                  + Collector!Cardinality(Collector!Recorded)
                <= served + missed + carried
<1>1. carried \in 0 .. Collector!Cardinality(Requests)
  BY DEF MetricsInv, Collector!TypeOK
<1> QED
  BY <1>1, Counts
     DEF MetricsInv, Collector!TypeOK, Bounded, Collector!CountedAtMostTwice,
         Collector!MetricsAssumption

LEMMA MetricsInit ==
    ASSUME Collector!MetricsAssumption, Collector!Init
    PROVE  MetricsInv
<1>1. Collector!Recorded = {} /\ Matching = {}
  BY DEF Collector!Init, Collector!Recorded, Matching
<1>2. Collector!Cardinality(Collector!Recorded) = 0 /\ Collector!Cardinality(Matching) = 0
  BY <1>1, CollectorCardinality, FS_EmptySet
<1>3. MaxLookups \in Nat /\ MaxWrites \in Nat /\ Collector!Cardinality(Requests) \in Nat
  BY CollectorCardinality, FS_CardinalityType DEF Collector!MetricsAssumption
<1>4. Collector!TypeOK
  BY <1>3 DEF Collector!Init, Collector!TypeOK
<1>5. Bounded /\ Collector!CountedAtMostTwice
  BY <1>2, <1>3 DEF Collector!Init, Bounded, Collector!CountedAtMostTwice
<1> QED
  BY <1>4, <1>5 DEF MetricsInv

-----------------------------------------------------------------------------
(* Lookups.                                                                 *)

LEMMA LookupHitsKeeps ==
    ASSUME Collector!MetricsAssumption, MetricsInv, NEW r \in Requests, NEW is_chat \in BOOLEAN,
           NEW level \in {"l1", "exact"}, Collector!LookupHits(r, is_chat, level)
    PROVE  MetricsInv'
<1>1. /\ pc[r] = "idle" /\ pc' = [pc EXCEPT ![r] = "hit"]
      /\ chat' = [chat EXCEPT ![r] = is_chat]
      /\ served + missed + Collector!Cardinality(Matching) < MaxLookups
  BY DEF Collector!LookupHits, Collector!Begin, Collector!Goes, Matching
<1>2. /\ Collector!Cardinality(Collector!Recorded') = Collector!Cardinality(Collector!Recorded) + 1
      /\ Collector!Cardinality(Matching') = Collector!Cardinality(Matching)
  <2>1. Collector!TypeOK
    BY DEF MetricsInv
  <2>2. Collector!Cardinality(Collector!Recorded') = Collector!Cardinality(Collector!Recorded) + 1
    BY <1>1, <2>1, RecordedChanges
  <2>3. Collector!Cardinality(Matching') = Collector!Cardinality(Matching)
    BY <1>1, <2>1, MatchingChanges, "hit" # "semantic", "idle" # "semantic"
  <2> QED
    BY <2>2, <2>3
<1>3. pc' \in [Requests -> {"idle", "semantic", "hit", "llm"}] /\ chat' \in [Requests -> BOOLEAN]
  BY <1>1, GoesTo DEF MetricsInv, Collector!TypeOK
<1>4. Collector!TypeOK'
  BY <1>1, <1>3, Numbers
     DEF Collector!LookupHits, Collector!RecordCacheHit, MetricsInv, Collector!TypeOK,
         Collector!writes
<1>5. Bounded' /\ Collector!CountedAtMostTwice'
  BY <1>1, <1>2, Numbers
     DEF Collector!LookupHits, Collector!RecordCacheHit, Bounded,
         Collector!CountedAtMostTwice, Collector!writes
<1> QED
  BY <1>4, <1>5 DEF MetricsInv

LEMMA LookupMatchesKeeps ==
    ASSUME Collector!MetricsAssumption, MetricsInv, NEW r \in Requests, NEW is_chat \in BOOLEAN,
           Collector!LookupMatches(r, is_chat)
    PROVE  MetricsInv'
<1>1. /\ pc[r] = "idle" /\ pc' = [pc EXCEPT ![r] = "semantic"]
      /\ chat' = [chat EXCEPT ![r] = is_chat]
      /\ served + missed + Collector!Cardinality(Matching) < MaxLookups
  BY DEF Collector!LookupMatches, Collector!Begin, Collector!Goes, Matching
<1>2. /\ Collector!Cardinality(Collector!Recorded') = Collector!Cardinality(Collector!Recorded)
      /\ Collector!Cardinality(Matching') = Collector!Cardinality(Matching) + 1
  <2>1. Collector!TypeOK
    BY DEF MetricsInv
  <2>2. Collector!Cardinality(Collector!Recorded') = Collector!Cardinality(Collector!Recorded)
    BY <1>1, <2>1, RecordedChanges, "semantic" \notin {"hit", "llm"}, "idle" \notin {"hit", "llm"}
  <2>3. Collector!Cardinality(Matching') = Collector!Cardinality(Matching) + 1
    BY <1>1, <2>1, MatchingChanges
  <2> QED
    BY <2>2, <2>3
<1>3. pc' \in [Requests -> {"idle", "semantic", "hit", "llm"}] /\ chat' \in [Requests -> BOOLEAN]
  BY <1>1, GoesTo DEF MetricsInv, Collector!TypeOK
<1>4. Collector!TypeOK'
  BY <1>3
     DEF Collector!LookupMatches, MetricsInv, Collector!TypeOK, Collector!counters,
         Collector!writes
<1>5. Bounded' /\ Collector!CountedAtMostTwice'
  BY <1>1, <1>2, Numbers
     DEF Collector!LookupMatches, Bounded, Collector!CountedAtMostTwice, Collector!counters,
         Collector!writes
<1> QED
  BY <1>4, <1>5 DEF MetricsInv

\* A match was among those counted by the bound, so that it may be recorded.
LEMMA MatchRecordedKeeps ==
    ASSUME Collector!MetricsAssumption, MetricsInv, NEW r \in Requests, Collector!MatchRecorded(r)
    PROVE  MetricsInv'
<1>1. pc[r] = "semantic" /\ pc' = [pc EXCEPT ![r] = "hit"]
  BY DEF Collector!MatchRecorded, Collector!Goes
<1>2. /\ Collector!Cardinality(Collector!Recorded') = Collector!Cardinality(Collector!Recorded) + 1
      /\ Collector!Cardinality(Matching') = Collector!Cardinality(Matching) - 1
  <2>1. Collector!TypeOK
    BY DEF MetricsInv
  <2>2. Collector!Cardinality(Collector!Recorded') = Collector!Cardinality(Collector!Recorded) + 1
    BY <1>1, <2>1, RecordedChanges
  <2>3. Collector!Cardinality(Matching') = Collector!Cardinality(Matching) - 1
    BY <1>1, <2>1, MatchingChanges, "hit" # "semantic"
  <2> QED
    BY <2>2, <2>3
<1>3. Collector!Cardinality(Matching') \in Nat
  <2>1. r \in Matching
    BY <1>1 DEF Matching
  <2>2. Collector!Cardinality(Matching) # 0
    BY <2>1, Counts, CollectorCardinality, FS_EmptySet
  <2>3. Collector!Cardinality(Matching) \in Nat
    BY Counts
  <2> QED
    BY <1>2, <2>2, <2>3
<1>4. pc' \in [Requests -> {"idle", "semantic", "hit", "llm"}]
  BY <1>1, GoesTo DEF MetricsInv
<1>5. Collector!TypeOK'
  BY <1>2, <1>3, <1>4, Numbers
     DEF Collector!MatchRecorded, Collector!RecordCacheHit, MetricsInv, Collector!TypeOK,
         Collector!writes
<1>6. Bounded' /\ Collector!CountedAtMostTwice'
  BY <1>2, Numbers
     DEF Collector!MatchRecorded, Collector!RecordCacheHit, Bounded,
         Collector!CountedAtMostTwice, Collector!writes
<1> QED
  BY <1>5, <1>6 DEF MetricsInv

LEMMA LookupMissesKeeps ==
    ASSUME Collector!MetricsAssumption, MetricsInv, NEW r \in Requests, NEW is_chat \in BOOLEAN,
           Collector!LookupMisses(r, is_chat)
    PROVE  MetricsInv'
<1>1. /\ pc[r] = "idle" /\ pc' = [pc EXCEPT ![r] = "llm"]
      /\ chat' = [chat EXCEPT ![r] = is_chat]
      /\ served + missed + Collector!Cardinality(Matching) < MaxLookups
  BY DEF Collector!LookupMisses, Collector!Begin, Collector!Goes, Matching
<1>2. /\ Collector!Cardinality(Collector!Recorded') = Collector!Cardinality(Collector!Recorded) + 1
      /\ Collector!Cardinality(Matching') = Collector!Cardinality(Matching)
  <2>1. Collector!TypeOK
    BY DEF MetricsInv
  <2>2. Collector!Cardinality(Collector!Recorded') = Collector!Cardinality(Collector!Recorded) + 1
    BY <1>1, <2>1, RecordedChanges
  <2>3. Collector!Cardinality(Matching') = Collector!Cardinality(Matching)
    BY <1>1, <2>1, MatchingChanges, "llm" # "semantic", "idle" # "semantic"
  <2> QED
    BY <2>2, <2>3
<1>3. pc' \in [Requests -> {"idle", "semantic", "hit", "llm"}] /\ chat' \in [Requests -> BOOLEAN]
  BY <1>1, GoesTo DEF MetricsInv, Collector!TypeOK
<1>4. Collector!TypeOK'
  BY <1>1, <1>3, Numbers
     DEF Collector!LookupMisses, MetricsInv, Collector!TypeOK, Collector!writes
<1>5. Bounded' /\ Collector!CountedAtMostTwice'
  BY <1>1, <1>2, Numbers
     DEF Collector!LookupMisses, Bounded, Collector!CountedAtMostTwice, Collector!writes
<1> QED
  BY <1>4, <1>5 DEF MetricsInv

-----------------------------------------------------------------------------
(* Requests end.                                                            *)

\* What was owed for a request is one less when it ends.
LEMMA RequestEnds ==
    ASSUME Collector!MetricsAssumption, Collector!TypeOK, NEW r \in Requests,
           pc[r] \in {"hit", "llm"},
           pc' = [pc EXCEPT ![r] = "idle"]
    PROVE  /\ Collector!Cardinality(Collector!Recorded') = Collector!Cardinality(Collector!Recorded) - 1
           /\ Collector!Cardinality(Collector!Recorded') \in Nat
           /\ Collector!Cardinality(Matching') = Collector!Cardinality(Matching)
           /\ pc' \in [Requests -> {"idle", "semantic", "hit", "llm"}]
<1>1. "idle" \notin {"hit", "llm"} /\ "idle" # "semantic" /\ pc[r] # "semantic"
  OBVIOUS
<1>2. Collector!Cardinality(Collector!Recorded') = Collector!Cardinality(Collector!Recorded) - 1
  BY <1>1, RecordedChanges
<1>3. Collector!Cardinality(Matching') = Collector!Cardinality(Matching)
  BY <1>1, MatchingChanges
<1>4. Collector!Cardinality(Collector!Recorded) # 0
  <2>1. r \in Collector!Recorded
    BY DEF Collector!Recorded
  <2> QED
    BY <2>1, Counts, CollectorCardinality, FS_EmptySet
<1>5. Collector!Cardinality(Collector!Recorded) \in Nat
  BY Counts
<1>6. pc' \in [Requests -> {"idle", "semantic", "hit", "llm"}]
  BY DEF Collector!TypeOK
<1> QED
  BY <1>2, <1>3, <1>4, <1>5, <1>6

\* One further hit, miss or error, or none, in place of what was owed.
LEMMA OwedIsCounted ==
    ASSUME Collector!MetricsAssumption, MetricsInv,
           Collector!Cardinality(Collector!Recorded') = Collector!Cardinality(Collector!Recorded) - 1,
           Collector!Cardinality(Matching') = Collector!Cardinality(Matching),
           UNCHANGED <<served, missed, carried, l1_hits, l2_hits>>,
           \/ Collector!RecordRequest(TRUE) \/ Collector!RecordRequest(FALSE) \/ Collector!RecordError
           \/ UNCHANGED Collector!counters
    PROVE  /\ Collector!CountedAtMostTwice'
           /\ served' + missed' + Collector!Cardinality(Matching') <= MaxLookups
           /\ cache_hits' \in Nat /\ cache_misses' \in Nat /\ errors' \in Nat
<1>1. /\ cache_hits' \in Nat /\ cache_misses' \in Nat /\ errors' \in Nat
      /\ cache_hits' >= cache_hits /\ cache_misses' >= cache_misses
      /\ cache_hits' + cache_misses' + errors' <= cache_hits + cache_misses + errors + 1
  BY Numbers DEF Collector!RecordRequest, Collector!RecordError, Collector!counters
<1> QED
  BY <1>1, Numbers DEF Collector!CountedAtMostTwice

LEMMA HitReturnedKeeps ==
    ASSUME Collector!MetricsAssumption, MetricsInv, NEW r \in Requests, Collector!HitReturned(r)
    PROVE  MetricsInv'
<1>1. pc[r] \in {"hit", "llm"} /\ pc' = [pc EXCEPT ![r] = "idle"]
  BY DEF Collector!HitReturned, Collector!Goes
<1>2. /\ Collector!Cardinality(Collector!Recorded') = Collector!Cardinality(Collector!Recorded) - 1
      /\ Collector!Cardinality(Matching') = Collector!Cardinality(Matching)
      /\ pc' \in [Requests -> {"idle", "semantic", "hit", "llm"}]
  BY <1>1, RequestEnds DEF MetricsInv
<1>3. /\ UNCHANGED <<served, missed, carried, l1_hits, l2_hits>>
      /\ Collector!RecordRequest(TRUE) \/ UNCHANGED Collector!counters
      /\ UNCHANGED <<cache_write_ops, batch_writes, writing, chat>>
  BY DEF Collector!HitReturned, Collector!RecordRequest, Collector!counters, Collector!writes
<1>4. /\ Collector!CountedAtMostTwice'
      /\ served' + missed' + Collector!Cardinality(Matching') <= MaxLookups
      /\ cache_hits' \in Nat /\ cache_misses' \in Nat /\ errors' \in Nat
  BY <1>2, <1>3, OwedIsCounted
<1>5. Collector!TypeOK'
  BY <1>2, <1>3, <1>4 DEF MetricsInv, Collector!TypeOK
<1> QED
  BY <1>3, <1>4, <1>5 DEF MetricsInv, Bounded

LEMMA GeneratedKeeps ==
    ASSUME Collector!MetricsAssumption, MetricsInv, NEW r \in Requests, Collector!Generated(r)
    PROVE  MetricsInv'
<1>1. pc[r] \in {"hit", "llm"} /\ pc' = [pc EXCEPT ![r] = "idle"]
  BY DEF Collector!Generated, Collector!Goes
<1>2. /\ Collector!Cardinality(Collector!Recorded') = Collector!Cardinality(Collector!Recorded) - 1
      /\ Collector!Cardinality(Matching') = Collector!Cardinality(Matching)
      /\ pc' \in [Requests -> {"idle", "semantic", "hit", "llm"}]
  BY <1>1, RequestEnds DEF MetricsInv
<1>3. /\ UNCHANGED <<served, missed, carried, l1_hits, l2_hits>>
      /\ Collector!RecordRequest(FALSE) \/ UNCHANGED Collector!counters
      /\ UNCHANGED <<cache_write_ops, batch_writes, chat>>
      /\ writing' = writing + 1 /\ writing + cache_write_ops < MaxWrites
  BY DEF Collector!Generated, Collector!RecordRequest, Collector!counters
<1>4. /\ Collector!CountedAtMostTwice'
      /\ served' + missed' + Collector!Cardinality(Matching') <= MaxLookups
      /\ cache_hits' \in Nat /\ cache_misses' \in Nat /\ errors' \in Nat
  BY <1>2, <1>3, OwedIsCounted
<1>5. writing' \in 0 .. MaxWrites /\ writing' + cache_write_ops' <= MaxWrites
  BY <1>3, Numbers
<1>6. Collector!TypeOK'
  BY <1>2, <1>3, <1>4, <1>5 DEF MetricsInv, Collector!TypeOK
<1> QED
  BY <1>4, <1>5, <1>6 DEF MetricsInv, Bounded

LEMMA GenerationFailsKeeps ==
    ASSUME Collector!MetricsAssumption, MetricsInv, NEW r \in Requests, Collector!GenerationFails(r)
    PROVE  MetricsInv'
<1>1. pc[r] \in {"hit", "llm"} /\ pc' = [pc EXCEPT ![r] = "idle"]
  BY DEF Collector!GenerationFails, Collector!Goes
<1>2. /\ Collector!Cardinality(Collector!Recorded') = Collector!Cardinality(Collector!Recorded) - 1
      /\ Collector!Cardinality(Matching') = Collector!Cardinality(Matching)
      /\ pc' \in [Requests -> {"idle", "semantic", "hit", "llm"}]
  BY <1>1, RequestEnds DEF MetricsInv
<1>3. /\ UNCHANGED <<served, missed, carried, l1_hits, l2_hits>>
      /\ Collector!RecordError
      /\ UNCHANGED <<cache_write_ops, batch_writes, writing, chat>>
  BY DEF Collector!GenerationFails, Collector!RecordError, Collector!writes
<1>4. /\ Collector!CountedAtMostTwice'
      /\ served' + missed' + Collector!Cardinality(Matching') <= MaxLookups
      /\ cache_hits' \in Nat /\ cache_misses' \in Nat /\ errors' \in Nat
  BY <1>2, <1>3, OwedIsCounted
<1>5. Collector!TypeOK'
  BY <1>2, <1>3, <1>4 DEF MetricsInv, Collector!TypeOK
<1> QED
  BY <1>3, <1>4, <1>5 DEF MetricsInv, Bounded

\* What a cancelled request owed is forgiven; a match that awaits was not recorded.
LEMMA CancelledKeeps ==
    ASSUME Collector!MetricsAssumption, MetricsInv, NEW r \in Requests, Collector!Cancelled(r)
    PROVE  MetricsInv'
<1>1. pc[r] # "idle" /\ pc' = [pc EXCEPT ![r] = "idle"]
  BY DEF Collector!Cancelled
<1>2. /\ Collector!Cardinality(Collector!Recorded') <= Collector!Cardinality(Collector!Recorded)
      /\ Collector!Cardinality(Matching') <= Collector!Cardinality(Matching)
      /\ Collector!Cardinality(Collector!Recorded') \in Int
      /\ Collector!Cardinality(Matching') \in Int
  <2>1. Collector!TypeOK
    BY DEF MetricsInv
  <2>2. Collector!Cardinality(Collector!Recorded) \in Nat /\ Collector!Cardinality(Matching) \in Nat
    BY Counts
  <2>3. CASE pc[r] \in {"hit", "llm"}
    <3>1. /\ Collector!Cardinality(Collector!Recorded') = Collector!Cardinality(Collector!Recorded) - 1
          /\ Collector!Cardinality(Matching') = Collector!Cardinality(Matching)
      BY <1>1, <2>1, <2>3, RequestEnds
    <3> QED
      BY <2>2, <3>1
  <2>4. CASE pc[r] = "semantic"
    <3>1. "idle" \notin {"hit", "llm"} /\ "idle" # "semantic" /\ pc[r] \notin {"hit", "llm"}
      BY <2>4
    <3>2. Collector!Cardinality(Collector!Recorded') = Collector!Cardinality(Collector!Recorded)
      BY <1>1, <2>1, <3>1, RecordedChanges
    <3>3. Collector!Cardinality(Matching') = Collector!Cardinality(Matching) - 1
      BY <1>1, <2>1, <2>4, <3>1, MatchingChanges
    <3> QED
      BY <2>2, <3>2, <3>3
  <2> QED
    BY <1>1, <2>1, <2>3, <2>4 DEF Collector!TypeOK
<1>3. pc' \in [Requests -> {"idle", "semantic", "hit", "llm"}]
  BY <1>1, GoesTo DEF MetricsInv
<1>4. Collector!TypeOK'
  BY <1>3
     DEF Collector!Cancelled, MetricsInv, Collector!TypeOK, Collector!counters,
         Collector!writes
<1>5. Bounded' /\ Collector!CountedAtMostTwice'
  BY <1>2, Numbers
     DEF Collector!Cancelled, Bounded, Collector!CountedAtMostTwice, Collector!counters,
         Collector!writes
<1> QED
  BY <1>4, <1>5 DEF MetricsInv

-----------------------------------------------------------------------------
(* Writes and the reset.                                                    *)

LEMMA SetEndsKeeps ==
    ASSUME Collector!MetricsAssumption, MetricsInv, Collector!SetEnds
    PROVE  MetricsInv'
<1>1. UNCHANGED <<Collector!counters, batch_writes, pc, chat, served, missed, carried>>
  BY DEF Collector!SetEnds
<1>2. /\ writing' \in 0 .. MaxWrites /\ cache_write_ops' \in 0 .. MaxWrites
      /\ writing' + cache_write_ops' <= MaxWrites
  BY Numbers DEF Collector!SetEnds
<1>3. Collector!TypeOK'
  BY <1>1, <1>2 DEF MetricsInv, Collector!TypeOK, Collector!counters
<1> QED
  BY <1>1, <1>2, <1>3
     DEF MetricsInv, Bounded, Collector!CountedAtMostTwice, Collector!Recorded, Matching,
         Collector!counters

LEMMA BatchStoredKeeps ==
    ASSUME Collector!MetricsAssumption, MetricsInv, NEW count \in 1 .. MaxWrites,
           Collector!BatchStored(count)
    PROVE  MetricsInv'
<1>1. UNCHANGED <<Collector!counters, cache_write_ops, writing, pc, chat, served, missed, carried>>
  BY DEF Collector!BatchStored
<1>2. batch_writes' \in 0 .. MaxWrites
  BY DEF Collector!BatchStored, MetricsInv, Collector!TypeOK, Collector!MetricsAssumption
<1>3. Collector!TypeOK'
  BY <1>1, <1>2 DEF MetricsInv, Collector!TypeOK, Collector!counters
<1> QED
  BY <1>1, <1>3
     DEF MetricsInv, Bounded, Collector!CountedAtMostTwice, Collector!Recorded, Matching,
         Collector!counters

\* A reset leaves what is owed for the requests that go on.
LEMMA ResetKeeps ==
    ASSUME Collector!MetricsAssumption, MetricsInv, Collector!Reset
    PROVE  MetricsInv'
<1>1. Collector!Recorded' = Collector!Recorded /\ Matching' = Matching
  BY DEF Collector!Reset, Collector!Recorded, Matching
<1>2. Collector!Cardinality(Collector!Recorded) \in 0 .. Collector!Cardinality(Requests)
  BY Counts
<1>3. Collector!TypeOK'
  BY <1>2, Numbers DEF Collector!Reset, MetricsInv, Collector!TypeOK
<1>4. Bounded' /\ Collector!CountedAtMostTwice'
  BY <1>1, Numbers DEF Collector!Reset, Bounded, Collector!CountedAtMostTwice
<1> QED
  BY <1>3, <1>4 DEF MetricsInv

LEMMA MetricsStep ==
    ASSUME Collector!MetricsAssumption, MetricsInv, [Collector!Next]_(Collector!vars)
    PROVE  MetricsInv'
<1>1. ASSUME NEW r \in Requests, NEW is_chat \in BOOLEAN,
             Collector!LookupHits(r, is_chat, "l1") \/ Collector!LookupHits(r, is_chat, "exact")
      PROVE  MetricsInv'
  BY <1>1, LookupHitsKeeps
<1>2. ASSUME NEW r \in Requests, NEW is_chat \in BOOLEAN, Collector!LookupMatches(r, is_chat)
      PROVE  MetricsInv'
  BY <1>2, LookupMatchesKeeps
<1>3. ASSUME NEW r \in Requests, NEW is_chat \in BOOLEAN, Collector!LookupMisses(r, is_chat)
      PROVE  MetricsInv'
  BY <1>3, LookupMissesKeeps
<1>4. ASSUME NEW r \in Requests, Collector!MatchRecorded(r) PROVE MetricsInv'
  BY <1>4, MatchRecordedKeeps
<1>5. ASSUME NEW r \in Requests, Collector!HitReturned(r) PROVE MetricsInv'
  BY <1>5, HitReturnedKeeps
<1>6. ASSUME NEW r \in Requests, Collector!Generated(r) PROVE MetricsInv'
  BY <1>6, GeneratedKeeps
<1>7. ASSUME NEW r \in Requests, Collector!GenerationFails(r) PROVE MetricsInv'
  BY <1>7, GenerationFailsKeeps
<1>8. ASSUME NEW r \in Requests, Collector!Cancelled(r) PROVE MetricsInv'
  BY <1>8, CancelledKeeps
<1>9. ASSUME Collector!SetEnds PROVE MetricsInv'
  BY <1>9, SetEndsKeeps
<1>10. ASSUME Collector!Reset PROVE MetricsInv'
  BY <1>10, ResetKeeps
<1>11. ASSUME NEW count \in 1 .. MaxWrites, Collector!BatchStored(count) PROVE MetricsInv'
  BY <1>11, BatchStoredKeeps
<1>12. ASSUME UNCHANGED Collector!vars PROVE MetricsInv'
  BY <1>12
     DEF Collector!vars, Collector!counters, Collector!writes, MetricsInv, Collector!TypeOK,
         Bounded, Collector!CountedAtMostTwice, Collector!Recorded, Matching
<1> QED
  BY <1>1, <1>2, <1>3, <1>4, <1>5, <1>6, <1>7, <1>8, <1>9, <1>10, <1>11, <1>12
     DEF Collector!Next, Collector!RequestStep

-----------------------------------------------------------------------------
(* Metrics: the invariant holds.                                           *)

LEMMA MetricsInvariant ==
    Collector!MetricsAssumption => (Collector!Spec => []MetricsInv)
<1> SUFFICES ASSUME Collector!MetricsAssumption PROVE Collector!Spec => []MetricsInv
  OBVIOUS
<1>1. Collector!Init => MetricsInv
  BY MetricsInit
<1>2. MetricsInv /\ [Collector!Next]_(Collector!vars) => MetricsInv'
  BY MetricsStep
<1> QED
  BY <1>1, <1>2, PTL DEF Collector!Spec

-----------------------------------------------------------------------------
(* Lifespan: the inductive invariant.                                       *)

LifespanInv == Start!TypeOK /\ Start!IndexForAll

-----------------------------------------------------------------------------
(* Lifespan: the steps, by what they do to the index.                       *)

\* A worker moves from one phase to another, and the others stay.
LEMMA Moves ==
    ASSUME Start!TypeOK, NEW w \in Workers, NEW from, NEW to, Start!At(w, from, to),
           to \in {"down", "ping", "drop", "create", "serving"}
    PROVE  /\ phase'[w] = to /\ phase[w] = from
           /\ \A v \in Workers \ {w} : phase'[v] = phase[v]
           /\ phase' \in [Workers -> {"down", "ping", "drop", "create", "serving"}]
<1> QED
  BY DEF Start!At, Start!TypeOK

\* While some worker does not serve, nothing is claimed of the index.
LEMMA NotAllServe ==
    ASSUME NEW w \in Workers, phase'[w] # "serving"
    PROVE  Start!IndexForAll'
<1> QED
  BY DEF Start!IndexForAll

\* A step that creates the index, or leaves it and lets no worker come to serve,
\* keeps the claim.
LEMMA IndexStays ==
    ASSUME Start!IndexForAll, index => index',
           index' \/ \A v \in Workers : phase'[v] = "serving" => phase[v] = "serving"
    PROVE  Start!IndexForAll'
<1> QED
  BY DEF Start!IndexForAll

\* The hashes an index has are those of answers in redis, whatever is stored.
LEMMA StoreKeepsTypes ==
    ASSUME Start!TypeOK, NEW p \in Prompts, Start!Store(p)
    PROVE  /\ stored' \subseteq Prompts /\ indexed' \subseteq stored'
           /\ index' = index /\ (~ index' => indexed' = {})
<1> QED
  BY DEF Start!TypeOK, Start!Store

\* So do the commands that drop and create it.
LEMMA CommandKeepsTypes ==
    ASSUME Start!TypeOK, Start!Dropped \/ Start!Created \/ UNCHANGED Start!data
    PROVE  /\ stored' \subseteq Prompts /\ indexed' \subseteq stored'
           /\ index' \in BOOLEAN /\ (~ index' => indexed' = {})
<1>1. CASE Start!Dropped
  BY <1>1 DEF Start!TypeOK, Start!Dropped
<1>2. CASE Start!Created
  BY <1>2 DEF Start!TypeOK, Start!Created
<1>3. CASE UNCHANGED Start!data
  BY <1>3 DEF Start!TypeOK, Start!data
<1> QED
  BY <1>1, <1>2, <1>3

LEMMA LifespanInit ==
    ASSUME Start!LifespanAssumption, Start!Init
    PROVE  LifespanInv
<1>1. Start!TypeOK
  <2>1. 0 \in 0 .. Len(WarmupQueries)
    BY DEF Start!LifespanAssumption
  <2>2. warmed \in [Workers -> 0 .. Len(WarmupQueries)]
    BY <2>1 DEF Start!Init
  <2>3. phase \in [Workers -> {"down", "ping", "drop", "create", "serving"}]
    BY DEF Start!Init
  <2>4. stored \subseteq Prompts /\ indexed \subseteq stored
    BY DEF Start!Init
  <2> QED
    BY <2>2, <2>3, <2>4 DEF Start!Init, Start!TypeOK
<1>2. PICK w \in Workers : TRUE
  BY DEF Start!LifespanAssumption
<1>3. phase[w] # "serving"
  BY DEF Start!Init
<1> QED
  BY <1>1, <1>3 DEF LifespanInv, Start!IndexForAll

-----------------------------------------------------------------------------
(* lifespan() up to its yield.                                              *)

LEMMA StartKeeps ==
    ASSUME Start!LifespanAssumption, LifespanInv, NEW w \in Workers, Start!Start(w)
    PROVE  LifespanInv'
<1>1. phase'[w] = "ping" /\ phase' \in [Workers -> {"down", "ping", "drop", "create", "serving"}]
  BY Moves DEF Start!Start, LifespanInv
<1>2. warmed' \in [Workers -> 0 .. Len(WarmupQueries)]
  BY DEF Start!Start, LifespanInv, Start!TypeOK, Start!LifespanAssumption
<1>3. Start!TypeOK'
  BY <1>1, <1>2 DEF Start!Start, LifespanInv, Start!TypeOK, Start!data
<1> QED
  BY <1>1, <1>3, NotAllServe DEF LifespanInv

LEMMA PingKeeps ==
    ASSUME LifespanInv, NEW w \in Workers, Start!Ping(w)
    PROVE  LifespanInv'
<1>1. phase'[w] = "drop" /\ phase' \in [Workers -> {"down", "ping", "drop", "create", "serving"}]
  BY Moves DEF Start!Ping, LifespanInv
<1>2. Start!TypeOK'
  BY <1>1 DEF Start!Ping, LifespanInv, Start!TypeOK, Start!data
<1> QED
  BY <1>1, <1>2, NotAllServe DEF LifespanInv

\* Whether the index was there or not, whoever dropped it goes on to create it.
LEMMA DropIndexKeeps ==
    ASSUME LifespanInv, NEW w \in Workers, Start!DropIndex(w)
    PROVE  LifespanInv'
<1>1. Start!At(w, "drop", "create") /\ (Start!Dropped \/ UNCHANGED Start!data)
  BY DEF Start!DropIndex, Start!AfterUnknownIndex
<1>2. phase'[w] = "create" /\ phase' \in [Workers -> {"down", "ping", "drop", "create", "serving"}]
  BY <1>1, Moves DEF LifespanInv
<1>3. Start!TypeOK'
  BY <1>1, <1>2, CommandKeepsTypes DEF Start!DropIndex, LifespanInv, Start!TypeOK
<1> QED
  BY <1>2, <1>3, NotAllServe DEF LifespanInv

LEMMA CreateIndexKeeps ==
    ASSUME LifespanInv, NEW w \in Workers, Start!CreateIndex(w)
    PROVE  LifespanInv'
<1>1. phase' \in [Workers -> {"down", "ping", "drop", "create", "serving"}]
  BY Moves DEF Start!CreateIndex, LifespanInv
<1>2. Start!TypeOK'
  BY <1>1 DEF Start!CreateIndex, Start!Created, LifespanInv, Start!TypeOK
<1> QED
  BY <1>2, IndexStays DEF Start!CreateIndex, Start!Created, LifespanInv

LEMMA CreateFailsKeeps ==
    ASSUME LifespanInv, NEW w \in Workers, Start!CreateFails(w)
    PROVE  LifespanInv'
<1>1. phase'[w] = "down" /\ phase' \in [Workers -> {"down", "ping", "drop", "create", "serving"}]
  BY Moves DEF Start!CreateFails, Start!AfterFailedCreate, LifespanInv
<1>2. Start!TypeOK'
  BY <1>1, CommandKeepsTypes DEF Start!CreateFails, LifespanInv, Start!TypeOK
<1> QED
  BY <1>1, <1>2, NotAllServe DEF LifespanInv

LEMMA ConnectFailsKeeps ==
    ASSUME LifespanInv, NEW w \in Workers, Start!ConnectFails(w)
    PROVE  LifespanInv'
<1>1. /\ Start!At(w, "ping", "down") \/ Start!At(w, "drop", "down")
      /\ Start!Dropped \/ UNCHANGED Start!data
  BY DEF Start!ConnectFails
<1>2. phase'[w] = "down" /\ phase' \in [Workers -> {"down", "ping", "drop", "create", "serving"}]
  BY <1>1, Moves DEF LifespanInv
<1>3. Start!TypeOK'
  BY <1>1, <1>2, CommandKeepsTypes DEF Start!ConnectFails, LifespanInv, Start!TypeOK
<1> QED
  BY <1>2, <1>3, NotAllServe DEF LifespanInv

-----------------------------------------------------------------------------
(* serving, and the environment.                                            *)

LEMMA WarmUpKeeps ==
    ASSUME Start!LifespanAssumption, LifespanInv, NEW w \in Workers, Start!WarmUp(w)
    PROVE  LifespanInv'
<1> USE DEF LifespanInv
<1>1. /\ Len(WarmupQueries) \in Nat /\ warmed[w] \in Nat /\ warmed[w] + 1 \in 1 .. Len(WarmupQueries)
  BY DEF Start!LifespanAssumption, Start!TypeOK, Start!WarmUp
<1>2. WarmupQueries[warmed[w] + 1] \in Prompts
  BY <1>1 DEF Start!LifespanAssumption
<1>3. warmed' \in [Workers -> 0 .. Len(WarmupQueries)]
  BY <1>1 DEF Start!WarmUp, Start!TypeOK
<1>4. /\ stored' \subseteq Prompts /\ indexed' \subseteq stored'
      /\ index' = index /\ (~ index' => indexed' = {})
  <2>1. CASE Start!Store(WarmupQueries[warmed[w] + 1])
    BY <1>2, <2>1, StoreKeepsTypes
  <2>2. CASE UNCHANGED Start!data
    BY <2>2 DEF Start!data, Start!TypeOK
  <2> QED
    BY <2>1, <2>2 DEF Start!WarmUp
<1>5. Start!TypeOK'
  BY <1>3, <1>4 DEF Start!WarmUp, Start!TypeOK
<1> QED
  BY <1>4, <1>5, IndexStays DEF Start!WarmUp

LEMMA AnswerStoredKeeps ==
    ASSUME LifespanInv, NEW w \in Workers, NEW p \in Prompts, Start!AnswerStored(w, p)
    PROVE  LifespanInv'
<1> USE DEF LifespanInv
<1>1. /\ stored' \subseteq Prompts /\ indexed' \subseteq stored'
      /\ index' = index /\ (~ index' => indexed' = {})
  BY StoreKeepsTypes DEF Start!AnswerStored
<1>2. Start!TypeOK'
  BY <1>1 DEF Start!AnswerStored, Start!TypeOK
<1> QED
  BY <1>1, <1>2, IndexStays DEF Start!AnswerStored

LEMMA EndsKeeps ==
    ASSUME LifespanInv, NEW w \in Workers, Start!Ends(w)
    PROVE  LifespanInv'
<1>1. phase'[w] = "down" /\ phase' \in [Workers -> {"down", "ping", "drop", "create", "serving"}]
  BY Moves DEF Start!Ends, LifespanInv
<1>2. Start!TypeOK'
  BY <1>1 DEF Start!Ends, LifespanInv, Start!TypeOK, Start!data
<1> QED
  BY <1>1, <1>2, NotAllServe DEF LifespanInv

\* redis and the environment leave the phases and the index alone.
LEMMA EnvironmentKeeps ==
    ASSUME LifespanInv,
           \/ \E p \in Prompts : Start!Scan(p) \/ Start!Expire(p)
           \/ Start!RedisChanges \/ Start!TurnsCalm \/ UNCHANGED Start!vars
    PROVE  LifespanInv'
<1> USE DEF LifespanInv
<1>1. phase' = phase /\ index' = index
  BY DEF Start!Scan, Start!Expire, Start!RedisChanges, Start!TurnsCalm, Start!vars, Start!data
<1>2. Start!TypeOK'
  <2>1. ASSUME NEW p \in Prompts, Start!Scan(p) PROVE Start!TypeOK'
    BY <2>1 DEF Start!Scan, Start!TypeOK
  <2>2. ASSUME NEW p \in Prompts, Start!Expire(p) PROVE Start!TypeOK'
    BY <2>2 DEF Start!Expire, Start!TypeOK
  <2>3. CASE Start!RedisChanges
    BY <2>3 DEF Start!RedisChanges, Start!TypeOK, Start!data
  <2>4. CASE Start!TurnsCalm
    BY <2>4 DEF Start!TurnsCalm, Start!TypeOK, Start!data
  <2>5. CASE UNCHANGED Start!vars
    BY <2>5 DEF Start!vars, Start!TypeOK, Start!data
  <2> QED
    BY <2>1, <2>2, <2>3, <2>4, <2>5
<1> QED
  BY <1>1, <1>2, IndexStays

LEMMA LifespanStep ==
    ASSUME Start!LifespanAssumption, LifespanInv, [Start!Next]_(Start!vars)
    PROVE  LifespanInv'
<1>1. ASSUME NEW w \in Workers, Start!Start(w) PROVE LifespanInv'
  BY <1>1, StartKeeps
<1>2. ASSUME NEW w \in Workers, Start!StartStep(w) PROVE LifespanInv'
  BY <1>2, PingKeeps, DropIndexKeeps, CreateIndexKeeps DEF Start!StartStep
<1>3. ASSUME NEW w \in Workers, Start!CreateFails(w) PROVE LifespanInv'
  BY <1>3, CreateFailsKeeps
<1>4. ASSUME NEW w \in Workers, Start!ConnectFails(w) PROVE LifespanInv'
  BY <1>4, ConnectFailsKeeps
<1>5. ASSUME NEW w \in Workers, Start!WarmUp(w) PROVE LifespanInv'
  BY <1>5, WarmUpKeeps
<1>6. ASSUME NEW w \in Workers, Start!Ends(w) PROVE LifespanInv'
  BY <1>6, EndsKeeps
<1>7. ASSUME NEW w \in Workers, NEW p \in Prompts, Start!AnswerStored(w, p) PROVE LifespanInv'
  BY <1>7, AnswerStoredKeeps
<1>8. ASSUME \/ \E p \in Prompts : Start!Scan(p) \/ Start!Expire(p)
             \/ Start!RedisChanges \/ Start!TurnsCalm \/ UNCHANGED Start!vars
      PROVE  LifespanInv'
  BY <1>8, EnvironmentKeeps
<1> QED
  BY <1>1, <1>2, <1>3, <1>4, <1>5, <1>6, <1>7, <1>8 DEF Start!Next

-----------------------------------------------------------------------------
(* Lifespan: the invariant holds.                                          *)

LEMMA LifespanInvariant ==
    Start!LifespanAssumption => (Start!Spec => []LifespanInv)
<1> SUFFICES ASSUME Start!LifespanAssumption PROVE Start!Spec => []LifespanInv
  OBVIOUS
<1>1. Start!Init => LifespanInv
  BY LifespanInit
<1>2. LifespanInv /\ [Start!Next]_(Start!vars) => LifespanInv'
  BY LifespanStep
<1> QED
  BY <1>1, <1>2, PTL DEF Start!Spec

-----------------------------------------------------------------------------
(* TTLCalculator: the factors, one after the other.                         *)

\* The TTL is one that calculate() returns for the inputs of the last store.
CalculatorInv ==
    /\ Calculator!TypeOK
    /\ ttl \in Calculator!Calculate(hit_count, query_length, base_ttl, time_of_day, weekend)

\* int(x * f) loses less than a second, and a second at most where the product with
\* 0.7 is rounded.
LEMMA OneFactor ==
    ASSUME NEW x \in Nat, NEW tenths \in {6, 7, 8, 10, 12, 13, 15, 20, 40},
           NEW y \in Calculator!Times(x, tenths)
    PROVE  /\ y \in Nat /\ 10 * y <= x * tenths /\ 10 * y >= x * tenths - 10
           /\ tenths # 7 => 10 * y >= x * tenths - 9
<1>1. ASSUME NEW t \in {6, 8, 10, 12, 13, 15, 20, 40}, y = (x * t) \div 10
      PROVE  y \in Nat /\ 10 * y <= x * t /\ 10 * y >= x * t - 9
  <2>1. PICK z \in Nat : z = x * t
    OBVIOUS
  <2>2. y = z \div 10
    BY <1>1, <2>1
  <2>3. y \in Nat /\ 10 * y <= z /\ 10 * y >= z - 9
    BY <2>2
  <2> QED
    BY <2>1, <2>3
<1>2. ASSUME y = (x * 7) \div 10
      PROVE  y \in Nat /\ 10 * y <= x * 7 /\ 10 * y >= x * 7 - 9
  BY <1>2
<1>3. ASSUME y = (x * 7) \div 10 - 1, x % 10 = 0, x > 0
      PROVE  y \in Nat /\ 10 * y <= x * 7 /\ 10 * y >= x * 7 - 10
  BY <1>3
<1> QED
  BY <1>1, <1>2, <1>3 DEF Calculator!Times

\* What calculate() multiplies with.
LEMMA Factors ==
    /\ \A hits \in Nat : Calculator!Popularity(hits) \in {8, 10, 15, 20, 40}
    /\ \A length \in Nat : Calculator!Complexity(length) \in {7, 10, 12}
    /\ \A hour \in 0 .. 23 : Calculator!TimeOfDay(hour) \in {6, 10}
    /\ \A is_weekend \in BOOLEAN : Calculator!DayOfWeek(is_weekend) \in {10, 13}
  BY DEF Calculator!Popularity, Calculator!Complexity, Calculator!TimeOfDay,
         Calculator!DayOfWeek, Calculator!complexity_threshold

\* Three more truncations cost less than five seconds.
LEMMA FourFactors ==
    ASSUME NEW u \in Nat, NEW c \in {7, 10, 12}, NEW h \in {6, 10}, NEW d \in {10, 13},
           NEW x1 \in Nat, NEW x2 \in Nat, NEW x3 \in Nat, NEW x4 \in Nat,
           10 * x1 <= u, 10 * x1 >= u - 9,
           10 * x2 <= x1 * c, 10 * x2 >= x1 * c - 10, c # 7 => 10 * x2 >= x1 * c - 9,
           10 * x3 <= x2 * h, 10 * x3 >= x2 * h - 9,
           10 * x4 <= x3 * d, 10 * x4 >= x3 * d - 9
    PROVE  10000 * x4 <= u * c * h * d /\ 10000 * x4 >= u * c * h * d - 50000
<1>1. /\ 100 * x2 <= u * c /\ 100 * x2 >= u * c - 198
      /\ u * c \in Nat
  <2>1. CASE c = 7
    BY <2>1
  <2>2. CASE c = 10
    BY <2>2
  <2>3. CASE c = 12
    BY <2>3
  <2> QED
    BY <2>1, <2>2, <2>3
<1>2. PICK v \in Nat : v = u * c
  BY <1>1
<1>3. CASE h = 6 /\ d = 10
  BY <1>1, <1>2, <1>3
<1>4. CASE h = 6 /\ d = 13
  BY <1>1, <1>2, <1>4
<1>5. CASE h = 10 /\ d = 10
  BY <1>1, <1>2, <1>5
<1>6. CASE h = 10 /\ d = 13
  BY <1>1, <1>2, <1>6
<1> QED
  BY <1>3, <1>4, <1>5, <1>6

\* What a TTL is made of: a number near the product of the base with the factors.
NearProduct(x, product) == 10000 * x <= product /\ 10000 * x >= product - 50000

LEMMA CalculateNear ==
    ASSUME NEW hits \in Nat, NEW length \in Nat, NEW base \in Nat, NEW hour \in 0 .. 23,
           NEW is_weekend \in BOOLEAN,
           NEW result \in Calculator!Calculate(hits, length, base, hour, is_weekend)
    PROVE  \E x \in Nat :
              /\ result = Calculator!Clamped(x)
              /\ NearProduct(x, base * Calculator!Popularity(hits)
                                  * Calculator!Complexity(length)
                                  * Calculator!TimeOfDay(hour)
                                  * Calculator!DayOfWeek(is_weekend))
<1>1. PICK p, c, h, d :
         /\ p = Calculator!Popularity(hits) /\ c = Calculator!Complexity(length)
         /\ h = Calculator!TimeOfDay(hour) /\ d = Calculator!DayOfWeek(is_weekend)
         /\ p \in {8, 10, 15, 20, 40} /\ c \in {7, 10, 12} /\ h \in {6, 10} /\ d \in {10, 13}
  BY Factors
<1>2. PICK x1, x2, x3, x4 :
         /\ x1 \in Calculator!Times(base, p) /\ x2 \in Calculator!Times(x1, c)
         /\ x3 \in Calculator!Times(x2, h) /\ x4 \in Calculator!Times(x3, d)
         /\ result = Calculator!Clamped(x4)
  BY <1>1 DEF Calculator!Calculate
<1>3. p # 7 /\ p \in {6, 7, 8, 10, 12, 13, 15, 20, 40} /\ c \in {6, 7, 8, 10, 12, 13, 15, 20, 40}
      /\ h # 7 /\ h \in {6, 7, 8, 10, 12, 13, 15, 20, 40} /\ d # 7
      /\ d \in {6, 7, 8, 10, 12, 13, 15, 20, 40}
  BY <1>1
<1>4. x1 \in Nat /\ 10 * x1 <= base * p /\ 10 * x1 >= base * p - 9
  BY <1>2, <1>3, OneFactor
<1>5. /\ x2 \in Nat /\ 10 * x2 <= x1 * c /\ 10 * x2 >= x1 * c - 10
      /\ c # 7 => 10 * x2 >= x1 * c - 9
  BY <1>2, <1>3, <1>4, OneFactor
<1>6. x3 \in Nat /\ 10 * x3 <= x2 * h /\ 10 * x3 >= x2 * h - 9
  BY <1>2, <1>3, <1>5, OneFactor
<1>7. x4 \in Nat /\ 10 * x4 <= x3 * d /\ 10 * x4 >= x3 * d - 9
  BY <1>2, <1>3, <1>6, OneFactor
<1>8. base * p \in Nat
  BY <1>1
<1>9. NearProduct(x4, base * p * c * h * d)
  BY <1>1, <1>4, <1>5, <1>6, <1>7, <1>8, FourFactors DEF NearProduct
<1> QED
  BY <1>1, <1>2, <1>7, <1>9

LEMMA ClampedType ==
    \A x \in Nat : Calculator!Clamped(x) \in Calculator!min_ttl .. Calculator!max_ttl
<1> SUFFICES ASSUME NEW x \in Nat
             PROVE  Calculator!Clamped(x) \in Calculator!min_ttl .. Calculator!max_ttl
  OBVIOUS
<1>1. /\ Calculator!min_ttl \in Nat /\ Calculator!max_ttl \in Nat
      /\ Calculator!min_ttl <= Calculator!max_ttl
  BY DEF Calculator!min_ttl, Calculator!max_ttl
<1> QED
  BY <1>1 DEF Calculator!Clamped

\* Of two popularities the greater is greater by a quarter at least, and so is the
\* product.
LEMMA ProductsApart ==
    ASSUME NEW base \in Nat, NEW p \in {8, 10, 15, 20, 40}, NEW less \in {8, 10, 15, 20, 40},
           less < p, NEW c \in {7, 10, 12}, NEW h \in {6, 10}, NEW d \in {10, 13}
    PROVE  /\ base * p * c * h * d \in Nat /\ base * less * c * h * d \in Nat
           /\ 4 * (base * p * c * h * d) >= 5 * (base * less * c * h * d)
<1>1. PICK k \in Nat : k = c * h * d
  OBVIOUS
<1>2. PICK w \in Nat : w = base * k
  BY <1>1
<1>3. base * p * c * h * d = p * w /\ base * less * c * h * d = less * w
  BY <1>1, <1>2
<1>4. p * w \in Nat /\ less * w \in Nat /\ 4 * (p * w) >= 5 * (less * w)
  BY <1>2
<1> QED
  BY <1>3, <1>4

\* A quarter is more than truncation loses, unless both are below the least TTL.
LEMMA ClampedInOrder ==
    ASSUME NEW m \in Nat, NEW n \in Nat, 4 * m >= 5 * n, NEW x \in Nat, NEW y \in Nat,
           NearProduct(x, m), NearProduct(y, n)
    PROVE  Calculator!Clamped(y) <= Calculator!Clamped(x)
  BY DEF NearProduct, Calculator!Clamped, Calculator!min_ttl, Calculator!max_ttl

\* By day the factors of the code are those of its comments.
LEMMA ProductOfFactors ==
    ASSUME HitCounts \subseteq Nat,
           NEW hits \in HitCounts, NEW length \in Nat, NEW base \in Nat, NEW hour \in 0 .. 23,
           NEW is_weekend \in BOOLEAN, ~ Calculator!Night(hour)
    PROVE  Calculator!Product(hits, length, base, hour, is_weekend) =
              (base * Calculator!Popularity(hits) * Calculator!Complexity(length)
                 * Calculator!TimeOfDay(hour) * Calculator!DayOfWeek(is_weekend)) \div 10000
<1> DEFINE popularity == [n \in HitCounts |->
            CASE n < 5 -> 8 [] n \in 5 .. 20 -> 10 [] n \in 21 .. 50 -> 15
              [] n \in 51 .. 100 -> 20 [] n > 100 -> 40]
<1>1. popularity[hits] = Calculator!Popularity(hits)
  <2>1. hits \in Nat
    OBVIOUS
  <2>2. popularity[hits] =
            CASE hits < 5 -> 8 [] hits \in 5 .. 20 -> 10 [] hits \in 21 .. 50 -> 15
              [] hits \in 51 .. 100 -> 20 [] hits > 100 -> 40
    OBVIOUS
  <2> HIDE DEF popularity
  <2>3. CASE hits < 5
    BY <2>1, <2>2, <2>3 DEF Calculator!Popularity
  <2>4. CASE hits \in 5 .. 20
    BY <2>1, <2>2, <2>4 DEF Calculator!Popularity
  <2>5. CASE hits \in 21 .. 50
    BY <2>1, <2>2, <2>5 DEF Calculator!Popularity
  <2>6. CASE hits \in 51 .. 100
    BY <2>1, <2>2, <2>6 DEF Calculator!Popularity
  <2>7. CASE hits > 100
    BY <2>1, <2>2, <2>7 DEF Calculator!Popularity
  <2> QED
    BY <2>1, <2>3, <2>4, <2>5, <2>6, <2>7
<1>2. (IF length \in 50 .. 200 THEN 10 ELSE IF length < 50 THEN 12 ELSE 7)
         = Calculator!Complexity(length)
  BY DEF Calculator!Complexity, Calculator!complexity_threshold
<1>3. (IF hour \in 9 .. 17 THEN 6 ELSE IF Calculator!Night(hour) THEN 15 ELSE 10)
         = Calculator!TimeOfDay(hour)
  BY DEF Calculator!TimeOfDay, Calculator!Night
<1>4. (IF is_weekend THEN 13 ELSE 10) = Calculator!DayOfWeek(is_weekend)
  BY DEF Calculator!DayOfWeek
<1> HIDE DEF popularity
<1> QED
  BY <1>1, <1>2, <1>3, <1>4 DEF Calculator!Product, popularity

LEMMA InputTypes ==
    ASSUME Calculator!CalculatorAssumption, Calculator!TypeOK
    PROVE  /\ hit_count \in HitCounts /\ hit_count \in Nat /\ query_length \in Nat
           /\ base_ttl \in Nat /\ time_of_day \in 0 .. 23 /\ weekend \in BOOLEAN
  BY DEF Calculator!CalculatorAssumption, Calculator!TypeOK

\* By day what calculate() returns is within the product and Loss; it is at most that of an
\* entry with more hits.
LEMMA CalculatedFollows ==
    ASSUME Calculator!CalculatorAssumption, CalculatorInv
    PROVE  Calculator!TTLFollowsFactors
<1> DEFINE length == query_length
           c == Calculator!Complexity(query_length)
           h == Calculator!TimeOfDay(time_of_day)
           d == Calculator!DayOfWeek(weekend)
           product(hits) == base_ttl * Calculator!Popularity(hits) * c * h * d
           exact == Calculator!Product(hit_count, query_length, base_ttl, time_of_day, weekend)
<1>1. /\ hit_count \in HitCounts /\ hit_count \in Nat /\ query_length \in Nat
      /\ base_ttl \in Nat /\ time_of_day \in 0 .. 23 /\ weekend \in BOOLEAN
      /\ HitCounts \subseteq Nat
  BY InputTypes DEF CalculatorInv, Calculator!CalculatorAssumption
<1>2. c \in {7, 10, 12} /\ h \in {6, 10} /\ d \in {10, 13}
  BY <1>1, Factors
<1>3. PICK x \in Nat : ttl = Calculator!Clamped(x) /\ NearProduct(x, product(hit_count))
  BY <1>1, CalculateNear DEF CalculatorInv
<1>4. ASSUME ~ Calculator!Night(time_of_day)
      PROVE  exact = product(hit_count) \div 10000
  BY <1>1, <1>4, ProductOfFactors DEF Calculator!Night
<1>5. product(hit_count) \in Nat
  BY <1>1, <1>2, Factors
<1> HIDE DEF c, h, d, exact
<1>6. ASSUME ~ Calculator!Night(time_of_day)
      PROVE  ttl \in Calculator!Clamped(exact - Calculator!Loss) .. Calculator!Clamped(exact)
  <2>1. PICK z \in Nat : z = product(hit_count)
    BY <1>5
  <2>2. exact \in Nat /\ x <= exact /\ x >= exact - 6
    BY <1>3, <1>4, <1>6, <2>1 DEF NearProduct
  <2> QED
    BY <1>3, <2>2 DEF Calculator!Clamped, Calculator!Loss, Calculator!min_ttl,
                      Calculator!max_ttl
<1>7. ASSUME NEW hits \in HitCounts, hits < hit_count,
             Calculator!Popularity(hits) # Calculator!Popularity(hit_count),
             NEW other \in Calculator!Calculate(hits, query_length, base_ttl, time_of_day,
                                                weekend)
      PROVE  other <= ttl
  <2>1. PICK y \in Nat : other = Calculator!Clamped(y) /\ NearProduct(y, product(hits))
    BY <1>1, <1>7, CalculateNear DEF c, h, d
  <2>2. PICK p, less : /\ p = Calculator!Popularity(hit_count)
                       /\ less = Calculator!Popularity(hits)
                       /\ p \in {8, 10, 15, 20, 40} /\ less \in {8, 10, 15, 20, 40}
    BY <1>1, Factors
  <2>3. less < p
    BY <1>1, <1>7, <2>2 DEF Calculator!Popularity
  <2>4. PICK m, n : /\ m = product(hit_count) /\ n = product(hits)
                    /\ m \in Nat /\ n \in Nat /\ 4 * m >= 5 * n
    <3>1. base_ttl \in Nat
      BY <1>1
    <3>2. /\ base_ttl * p * c * h * d \in Nat /\ base_ttl * less * c * h * d \in Nat
          /\ 4 * (base_ttl * p * c * h * d) >= 5 * (base_ttl * less * c * h * d)
      BY <1>2, <2>2, <2>3, <3>1, ProductsApart
    <3> QED
      BY <2>2, <3>2
  <2> HIDE DEF product
  <2>5. Calculator!Clamped(y) <= Calculator!Clamped(x)
    BY <1>3, <2>1, <2>4, ClampedInOrder
  <2> QED
    BY <1>3, <2>1, <2>5
<1> QED
  BY <1>6, <1>7 DEF Calculator!TTLFollowsFactors, Calculator!IsProduct, exact

-----------------------------------------------------------------------------
(* TTLCalculator: the invariant holds.                                      *)

\* A TTL that calculate() returns is between its bounds.
LEMMA CalculatedType ==
    ASSUME NEW hits \in Nat, NEW length \in Nat, NEW base \in Nat, NEW hour \in 0 .. 23,
           NEW is_weekend \in BOOLEAN,
           NEW result \in Calculator!Calculate(hits, length, base, hour, is_weekend)
    PROVE  result \in Calculator!min_ttl .. Calculator!max_ttl
<1>1. PICK x \in Nat : result = Calculator!Clamped(x)
  <2>1. \E x \in Nat :
           /\ result = Calculator!Clamped(x)
           /\ NearProduct(x, base * Calculator!Popularity(hits)
                               * Calculator!Complexity(length)
                               * Calculator!TimeOfDay(hour)
                               * Calculator!DayOfWeek(is_weekend))
    BY CalculateNear
  <2> QED
    BY <2>1
<1> QED
  BY <1>1, ClampedType

LEMMA CalculatorInvariant ==
    Calculator!CalculatorAssumption => (Calculator!Spec => []CalculatorInv)
<1> SUFFICES ASSUME Calculator!CalculatorAssumption PROVE Calculator!Spec => []CalculatorInv
  OBVIOUS
<1>1. Calculator!Init => CalculatorInv
  BY CalculatedType DEF Calculator!Init, CalculatorInv, Calculator!TypeOK,
                        Calculator!CalculatorAssumption
<1>2. CalculatorInv /\ [Calculator!Next]_(Calculator!vars) => CalculatorInv'
  <2> SUFFICES ASSUME CalculatorInv, [Calculator!Next]_(Calculator!vars)
               PROVE  CalculatorInv'
    OBVIOUS
  <2>1. ASSUME NEW hits \in HitCounts, NEW hour \in Hours, NEW is_weekend \in BOOLEAN,
               Calculator!Set(hits, hour, is_weekend)
        PROVE  CalculatorInv'
    <3>1. /\ hits \in Nat /\ hour \in 0 .. 23 /\ query_length \in Nat /\ base_ttl \in Nat
          /\ query_length \in QueryLengths /\ base_ttl \in BaseTTLs
      BY DEF CalculatorInv, Calculator!TypeOK, Calculator!CalculatorAssumption
    <3>2. ttl' \in Calculator!min_ttl .. Calculator!max_ttl
      BY <2>1, <3>1, CalculatedType DEF Calculator!Set
    <3> QED
      BY <2>1, <3>1, <3>2 DEF Calculator!Set, CalculatorInv, Calculator!TypeOK
  <2>2. CASE UNCHANGED Calculator!vars
    BY <2>2 DEF Calculator!vars, CalculatorInv, Calculator!TypeOK
  <2> QED
    BY <2>1, <2>2 DEF Calculator!Next
<1> QED
  BY <1>1, <1>2, PTL DEF Calculator!Spec

-----------------------------------------------------------------------------
(* AdaptiveTTL: the inductive invariant.                                    *)

\* The timestamps of a key are in the order of the clock.
InOrder(all) ==
    \A i, j \in 1 .. Len(all) : i <= j => all[i] <= all[j]

\* What is kept of a key are its accesses after the first m, and those are the ones
\* in the window that ended with its last access.
KeptAfter(kept, all, m) ==
    /\ Len(kept) = Len(all) - m
    /\ \A i \in 1 .. Len(kept) : kept[i] = all[m + i]
    /\ \A i \in 1 .. Len(all) : i > m <=> Adaptive!Learned(all[i], all[Len(all)])

WindowKept ==
    \A k \in Keys :
        /\ InOrder(accesses[k])
        /\ \E m \in 0 .. Len(accesses[k]) :
              KeptAfter(access_patterns[k], accesses[k], m)

AdaptiveInv == Adaptive!TypeOK /\ WindowKept

-----------------------------------------------------------------------------
(* The end of a list.                                                       *)

LEMMA SeqSubset ==
    ASSUME NEW S, NEW T, S \subseteq T, NEW s \in Seq(S)
    PROVE  s \in Seq(T)
  OBVIOUS

LEMMA AdaptiveCardinality ==
    \A S : Adaptive!Cardinality(S) = Cardinality(S)
  BY DEF Adaptive!Cardinality, Cardinality, Adaptive!IsFiniteSet, IsFiniteSet

\* A function of the first l positions is a list.
LEMMA ListOf ==
    ASSUME NEW T, NEW l \in Nat, NEW f,
           f = [k \in 1 .. l |-> f[k]], \A k \in 1 .. l : f[k] \in T
    PROVE  f \in Seq(T) /\ Len(f) = l
  OBVIOUS

\* A set of positions that has all the later ones too is the end of the list.
LEMMA UpperPart ==
    ASSUME NEW n \in Nat, NEW S \in SUBSET (1 .. n),
           \A i \in S, j \in 1 .. n : i <= j => j \in S
    PROVE  \E q \in 0 .. n : S = q + 1 .. n
<1>1. IsFiniteSet(1 .. n) /\ Cardinality(1 .. n) = n
  BY FS_Interval
<1>2. IsFiniteSet(S) /\ Cardinality(S) \in Nat /\ Cardinality(S) <= n
  BY <1>1, FS_Subset, FS_CardinalityType
<1>3. PICK q \in 0 .. n : q = n - Cardinality(S)
  BY <1>2
<1>4. ASSUME NEW i \in S PROVE i \in q + 1 .. n
  <2>1. i \in 1 .. n /\ (i .. n) \in SUBSET S
    OBVIOUS
  <2>2. Cardinality(i .. n) = n - i + 1
    BY <2>1, FS_Interval
  <2>3. Cardinality(i .. n) <= Cardinality(S)
    BY <2>1, <1>2, FS_Subset
  <2> QED
    BY <2>1, <2>2, <2>3, <1>2, <1>3
<1>5. IsFiniteSet(q + 1 .. n) /\ Cardinality(q + 1 .. n) = n - q
  <2>1. q + 1 \in Int /\ n \in Int
    OBVIOUS
  <2>2. /\ IsFiniteSet(q + 1 .. n)
        /\ Cardinality(q + 1 .. n) = IF q + 1 > n THEN 0 ELSE (n - (q + 1)) + 1
    BY <2>1, FS_Interval
  <2> QED
    BY <2>2
<1>6. S \in SUBSET (q + 1 .. n) /\ Cardinality(S) = Cardinality(q + 1 .. n)
  BY <1>2, <1>3, <1>4, <1>5
<1> QED
  BY <1>5, <1>6, FS_Subset

\* The entries at the end of a list, selected, follow one another.
LEMMA SelectedEnd ==
    ASSUME NEW n \in Nat, NEW q \in 0 .. n, NEW s
    PROVE  /\ Adaptive!Selected(s, q + 1 .. n) =
                 [k \in 1 .. n - q |-> Adaptive!Selected(s, q + 1 .. n)[k]]
           /\ \A k \in 1 .. n - q : Adaptive!Selected(s, q + 1 .. n)[k] = s[q + k]
<1>1. \A i \in Int : Cardinality(q + 1 .. i) = IF q + 1 > i THEN 0 ELSE (i - (q + 1)) + 1
  BY FS_Interval
<1>2. Adaptive!Cardinality(q + 1 .. n) = n - q
  BY <1>1, AdaptiveCardinality
<1>3. ASSUME NEW k \in 1 .. n - q PROVE Adaptive!Nth(q + 1 .. n, k) = q + k
  <2>1. \A i \in q + 1 .. n : Cardinality({j \in q + 1 .. n : j <= i}) = i - q
    <3> SUFFICES ASSUME NEW i \in q + 1 .. n
                 PROVE  Cardinality({j \in q + 1 .. n : j <= i}) = i - q
      OBVIOUS
    <3>1. {j \in q + 1 .. n : j <= i} = q + 1 .. i
      OBVIOUS
    <3>2. Cardinality(q + 1 .. i) = i - q
      <4>1. i \in Int /\ ~ (q + 1 > i) /\ (i - (q + 1)) + 1 = i - q
        OBVIOUS
      <4> QED
        BY <4>1, <1>1
    <3> QED
      BY <3>1, <3>2
  <2>2. q + k \in q + 1 .. n /\ \A i \in q + 1 .. n : i - q = k <=> i = q + k
    OBVIOUS
  <2>3. Adaptive!Nth(q + 1 .. n, k) = CHOOSE i \in q + 1 .. n : i - q = k
    BY <2>1, AdaptiveCardinality DEF Adaptive!Nth
  <2> QED
    BY <2>2, <2>3
<1> QED
  BY <1>2, <1>3 DEF Adaptive!Selected

-----------------------------------------------------------------------------
(* Recording an access.                                                     *)

\* Pruning what was pruned at the access before gives the window of this one.
LEMMA RecordedKept ==
    ASSUME Adaptive!AdaptiveAssumption,
           NEW now \in Nat, NEW all \in Seq(0 .. now), NEW kept \in Seq(0 .. now),
           NEW m \in 0 .. Len(all), KeptAfter(kept, all, m), InOrder(all)
    PROVE  LET recorded == Append(kept, now)
               learned == {i \in DOMAIN recorded : Adaptive!Learned(recorded[i], now)}
               after == Adaptive!Selected(recorded, learned)
           IN  /\ after \in Seq(0 .. now) /\ Len(after) <= Len(all) + 1
               /\ InOrder(Append(all, now))
               /\ \E q \in 0 .. Len(all) + 1 : KeptAfter(after, Append(all, now), q)
<1> DEFINE recorded == Append(kept, now)
           whole == Append(all, now)
           n == Len(kept) + 1
           learned == {i \in DOMAIN recorded : Adaptive!Learned(recorded[i], now)}
           after == Adaptive!Selected(recorded, learned)
<1>1. /\ learning_window \in Nat \ {0} /\ Len(kept) \in Nat /\ Len(all) \in Nat
      /\ m \in Nat /\ Len(kept) = Len(all) - m
  BY DEF Adaptive!AdaptiveAssumption, KeptAfter
<1>2. /\ whole \in Seq(0 .. now) /\ Len(whole) = Len(all) + 1 /\ whole[Len(all) + 1] = now
      /\ \A i \in 1 .. Len(all) : whole[i] = all[i] /\ all[i] \in 0 .. now
  BY <1>1
<1>3. /\ recorded \in Seq(0 .. now) /\ Len(recorded) = n /\ DOMAIN recorded = 1 .. n
      /\ recorded[n] = now
      /\ \A i \in 1 .. Len(kept) : recorded[i] = kept[i]
  BY <1>1
<1>4. \A i \in 1 .. n : recorded[i] = whole[m + i] /\ recorded[i] \in 0 .. now
  <2>1. ASSUME NEW i \in 1 .. Len(kept)
        PROVE  recorded[i] = whole[m + i]
    <3>1. recorded[i] = kept[i] /\ kept[i] = all[m + i]
      BY <1>3 DEF KeptAfter
    <3>2. m + i \in 1 .. Len(all)
      BY <1>1
    <3> QED
      BY <1>2, <3>1, <3>2
  <2>2. recorded[n] = whole[m + n]
    BY <1>1, <1>2, <1>3
  <2>3. \A i \in 1 .. n : recorded[i] \in 0 .. now
    <3> HIDE DEF recorded, n
    <3> QED
      BY <1>3
  <2>4. \A i \in 1 .. n : i \in 1 .. Len(kept) \/ i = n
    BY <1>1
  <2> HIDE DEF recorded, whole, n
  <2> QED
    BY <2>1, <2>2, <2>3, <2>4
<1>5. InOrder(whole)
  BY <1>1, <1>2 DEF InOrder
<1>6. ASSUME NEW i \in 1 .. n, NEW j \in 1 .. n, i <= j
      PROVE  recorded[i] <= recorded[j]
  <2>1. m + i \in 1 .. Len(whole) /\ m + j \in 1 .. Len(whole) /\ m + i <= m + j
    BY <1>1, <1>2, <1>6
  <2> HIDE DEF recorded, whole, n
  <2> QED
    BY <2>1, <1>4, <1>5 DEF InOrder
<1>7. learned \in SUBSET (1 .. n) /\ n \in Nat
  BY <1>1, <1>3
<1>8. \A i \in 1 .. n : i \in learned <=> recorded[i] + learning_window > now
  BY <1>3 DEF Adaptive!Learned
<1> HIDE DEF recorded, whole, n, learned
<1>9. PICK q \in 0 .. n : learned = q + 1 .. n
  <2>1. ASSUME NEW i \in learned, NEW j \in 1 .. n, i <= j PROVE j \in learned
    <3>1. /\ recorded[i] <= recorded[j] /\ recorded[i] \in 0 .. now /\ recorded[j] \in 0 .. now
          /\ recorded[i] + learning_window > now
      BY <2>1, <1>4, <1>6, <1>7, <1>8
    <3>2. recorded[j] + learning_window > now
      BY <3>1, <1>1
    <3> QED
      BY <3>2, <1>8
  <2> QED
    BY <2>1, <1>7, UpperPart
<1>10. n \in Nat /\ n = (Len(all) + 1) - m /\ q \in Nat /\ q <= n
  BY <1>1, <1>9 DEF n
<1>11. after = [k \in 1 .. n - q |-> after[k]] /\ \A k \in 1 .. n - q : after[k] = recorded[q + k]
  <2> DEFINE end == q + 1 .. n
  <2>1. /\ Adaptive!Selected(recorded, end) =
              [k \in 1 .. n - q |-> Adaptive!Selected(recorded, end)[k]]
        /\ \A k \in 1 .. n - q : Adaptive!Selected(recorded, end)[k] = recorded[q + k]
    <3>1. q \in 0 .. n /\ n \in Nat
      BY <1>7
    <3> QED
      BY <3>1, SelectedEnd
  <2>2. after = Adaptive!Selected(recorded, end)
    BY <1>9
  <2> QED
    BY <2>1, <2>2
<1>12. \A k \in 1 .. n - q : q + k \in 1 .. n
  BY <1>10
<1>13. after \in Seq(0 .. now) /\ Len(after) = n - q
  <2>1. \A k \in 1 .. n - q : after[k] \in 0 .. now
    BY <1>4, <1>11, <1>12
  <2> DEFINE l == n - q
  <2>2. l \in Nat
    BY <1>10
  <2> HIDE DEF after, l
  <2>3. after = [k \in 1 .. l |-> after[k]] /\ \A k \in 1 .. l : after[k] \in 0 .. now
    BY <1>11, <2>1 DEF l
  <2>4. after \in Seq(0 .. now) /\ Len(after) = l
    BY <2>2, <2>3, ListOf
  <2> QED
    BY <2>4 DEF l
<1>14. ASSUME NEW i \in 1 .. Len(all) + 1
       PROVE  i > m + q <=> Adaptive!Learned(whole[i], now)
  <2>1. CASE i <= m
    <3>1. i \in 1 .. Len(all) /\ Len(all) \in 1 .. Len(all) /\ ~ (i > m) /\ ~ (i > m + q)
      BY <2>1, <1>1, <1>10
    <3>2. ~ (all[i] + learning_window > all[Len(all)])
      BY <3>1 DEF KeptAfter, Adaptive!Learned
    <3>3. all[i] \in 0 .. now /\ all[Len(all)] \in 0 .. now /\ whole[i] = all[i]
      BY <3>1, <1>2
    <3>4. ~ (whole[i] + learning_window > now)
      BY <3>2, <3>3, <1>1, SMTT(30)
    <3> QED
      BY <3>1, <3>4 DEF Adaptive!Learned
  <2>2. CASE i > m
    <3>1. i - m \in 1 .. n /\ recorded[i - m] = whole[i]
      BY <2>2, <1>1, <1>4, <1>10
    <3>2. i - m \in learned <=> i - m > q
      BY <3>1, <1>9, <1>10
    <3>3. i - m \in learned <=> whole[i] + learning_window > now
      BY <3>1, <1>8
    <3>4. i - m > q <=> i > m + q
      BY <1>1, <1>10
    <3> QED
      BY <3>2, <3>3, <3>4 DEF Adaptive!Learned
  <2> QED
    BY <2>1, <2>2, <1>1
<1> HIDE DEF after
<1>15. KeptAfter(after, whole, m + q) /\ m + q \in 0 .. Len(all) + 1
  <2>1. Len(after) = Len(whole) - (m + q) /\ m + q \in 0 .. Len(all) + 1
    BY <1>1, <1>2, <1>10, <1>13
  <2>2. ASSUME NEW i \in 1 .. Len(after) PROVE after[i] = whole[(m + q) + i]
    <3>1. after[i] = recorded[q + i] /\ q + i \in 1 .. n
      BY <1>11, <1>12, <1>13
    <3>2. recorded[q + i] = whole[m + (q + i)]
      BY <3>1, <1>4
    <3>3. m + (q + i) = (m + q) + i
      BY <1>1, <1>10, <1>13
    <3> QED
      BY <3>1, <3>2, <3>3
  <2> QED
    BY <2>1, <2>2, <1>2, <1>14 DEF KeptAfter
<1>16. Len(after) <= Len(all) + 1
  BY <1>1, <1>10, <1>13
<1> QED
  BY <1>5, <1>13, <1>15, <1>16 DEF after, learned, whole, recorded

-----------------------------------------------------------------------------
(* AdaptiveTTL: the invariant holds.                                        *)

LEMMA AdaptiveInit ==
    ASSUME Adaptive!AdaptiveAssumption, Adaptive!Init PROVE AdaptiveInv
<1>1. Adaptive!TypeOK
  BY DEF Adaptive!Init, Adaptive!TypeOK
<1>2. \A k \in Keys : InOrder(accesses[k]) /\ KeptAfter(access_patterns[k], accesses[k], 0)
  BY DEF Adaptive!Init, InOrder, KeptAfter
<1> QED
  BY <1>1, <1>2 DEF AdaptiveInv, WindowKept, Adaptive!Init

LEMMA AdaptiveStep ==
    ASSUME Adaptive!AdaptiveAssumption, AdaptiveInv, [Adaptive!Next]_(Adaptive!vars)
    PROVE  AdaptiveInv'
<1>1. Adaptive!TypeOK /\ WindowKept
  BY DEF AdaptiveInv
<1>2. ASSUME NEW k \in Keys, Adaptive!RecordAccess(k) PROVE AdaptiveInv'
  <2> DEFINE recorded == Append(access_patterns[k], access_clock)
             learned == {i \in DOMAIN recorded : Adaptive!Learned(recorded[i], access_clock)}
             after == Adaptive!Selected(recorded, learned)
             whole == Append(accesses[k], access_clock)
  <2>1. /\ access_patterns' = [access_patterns EXCEPT ![k] = after]
        /\ accesses' = [accesses EXCEPT ![k] = whole]
        /\ access_clock' = access_clock
    BY <1>2 DEF Adaptive!RecordAccess
  <2>2. /\ access_clock \in Nat
        /\ accesses[k] \in Seq(0 .. access_clock) /\ access_patterns[k] \in Seq(0 .. access_clock)
    BY <1>1 DEF Adaptive!TypeOK
  <2>3. PICK m \in 0 .. Len(accesses[k]) : KeptAfter(access_patterns[k], accesses[k], m)
    BY <1>1 DEF WindowKept
  <2>4. InOrder(accesses[k])
    BY <1>1 DEF WindowKept
  <2>5. /\ after \in Seq(0 .. access_clock) /\ Len(after) <= Len(accesses[k]) + 1
        /\ InOrder(whole)
        /\ \E q \in 0 .. Len(accesses[k]) + 1 : KeptAfter(after, whole, q)
    BY <2>2, <2>3, <2>4, RecordedKept
  <2>6. whole \in Seq(0 .. access_clock) /\ Len(whole) = Len(accesses[k]) + 1
    BY <2>2
  <2> HIDE DEF after, whole
  <2>7. /\ access_patterns'[k] = after /\ accesses'[k] = whole
        /\ \A other \in Keys \ {k} : /\ access_patterns'[other] = access_patterns[other]
                                     /\ accesses'[other] = accesses[other]
    BY <2>1, <1>1 DEF Adaptive!TypeOK
  <2>8. Adaptive!TypeOK'
    BY <1>1, <2>1, <2>5, <2>6, <2>7 DEF Adaptive!TypeOK
  <2>9. WindowKept'
    BY <1>1, <2>5, <2>6, <2>7 DEF WindowKept
  <2> QED
    BY <2>8, <2>9 DEF AdaptiveInv
<1>3. CASE Adaptive!Tick
  <2>1. /\ access_clock \in Nat /\ access_clock' = access_clock + 1
        /\ access_patterns' = access_patterns /\ accesses' = accesses
    BY <1>1, <1>3 DEF Adaptive!Tick, Adaptive!TypeOK
  <2>2. (0 .. access_clock) \subseteq (0 .. access_clock')
    BY <2>1
  <2>3. ASSUME NEW s \in Seq(0 .. access_clock) PROVE s \in Seq(0 .. access_clock')
    BY <2>2, <2>3, SeqSubset
  <2>4. Adaptive!TypeOK'
    BY <1>1, <2>1, <2>3 DEF Adaptive!TypeOK
  <2> QED
    BY <1>1, <2>1, <2>4 DEF AdaptiveInv, WindowKept
<1>4. CASE Adaptive!Restart
  <2>1. Adaptive!TypeOK'
    BY <1>4 DEF Adaptive!Restart, Adaptive!TypeOK
  <2>2. \A k \in Keys : /\ InOrder(accesses'[k]) /\ Len(accesses'[k]) = 0
                        /\ KeptAfter(access_patterns'[k], accesses'[k], 0)
    BY <1>4 DEF Adaptive!Restart, InOrder, KeptAfter
  <2> QED
    BY <2>1, <2>2 DEF AdaptiveInv, WindowKept
<1>5. CASE UNCHANGED Adaptive!vars
  BY <1>1, <1>5 DEF Adaptive!vars, AdaptiveInv, Adaptive!TypeOK, WindowKept
<1> QED
  BY <1>2, <1>3, <1>4, <1>5 DEF Adaptive!Next

\* What is kept is what the last window leaves of all accesses.
LEMMA KeptIsWindow ==
    ASSUME Adaptive!AdaptiveAssumption, AdaptiveInv
    PROVE  Adaptive!PatternsAreWindow
<1> SUFFICES ASSUME NEW k \in Keys, accesses[k] # <<>>
             PROVE  LET all == accesses[k]
                        n == Len(all)
                        older == {i \in DOMAIN all : all[i] + learning_window <= all[n]}
                    IN  access_patterns[k] = SubSeq(all, Adaptive!Cardinality(older) + 1, n)
  BY DEF Adaptive!PatternsAreWindow
<1> DEFINE kept == access_patterns[k]
           all == accesses[k]
           older == {i \in DOMAIN all : all[i] + learning_window <= all[Len(all)]}
<1>1. PICK m \in 0 .. Len(all) : KeptAfter(kept, all, m)
  BY DEF AdaptiveInv, WindowKept
<1>2. /\ kept \in Seq(0 .. access_clock) /\ all \in Seq(0 .. access_clock)
      /\ access_clock \in Nat /\ learning_window \in Nat
  BY DEF AdaptiveInv, Adaptive!TypeOK, Adaptive!AdaptiveAssumption
<1> HIDE DEF kept, all
<1>3. PICK n \in Nat : n = Len(all) /\ n # 0 /\ DOMAIN all = 1 .. n
  BY <1>2 DEF all
<1>4. \A i \in 1 .. n : all[i] \in Nat
  BY <1>2, <1>3
<1>5. older = 1 .. m
  <2>1. ASSUME NEW i \in 1 .. n
        PROVE  all[i] + learning_window <= all[n] <=> i <= m
    <3>1. i > m <=> all[i] + learning_window > all[n]
      BY <1>1, <1>3 DEF KeptAfter, Adaptive!Learned
    <3>2. all[i] \in Nat /\ all[n] \in Nat
      BY <1>3, <1>4
    <3> QED
      BY <3>1, <3>2, <1>2, <1>3
  <2> QED
    BY <2>1, <1>3
<1>6. Adaptive!Cardinality(older) = m
  <2>1. Cardinality(1 .. m) = IF 1 > m THEN 0 ELSE (m - 1) + 1
    BY <1>3, FS_Interval
  <2>2. m \in Nat
    BY <1>3
  <2>3. Cardinality(1 .. m) = m
    BY <2>1, <2>2
  <2> QED
    BY <2>3, <1>5, AdaptiveCardinality
<1>7. kept = SubSeq(all, m + 1, n)
  <2>1. m + 1 \in Int /\ m + 1 + (n - (m + 1)) = n /\ \A i \in m + 1 .. n : all[i] \in 0 .. access_clock
    BY <1>2, <1>3
  <2>2. Len(kept) = n - m /\ DOMAIN kept = 1 .. n - m /\ \A i \in 1 .. n - m : kept[i] = all[m + i]
    BY <1>1, <1>2, <1>3 DEF KeptAfter
  <2>3. SubSeq(all, m + 1, n) = [i \in 1 .. n - (m + 1) + 1 |-> all[i + (m + 1) - 1]]
    BY <1>3
  <2>4. n - (m + 1) + 1 = n - m /\ \A i \in 1 .. n - m : i + (m + 1) - 1 = m + i
    BY <1>3
  <2>5. kept = [i \in 1 .. n - m |-> kept[i]]
    BY <1>2, <2>2
  <2> QED
    BY <2>2, <2>3, <2>4, <2>5
<1> QED
  BY <1>3, <1>6, <1>7 DEF kept, all, older

LEMMA AdaptiveInvariant ==
    Adaptive!AdaptiveAssumption => (Adaptive!Spec => []AdaptiveInv)
<1> SUFFICES ASSUME Adaptive!AdaptiveAssumption PROVE Adaptive!Spec => []AdaptiveInv
  OBVIOUS
<1>1. Adaptive!Init => AdaptiveInv
  BY AdaptiveInit
<1>2. AdaptiveInv /\ [Adaptive!Next]_(Adaptive!vars) => AdaptiveInv'
  BY AdaptiveStep
<1> QED
  BY <1>1, <1>2, PTL DEF Adaptive!Spec

-----------------------------------------------------------------------------
(* The parts side by side.                                                  *)

EmbeddingProofs == INSTANCE EmbeddingCacheProofs WITH Callers <- Embeddings

\* Every step of WorkerParts is a step of each part, or leaves it alone.
LEMMA StepsOfParts ==
    ASSUME [PartsNext]_partsVars
    PROVE  /\ [Embedding!Next]_(Embedding!vars) /\ [Start!Next]_(Start!vars)
           /\ [Collector!Next]_(Collector!vars) /\ [Calculator!Next]_(Calculator!vars)
           /\ [Adaptive!Next]_(Adaptive!vars)
<1> USE DEF embeddingVars, lifespanVars, metricsVars, calculatorVars, adaptiveVars,
            Embedding!vars, Start!vars, Collector!vars, Collector!counters, Collector!writes,
            Calculator!vars, Adaptive!vars
<1>1. CASE /\ part = "embedding" /\ Embedding!Next
           /\ UNCHANGED <<lifespanVars, metricsVars, calculatorVars, adaptiveVars>>
  BY <1>1
<1>2. CASE /\ part = "lifespan" /\ Start!Next
           /\ UNCHANGED <<embeddingVars, metricsVars, calculatorVars, adaptiveVars>>
  BY <1>2
<1>3. CASE /\ part = "metrics" /\ Collector!Next
           /\ UNCHANGED <<embeddingVars, lifespanVars, calculatorVars, adaptiveVars>>
  BY <1>3
<1>4. CASE /\ part = "calculator" /\ Calculator!Next
           /\ UNCHANGED <<embeddingVars, lifespanVars, metricsVars, adaptiveVars>>
  BY <1>4
<1>5. CASE /\ part = "adaptive"
           /\ \/ access_clock < AccessHorizon /\ Adaptive!Tick
              \/ Adaptive!Restart
              \/ \E k \in Keys : Adaptive!RecordAccess(k)
           /\ UNCHANGED <<embeddingVars, lifespanVars, metricsVars, calculatorVars>>
  BY <1>5 DEF Adaptive!Next
<1>6. CASE UNCHANGED partsVars
  BY <1>6 DEF partsVars
<1> QED
  BY <1>1, <1>2, <1>3, <1>4, <1>5, <1>6 DEF PartsNext

\* So a behaviour of WorkerParts is one of each part.
LEMMA PartsFollowed ==
    PartsSpec => Start!Spec /\ Collector!Spec /\ Calculator!Spec /\ Adaptive!Spec
<1>1. PartsInit => Start!Init /\ Collector!Init /\ Calculator!Init /\ Adaptive!Init
  BY DEF PartsInit
<1> QED
  BY <1>1, StepsOfParts, PTL
     DEF PartsSpec, Start!Spec, Collector!Spec, Calculator!Spec, Adaptive!Spec

\* What EmbeddingCacheProofs proves, it proves of this embedding cache.
LEMMA SameEmbedding ==
    PartsSpec => EmbeddingProofs!Init /\ [][EmbeddingProofs!Next]_(EmbeddingProofs!vars)
<1>1. Embedding!Init => EmbeddingProofs!Init
  BY DEF Embedding!Init, EmbeddingProofs!Init, Embedding!Calls, EmbeddingProofs!Calls,
         Embedding!NoCall, EmbeddingProofs!NoCall, Embedding!NoBatch, EmbeddingProofs!NoBatch
<1>2. [Embedding!Next]_(Embedding!vars) => [EmbeddingProofs!Next]_(EmbeddingProofs!vars)
  BY
  DEF Embedding!vars, EmbeddingProofs!vars, Embedding!Next, EmbeddingProofs!Next,
      Embedding!Calls, EmbeddingProofs!Calls, Embedding!Tasks, EmbeddingProofs!Tasks,
      Embedding!CallStep, EmbeddingProofs!CallStep, Embedding!Reply,
      EmbeddingProofs!Reply, Embedding!PostFails, EmbeddingProofs!PostFails,
      Embedding!Retry, EmbeddingProofs!Retry, Embedding!Generate,
      EmbeddingProofs!Generate, Embedding!Entered, EmbeddingProofs!Entered,
      Embedding!Cached, EmbeddingProofs!Cached, Embedding!Kept, EmbeddingProofs!Kept,
      Embedding!Inserted, EmbeddingProofs!Inserted, Embedding!BatchStep,
      EmbeddingProofs!BatchStep, Embedding!GatherCompletes,
      EmbeddingProofs!GatherCompletes, Embedding!GatherRaises,
      EmbeddingProofs!GatherRaises, Embedding!Acquire, EmbeddingProofs!Acquire,
      Embedding!Holding, EmbeddingProofs!Holding, Embedding!Stitched,
      EmbeddingProofs!Stitched, Embedding!GenerateBatch, EmbeddingProofs!GenerateBatch,
      Embedding!StartChunk, EmbeddingProofs!StartChunk, Embedding!Selected,
      EmbeddingProofs!Selected, Embedding!Nth, EmbeddingProofs!Nth, Embedding!NoCall,
      EmbeddingProofs!NoCall, Embedding!NoBatch, EmbeddingProofs!NoBatch,
      Embedding!Range, EmbeddingProofs!Range, Embedding!Cardinality,
      EmbeddingProofs!Cardinality, Embedding!IsFiniteSet, EmbeddingProofs!IsFiniteSet
<1>3. PartsInit => Embedding!Init
  BY DEF PartsInit
<1> QED
  BY <1>1, <1>2, <1>3, StepsOfParts, PTL DEF PartsSpec

LEMMA EmbeddingHolds == PartsSpec => [](Embedding!TypeOK /\ Embedding!BatchInOrder)
<1>1. EmbeddingProofs!EmbeddingAssumption
  BY PartsAssumption DEF Embedding!EmbeddingAssumption, EmbeddingProofs!EmbeddingAssumption
<1>2. EmbeddingProofs!EmbeddingInv => Embedding!TypeOK /\ Embedding!BatchInOrder
  BY
  DEF EmbeddingProofs!EmbeddingInv, Embedding!TypeOK, EmbeddingProofs!TypeOK,
      Embedding!BatchInOrder, EmbeddingProofs!BatchInOrder, Embedding!Calls,
      EmbeddingProofs!Calls, Embedding!IsInjective, EmbeddingProofs!IsInjective
<1> QED
  BY <1>1, <1>2, SameEmbedding, EmbeddingProofs!EmbeddingInvariant, PTL

-----------------------------------------------------------------------------
(* The theorems.                                                            *)

\* The embedding cache holds no text twice and no more than its size, a search finds
\* hashes of redis only, the counters are numbers and hits by level were served, a TTL
\* is between five minutes and a day, and what is kept of a key are its accesses.
THEOREM TypeCorrect == PartsSpec => []WorkerTypeOK
<1>1. /\ LifespanInv => Start!TypeOK
      /\ MetricsInv => Collector!TypeOK
      /\ CalculatorInv => Calculator!TypeOK
      /\ AdaptiveInv => Adaptive!TypeOK
  BY DEF LifespanInv, MetricsInv, CalculatorInv, AdaptiveInv
<1>2. /\ Start!LifespanAssumption /\ Collector!MetricsAssumption
      /\ Calculator!CalculatorAssumption /\ Adaptive!AdaptiveAssumption
  BY PartsAssumption
<1>3. (/\ Embedding!TypeOK /\ Start!TypeOK /\ Collector!TypeOK
       /\ Calculator!TypeOK /\ Adaptive!TypeOK) => WorkerTypeOK
  BY DEF WorkerTypeOK
<1> QED
  BY <1>1, <1>2, <1>3, PartsFollowed, EmbeddingHolds, LifespanInvariant,
     MetricsInvariant, CalculatorInvariant, AdaptiveInvariant, PTL

\* generate_batch() returns the vectors of its texts in the order of the texts.
THEOREM VectorsInOrder == PartsSpec => []BatchInOrder
  BY EmbeddingHolds, PTL DEF BatchInOrder

\* When all workers serve there is an index, in whatever order they dropped and
\* created it.
THEOREM IndexWhenAllServe == PartsSpec => []IndexForAll
<1>1. LifespanInv => Start!IndexForAll
  BY DEF LifespanInv
<1> QED
  BY <1>1, PartsAssumption, PartsFollowed, LifespanInvariant, PTL
     DEF IndexForAll

\* A lookup is counted once, and at most once more when its request ends, whatever
\* is cancelled or reset in between.
THEOREM LookupsCounted == PartsSpec => []CountedAtMostTwice
<1>1. MetricsInv => Collector!CountedAtMostTwice
  BY DEF MetricsInv
<1> QED
  BY <1>1, PartsAssumption, PartsFollowed, MetricsInvariant, PTL
     DEF CountedAtMostTwice

\* By day a TTL is the product of the base with the four multipliers, less than Loss
\* seconds of truncations apart, and at no hour shorter for more hits, whatever the
\* inputs.
THEOREM FactorsFollowed == PartsSpec => []TTLFollowsFactors
<1>1. Calculator!CalculatorAssumption
  BY PartsAssumption
<1>2. CalculatorInv => Calculator!TTLFollowsFactors
  BY <1>1, CalculatedFollows
<1> QED
  BY <1>1, <1>2, PartsFollowed, CalculatorInvariant, PTL
     DEF TTLFollowsFactors

\* What record_access() keeps is the window that ended with the last access, although
\* it prunes one access at a time.
THEOREM WindowKeptExactly == PartsSpec => []PatternsAreWindow
<1>1. Adaptive!AdaptiveAssumption
  BY PartsAssumption
<1>2. AdaptiveInv => Adaptive!PatternsAreWindow
  BY <1>1, KeptIsWindow
<1> QED
  BY <1>1, <1>2, PartsFollowed, AdaptiveInvariant, PTL
     DEF PatternsAreWindow
=============================================================================
