-------------------------------- MODULE Metrics --------------------------------
(***************************************************************************)
(* app/utils/metrics.py: the counters of MetricsCollector, as lookups of   *)
(* app/cache/semantic_cache.py and requests of app/routes/proxy.py record  *)
(* them, some before and some after an await.  Latencies, timestamps and   *)
(* the rounding of the summary are left out.                               *)
(* Definitions named Name_Variant are plausible bugs, put in Name's place  *)
(* to see that a property notices.                                         *)
(***************************************************************************)
EXTENDS Naturals, FiniteSets

CONSTANTS
    Requests,
    MaxLookups,   \* lookups counted before the metrics have to be reset
    MaxWrites     \* set() tasks and batch writes, likewise

MetricsAssumption == MaxLookups \in Nat /\ MaxWrites \in Nat /\ IsFiniteSet(Requests)

VARIABLES
    cache_hits, cache_misses, errors, l1_hits, l2_hits, cache_write_ops, batch_writes,
    pc,        \* per request, the await it is at
    chat,      \* whether it is a chat request, or one prompt of a batch
    writing,   \* set() tasks on their way
    served,    \* history, since the last reset: lookups answered from the cache
    missed,    \* history, since the last reset: lookups that were not
    carried    \* history: lookups recorded before the last reset whose request was
               \* still going on

counters == <<cache_hits, cache_misses, errors, l1_hits, l2_hits>>
writes == <<cache_write_ops, batch_writes, writing>>
vars == <<counters, writes, pc, chat, served, missed, carried>>

TypeOK ==
    /\ served \in 0 .. MaxLookups /\ missed \in 0 .. MaxLookups
    /\ l1_hits \in 0 .. served /\ l2_hits \in 0 .. served
    /\ cache_hits \in Nat /\ cache_misses \in Nat /\ errors \in Nat
    /\ cache_write_ops \in 0 .. MaxWrites /\ batch_writes \in 0 .. MaxWrites
    /\ writing \in 0 .. MaxWrites
    /\ pc \in [Requests -> {"idle", "semantic", "hit", "llm"}]
    /\ chat \in [Requests -> BOOLEAN]
    /\ carried \in 0 .. Cardinality(Requests)

Init ==
    /\ cache_hits = 0 /\ cache_misses = 0 /\ errors = 0 /\ l1_hits = 0 /\ l2_hits = 0
    /\ cache_write_ops = 0 /\ batch_writes = 0 /\ writing = 0
    /\ pc = [r \in Requests |-> "idle"] /\ chat = [r \in Requests |-> FALSE]
    /\ served = 0 /\ missed = 0 /\ carried = 0

-----------------------------------------------------------------------------
Goes(r, from, to) == pc[r] = from /\ pc' = [pc EXCEPT ![r] = to]

Begin(r, to, is_chat) ==
    /\ served + missed + Cardinality({q \in Requests : pc[q] = "semantic"}) < MaxLookups
    /\ Goes(r, "idle", to)
    /\ chat' = [chat EXCEPT ![r] = is_chat]

RecordCacheHit(level) ==
    /\ cache_hits' = cache_hits + 1
    /\ l1_hits' = IF level = "l1" THEN l1_hits + 1 ELSE l1_hits
    /\ l2_hits' = IF level = "l1" THEN l2_hits ELSE l2_hits + 1
    /\ served' = served + 1
    /\ UNCHANGED <<cache_misses, errors, missed>>

RecordRequest(cached) ==
    /\ cache_hits' = IF cached THEN cache_hits + 1 ELSE cache_hits
    /\ cache_misses' = IF cached THEN cache_misses ELSE cache_misses + 1
    /\ UNCHANGED <<errors, l1_hits, l2_hits, served, missed>>

\* An exact or L1 hit is recorded before the hit counter in redis is awaited.
LookupHits(r, is_chat, level) ==
    /\ Begin(r, "hit", is_chat)
    /\ RecordCacheHit(level)
    /\ UNCHANGED <<writes, carried>>

\* A semantic hit is recorded after it.
LookupMatches(r, is_chat) ==
    /\ Begin(r, "semantic", is_chat)
    /\ UNCHANGED <<counters, writes, served, missed, carried>>

MatchRecorded(r) ==
    /\ Goes(r, "semantic", "hit")
    /\ RecordCacheHit("redis")
    /\ UNCHANGED <<writes, chat, carried>>

LookupMisses(r, is_chat) ==
    /\ Begin(r, "llm", is_chat)
    /\ cache_misses' = cache_misses + 1
    /\ missed' = missed + 1
    /\ UNCHANGED <<cache_hits, errors, l1_hits, l2_hits, writes, served, carried>>

\* get() returns its hit: a chat request counts it once more, a batch does not.
HitReturned(r) ==
    /\ Goes(r, "hit", "idle")
    /\ IF chat[r] THEN RecordRequest(TRUE) ELSE UNCHANGED <<counters, served, missed>>
    /\ UNCHANGED <<writes, chat, carried>>

\* The answer was generated, and a task stores it.
Generated(r) ==
    /\ writing + cache_write_ops < MaxWrites
    /\ Goes(r, "llm", "idle")
    /\ IF chat[r] THEN RecordRequest(FALSE) ELSE UNCHANGED <<counters, served, missed>>
    /\ writing' = writing + 1
    /\ UNCHANGED <<cache_write_ops, batch_writes, chat, carried>>

RecordError_AndMiss ==
    /\ errors' = errors + 1 /\ cache_misses' = cache_misses + 1
    /\ UNCHANGED <<cache_hits, l1_hits, l2_hits, served, missed>>

RecordError ==
    /\ errors' = errors + 1
    /\ UNCHANGED <<cache_hits, cache_misses, l1_hits, l2_hits, served, missed>>

\* The breaker refused the call, or the generation failed.
GenerationFails(r) ==
    /\ chat[r]
    /\ Goes(r, "llm", "idle")
    /\ RecordError
    /\ UNCHANGED <<writes, chat, carried>>

\* The client is gone (CancelledError passes every handler), or another lookup of
\* the same batch raised: nothing more is recorded.
Cancelled(r) ==
    /\ pc[r] # "idle"
    /\ pc' = [pc EXCEPT ![r] = "idle"]
    /\ UNCHANGED <<counters, writes, chat, served, missed, carried>>

\* set() has enqueued the answer, or failed to embed the prompt.
SetEnds ==
    /\ writing > 0
    /\ writing' = writing - 1
    /\ cache_write_ops' = cache_write_ops + 1 \/ UNCHANGED cache_write_ops
    /\ UNCHANGED <<counters, batch_writes, pc, chat, served, missed, carried>>

\* batch_set() has stored a list of entries.
BatchStored(count) ==
    /\ batch_writes + count <= MaxWrites
    /\ batch_writes' = batch_writes + count
    /\ UNCHANGED <<counters, cache_write_ops, writing, pc, chat, served, missed, carried>>

\* The requests whose lookup has been recorded.
Recorded == {r \in Requests : pc[r] \in {"hit", "llm"}}

\* batch_writes is not among what reset() wipes.
Reset ==
    /\ cache_hits' = 0 /\ cache_misses' = 0 /\ errors' = 0
    /\ l1_hits' = 0 /\ l2_hits' = 0 /\ cache_write_ops' = 0
    /\ served' = 0 /\ missed' = 0
    /\ carried' = Cardinality(Recorded)
    /\ UNCHANGED <<batch_writes, writing, pc, chat>>

RequestStep(r) ==
    \/ \E is_chat \in BOOLEAN : \/ LookupHits(r, is_chat, "l1") \/ LookupHits(r, is_chat, "exact")
                                \/ LookupMatches(r, is_chat) \/ LookupMisses(r, is_chat)
    \/ MatchRecorded(r) \/ HitReturned(r) \/ Generated(r) \/ GenerationFails(r) \/ Cancelled(r)

Next ==
    \/ \E r \in Requests : RequestStep(r)
    \/ SetEnds \/ Reset
    \/ \E count \in 1 .. MaxWrites : BatchStored(count)

Spec == Init /\ [][Next]_vars

-----------------------------------------------------------------------------
\* "how many times we served a response from cache" (metrics.py:15) is not what
\* cache_hits is, but how far from it the counters can be is bounded: a lookup is
\* counted once, and the chat request it belongs to possibly once more, as at most
\* one further hit, miss or error, whatever is cancelled or reset in between.
CountedAtMostTwice ==
    /\ served <= cache_hits /\ missed <= cache_misses
    /\ (cache_hits - served) + (cache_misses - missed) + errors + Cardinality(Recorded)
         <= served + missed + carried
=============================================================================
