----------------------------- MODULE SemanticCache -----------------------------
(***************************************************************************)
(* app/cache/semantic_cache.py with the redis commands it awaits: the      *)
(* lookups of the requests of one worker process, the storing of their     *)
(* answers, invalidation and clearing, over a redis that other workers     *)
(* write too, that expires keys and that may fail.                         *)
(*                                                                         *)
(* A step is one awaited command and the code that runs on its reply; an   *)
(* await that nothing is carried across has no step of its own.  The       *)
(* response to a prompt is named by the prompt it was generated for, so    *)
(* Similar tells whether it may answer another one.  The statistics        *)
(* counters are left out.  The path of a write from set() through the      *)
(* queue is one set, writing: WriteBehind has its order and its retries.   *)
(* Definitions named Name_Variant are plausible bugs, put in Name's place  *)
(* to see that a property notices.                                         *)
(***************************************************************************)
EXTENDS Naturals, Sequences, FiniteSets

CONSTANTS
    Queries,            \* prompts, one md5 hash each
    Similar,            \* pairs with cosine similarity above similarity_threshold
    Requests,           \* the lookups that may be running at once
    None,               \* no prompt, no response
    Absent,             \* no such key in redis
    popular_at,         \* hits that promote a query to local_cache (5)
    local_cache_size,
    remove_count        \* entries evicted at once: local_cache_size // 10

ASSUME CacheAssumption ==
    /\ Similar \subseteq Queries \X Queries
    /\ \A q \in Queries : <<q, q>> \in Similar
    /\ None \notin Queries
    /\ popular_at \in Nat \ {0}
    /\ local_cache_size \in Nat
    /\ remove_count \in 1 .. local_cache_size + 1
    /\ Absent \notin [response : Queries \cup {None}, expires : BOOLEAN]

VARIABLES
    redis,        \* query -> the hash at cache:<query>
    writing,      \* queries whose answer is between set() and redis
    local_cache,  \* oldest timestamp first
    hit_count,    \* hit_count_cache, counted up to popular_at
    pc,           \* per request, the await it is at, or "idle"
    query,        \* its prompt
    tier,         \* the tier that answered it
    answer,       \* the response it holds
    invalidating, \* the prompt of an invalidate() that has deleted the key, or None
    clearing      \* whether a clear_all() has deleted the keys, but not the local tiers

vars == <<redis, writing, local_cache, hit_count, pc, query, tier, answer,
          invalidating, clearing>>
locals == <<pc, query, tier, answer>>
admin == <<invalidating, clearing>>

Hash == [response : Queries \cup {None}, expires : BOOLEAN]
LocalEntry == [query : Queries, response : Queries, fresh : BOOLEAN]

TypeOK ==
    /\ redis \in [Queries -> Hash \cup {Absent}]
    /\ writing \subseteq Queries
    /\ local_cache \in Seq(LocalEntry)
    /\ hit_count \in [Queries -> 0 .. popular_at]
    /\ pc \in [Requests -> {"idle", "search", "hincrby", "hset", "llm"}]
    /\ query \in [Requests -> Queries \cup {None}]
    /\ tier \in [Requests -> {"none", "exact or l1", "semantic"}]
    /\ answer \in [Requests -> Queries \cup {None}]
    /\ invalidating \in Queries \cup {None}
    /\ clearing \in BOOLEAN

Init ==
    /\ redis = [q \in Queries |-> Absent]
    /\ writing = {}
    /\ local_cache = <<>>
    /\ hit_count = [q \in Queries |-> 0]
    /\ pc = [t \in Requests |-> "idle"]
    /\ query = [t \in Requests |-> None]
    /\ tier = [t \in Requests |-> "none"]
    /\ answer = [t \in Requests |-> None]
    /\ invalidating = None /\ clearing = FALSE

-----------------------------------------------------------------------------
(* redis                                                                    *)

Answered_AnyKey(q) == redis[q] # Absent

\* get_by_exact_match and the index see a key only once it has a response.
Answered(q) == redis[q] # Absent /\ redis[q].response # None

\* HSET of all fields and EXPIRE, one transaction: whatever was there before,
\* the key then has an answer and a time to live.
Stored_NoExpireOnUpdate(q) ==
    [redis EXCEPT ![q] = [response |-> q,
                          expires |-> redis[q] = Absent \/ redis[q].expires]]

Stored(q) == [redis EXCEPT ![q] = [response |-> q, expires |-> TRUE]]

\* HINCRBY or HSET of one field: a missing key is created without a time to
\* live, an existing one keeps the one it has.
Touched(q) ==
    [redis EXCEPT ![q] = IF redis[q] = Absent
                           THEN [response |-> None, expires |-> FALSE] ELSE @]

Expire(q) ==
    /\ redis[q] # Absent /\ redis[q].expires
    /\ redis' = [redis EXCEPT ![q] = Absent]
    /\ UNCHANGED <<writing, local_cache, hit_count, locals, admin>>

\* Another worker stores its answer to q.
OtherWorkerStores(q) ==
    /\ redis' = Stored(q)
    /\ UNCHANGED <<writing, local_cache, hit_count, locals, admin>>

-----------------------------------------------------------------------------
(* get()                                                                    *)

Miss(t, q, label) ==
    /\ pc' = [pc EXCEPT ![t] = label]
    /\ query' = [query EXCEPT ![t] = q]
    /\ UNCHANGED <<tier, answer>>

Hit(t, q, level, response) ==
    /\ pc' = [pc EXCEPT ![t] = "hincrby"]
    /\ query' = [query EXCEPT ![t] = q]
    /\ tier' = [tier EXCEPT ![t] = level]
    /\ answer' = [answer EXCEPT ![t] = response]

Done(t) ==
    /\ pc' = [pc EXCEPT ![t] = "idle"]
    /\ query' = [query EXCEPT ![t] = None]
    /\ tier' = [tier EXCEPT ![t] = "none"]
    /\ answer' = [answer EXCEPT ![t] = None]

FreshLocally(q) == {i \in DOMAIN local_cache :
                        local_cache[i].query = q /\ local_cache[i].fresh}

\* The hash lookup, which takes an error of redis for a miss, then local_cache.
Lookup(t, q) ==
    /\ pc[t] = "idle"
    /\ \/ Answered(q) /\ Hit(t, q, "exact or l1", redis[q].response)
       \/ \E i \in FreshLocally(q) : Hit(t, q, "exact or l1", local_cache[i].response)
       \/ FreshLocally(q) = {} /\ Miss(t, q, "search")
    /\ UNCHANGED <<redis, writing, local_cache, hit_count, admin>>

Matches_AnyDistance(q) == {m \in Queries : Answered(m)}

Matches(q) == {m \in Queries : Answered(m) /\ <<q, m>> \in Similar}

\* The prompt is embedded, which may fail the request, and searched for.
\* matches[0] may be any match: FT.SEARCH is not asked to sort by the vector
\* score.  No match, a search that failed or missed: the request goes to the LLM.
SemanticTier(t) ==
    /\ pc[t] = "search"
    /\ \/ \E m \in Matches(query[t]) : Hit(t, query[t], "semantic", redis[m].response)
       \/ Miss(t, query[t], "llm")
       \/ Done(t)
    /\ UNCHANGED <<redis, writing, local_cache, hit_count, admin>>

\* The dict has one entry for a query at most.
LocalWithout(q) ==
    LET at == {i \in DOMAIN local_cache : local_cache[i].query = q}
        i == CHOOSE j \in at : TRUE
    IN  IF at = {} THEN local_cache
        ELSE SubSeq(local_cache, 1, i - 1) \o SubSeq(local_cache, i + 1, Len(local_cache))

Evict_Never(entries) == entries

\* Past its size the cache loses its remove_count oldest entries.
Evict(entries) ==
    IF Len(entries) > local_cache_size
      THEN SubSeq(entries, remove_count + 1, Len(entries)) ELSE entries

Promoted(q, r) ==
    Evict(Append(LocalWithout(q),
                 [query |-> q, response |-> r, fresh |-> TRUE]))

PromotionDue(q) == hit_count[q] + 1 >= popular_at

\* After increment_hit_count, in either of its outcomes: the worker's own count,
\* and after a semantic hit the promotion of a popular query.
Serve(t) ==
    LET q == query[t]
    IN  /\ hit_count' = [hit_count EXCEPT ![q] = IF @ < popular_at THEN @ + 1 ELSE @]
        /\ local_cache' = IF tier[t] = "semantic" /\ PromotionDue(q)
                            THEN Promoted(q, answer[t]) ELSE local_cache
        /\ Done(t)

\* increment_hit_count, first command: on the query's own key, also when the
\* answer came from local_cache or from another key.  An error skips the rest.
CountHit(t) ==
    /\ pc[t] = "hincrby"
    /\ \/ /\ redis' = Touched(query[t])
          /\ pc' = [pc EXCEPT ![t] = "hset"]
          /\ UNCHANGED <<query, tier, answer, local_cache, hit_count>>
       \/ UNCHANGED redis /\ Serve(t)
    /\ UNCHANGED <<writing, admin>>

\* Second command: last_accessed.
TouchAccessed(t) ==
    /\ pc[t] = "hset"
    /\ redis' = Touched(query[t]) \/ UNCHANGED redis
    /\ Serve(t)
    /\ UNCHANGED <<writing, admin>>

-----------------------------------------------------------------------------
(* The miss: the LLM, then set() in a task of its own, the queue, the store *)

CallLLM(t) ==
    /\ pc[t] = "llm"
    /\ writing' = writing \cup {query[t]} \/ UNCHANGED writing
    /\ Done(t)
    /\ UNCHANGED <<redis, local_cache, hit_count, admin>>

\* store_batch; when the reply is lost the worker will store it again.
StoreWrite(q) ==
    /\ q \in writing
    /\ redis' = Stored(q)
    /\ writing' = writing \ {q} \/ UNCHANGED writing
    /\ UNCHANGED <<local_cache, hit_count, locals, admin>>

\* set() could not embed the prompt; its task ends with the error.
SetFails(q) ==
    /\ q \in writing
    /\ writing' = writing \ {q}
    /\ UNCHANGED <<redis, local_cache, hit_count, locals, admin>>

-----------------------------------------------------------------------------
(* invalidate(), clear_all(), time and restarts                             *)

Forget_HitsOnly(q) ==
    /\ hit_count' = [hit_count EXCEPT ![q] = 0]
    /\ UNCHANGED local_cache

\* The local tiers forget an invalidated query together.
Forget(q) ==
    /\ hit_count' = [hit_count EXCEPT ![q] = 0]
    /\ local_cache' = LocalWithout(q)

Invalidate(q) ==
    /\ invalidating = None
    /\ redis' = [redis EXCEPT ![q] = Absent]
    /\ invalidating' = q
    /\ UNCHANGED <<writing, local_cache, hit_count, locals, clearing>>

InvalidateLocal ==
    /\ invalidating # None
    /\ Forget(invalidating)
    /\ invalidating' = None
    /\ UNCHANGED <<redis, writing, locals, clearing>>

\* KEYS lists the keys and DELETE removes those: what was stored in between is
\* kept, everything when redis fails.
ClearAll ==
    /\ ~ clearing /\ clearing' = TRUE
    /\ \E kept \in SUBSET Queries :
          redis' = [q \in Queries |-> IF q \in kept THEN redis[q] ELSE Absent]
    /\ UNCHANGED <<writing, local_cache, hit_count, locals, invalidating>>

\* On the reply, or the error, the local tiers are cleared.
ClearLocal ==
    /\ clearing /\ clearing' = FALSE
    /\ local_cache' = <<>>
    /\ hit_count' = [q \in Queries |-> 0]
    /\ UNCHANGED <<redis, writing, locals, invalidating>>

\* local_cache_ttl passes for the oldest entry that has not outlived it.
LocalEntryAges ==
    /\ \E i \in DOMAIN local_cache :
          /\ local_cache[i].fresh
          /\ \A j \in 1 .. i - 1 : ~ local_cache[j].fresh
          /\ local_cache' = [local_cache EXCEPT ![i].fresh = FALSE]
    /\ UNCHANGED <<redis, writing, hit_count, locals, admin>>

\* The worker process ends and another takes its place.
Restart ==
    /\ writing' = {} /\ local_cache' = <<>>
    /\ hit_count' = [q \in Queries |-> 0]
    /\ pc' = [t \in Requests |-> "idle"]
    /\ query' = [t \in Requests |-> None]
    /\ tier' = [t \in Requests |-> "none"]
    /\ answer' = [t \in Requests |-> None]
    /\ invalidating' = None /\ clearing' = FALSE
    /\ UNCHANGED redis

RequestStep(t) ==
    \/ SemanticTier(t) \/ CountHit(t) \/ TouchAccessed(t) \/ CallLLM(t)
    \/ \E q \in Queries : Lookup(t, q)

Next ==
    \/ \E t \in Requests : RequestStep(t)
    \/ \E q \in Queries : \/ StoreWrite(q) \/ SetFails(q)
                          \/ OtherWorkerStores(q) \/ Expire(q) \/ Invalidate(q)
    \/ InvalidateLocal \/ ClearAll \/ ClearLocal \/ LocalEntryAges \/ Restart

Spec == Init /\ [][Next]_vars

-----------------------------------------------------------------------------
\* Every answer in redis has a time to live, also one stored over a key that a
\* hit counter had created without one.
AnswersExpire == \A q \in Queries : Answered(q) => redis[q].expires

\* No drift: what a request is served, and what local_cache keeps to serve
\* later, was generated for a prompt similar to the one asked.  A semantic hit
\* copies an answer under another prompt, in local_cache only, so similarity is
\* never chained.
NoDrift ==
    /\ \A t \in Requests :
          answer[t] # None => <<query[t], answer[t]>> \in Similar
    /\ \A i \in DOMAIN local_cache :
          <<local_cache[i].query, local_cache[i].response>> \in Similar

\* A query in local_cache has popular_at hits since it was last invalidated: a
\* lookup in flight during the invalidation does not bring it back by itself.
LocalIsPopular ==
    \A i \in DOMAIN local_cache : hit_count[local_cache[i].query] >= popular_at

\* The eviction keeps local_cache within its size, one entry per query, under
\* promotions of the same query by several lookups.
LocalBounded ==
    /\ Len(local_cache) <= local_cache_size
    /\ \A i, j \in DOMAIN local_cache :
          local_cache[i].query = local_cache[j].query => i = j

\* "Redis handles TTL expiry automatically, so no manual cleanup is needed"
\* (redis_client.py:312): every key the cache has made will expire.
EveryKeyExpires == \A q \in Queries : redis[q] # Absent => redis[q].expires
=============================================================================
