-------------------------- MODULE SemanticCacheProofs --------------------------
(***************************************************************************)
(* SemanticCache for any prompts, similarity, number of requests and sizes *)
(* of local_cache: its type, and that answers expire, do not drift and are *)
(* kept locally only while popular, in one bounded cache.                  *)
(***************************************************************************)
EXTENDS SemanticCache, SequenceTheorems, TLAPS

(* The inductive invariant, one part for each of redis, local_cache and the *)
(* requests.                                                                *)

\* redis keeps no answer under another prompt than its own: only local_cache does.
OwnAnswers == \A q \in Queries : Answered(q) => redis[q].response = q

RedisInv == redis \in [Queries -> Hash \cup {Absent}] /\ OwnAnswers /\ AnswersExpire

LocalInv ==
    /\ local_cache \in Seq(LocalEntry)
    /\ hit_count \in [Queries -> 0 .. popular_at]
    /\ \A i \in DOMAIN local_cache :
          <<local_cache[i].query, local_cache[i].response>> \in Similar
    /\ LocalIsPopular /\ LocalBounded

\* A request has a prompt from its lookup on, and an answer while it counts the
\* hit and at no other time.
HoldsWhatItNeeds ==
    \A t \in Requests :
        /\ pc[t] # "idle" => query[t] \in Queries
        /\ answer[t] # None <=> pc[t] \in {"hincrby", "hset"}

RequestInv ==
    /\ pc \in [Requests -> {"idle", "search", "hincrby", "hset", "llm"}]
    /\ query \in [Requests -> Queries \cup {None}]
    /\ tier \in [Requests -> {"none", "exact or l1", "semantic"}]
    /\ answer \in [Requests -> Queries \cup {None}]
    /\ HoldsWhatItNeeds
    /\ \A t \in Requests : answer[t] # None => <<query[t], answer[t]>> \in Similar

IInv ==
    /\ RedisInv /\ LocalInv /\ RequestInv
    /\ writing \subseteq Queries
    /\ invalidating \in Queries \cup {None} /\ clearing \in BOOLEAN

-----------------------------------------------------------------------------
(* redis: what the commands leave in a hash.                                *)

LEMMA StoredKeeps ==
  ASSUME RedisInv, NEW q \in Queries, redis' = Stored(q)
  PROVE  RedisInv'
BY CacheAssumption DEF RedisInv, Stored, OwnAnswers, AnswersExpire, Answered, Hash

LEMMA TouchedKeeps ==
  ASSUME RedisInv, NEW q \in Queries, redis' = Touched(q)
  PROVE  RedisInv'
BY CacheAssumption DEF RedisInv, Touched, OwnAnswers, AnswersExpire, Answered, Hash

\* Keys that go, by expiry or deletion, take what was stated of them along.
LEMMA DeletedKeeps ==
  ASSUME RedisInv, NEW kept \in SUBSET Queries,
         redis' = [q \in Queries |-> IF q \in kept THEN redis[q] ELSE Absent]
  PROVE  RedisInv'
BY DEF RedisInv, OwnAnswers, AnswersExpire, Answered, Hash

-----------------------------------------------------------------------------
(* local_cache: what removing an entry and evicting the oldest leave.       *)

OneEach(s) == \A i, j \in DOMAIN s : s[i].query = s[j].query => i = j

\* s is an entry list with one entry per query, all of them entries of t.
Within(s, t) ==
    /\ s \in Seq(LocalEntry) /\ OneEach(s) /\ Len(s) <= Len(t)
    /\ \A i \in DOMAIN s : \E j \in DOMAIN t : s[i] = t[j]

LEMMA EntryOf ==
  ASSUME NEW s \in Seq(LocalEntry), NEW i \in DOMAIN s
  PROVE  s[i] \in LocalEntry /\ s[i].query \in Queries
<1>1. s[i] \in LocalEntry
  BY ElementOfSeq, LenProperties
<1> QED  BY <1>1 DEF LocalEntry

\* The two ends of an entry list.
LEMMA Front ==
  ASSUME NEW s \in Seq(LocalEntry), NEW k \in 0 .. Len(s)
  PROVE  /\ SubSeq(s, 1, k) \in Seq(LocalEntry) /\ Len(SubSeq(s, 1, k)) = k
         /\ \A i \in 1 .. k : SubSeq(s, 1, k)[i] = s[i]
<1>1. Len(s) \in Nat /\ \A i \in 1 .. Len(s) : s[i] \in LocalEntry
  BY LenProperties
<1>2. \A i \in 1 .. k : s[i] \in LocalEntry
  BY <1>1
<1>3. /\ SubSeq(s, 1, k) \in Seq(LocalEntry)
      /\ Len(SubSeq(s, 1, k)) = IF 1 <= k THEN k - 1 + 1 ELSE 0
      /\ \A i \in 1 .. k - 1 + 1 : SubSeq(s, 1, k)[i] = s[1 + i - 1]
  BY <1>1, <1>2, SubSeqProperties
<1>4. \A i \in 1 .. k : i \in 1 .. k - 1 + 1 /\ 1 + i - 1 = i
  BY <1>1
<1> QED  BY <1>1, <1>3, <1>4

LEMMA Back ==
  ASSUME NEW s \in Seq(LocalEntry), NEW k \in 0 .. Len(s)
  PROVE  LET b == SubSeq(s, k + 1, Len(s))
         IN  /\ b \in Seq(LocalEntry) /\ Len(b) = Len(s) - k
             /\ \A i \in 1 .. Len(s) - k : b[i] = s[k + i]
<1> DEFINE n == Len(s)
           b == SubSeq(s, k + 1, n)
<1>1. n \in Nat /\ \A i \in 1 .. n : s[i] \in LocalEntry
  BY LenProperties
<1>2. k \in Nat /\ k <= n /\ \A i \in k + 1 .. n : s[i] \in LocalEntry
  BY <1>1
<1>3. /\ b \in Seq(LocalEntry)
      /\ Len(b) = IF k + 1 <= n THEN n - (k + 1) + 1 ELSE 0
      /\ \A i \in 1 .. n - (k + 1) + 1 : b[i] = s[(k + 1) + i - 1]
  BY <1>1, <1>2, SubSeqProperties
<1> HIDE DEF b, n
<1>4. n - (k + 1) + 1 = n - k /\ \A i \in 1 .. n - k : (k + 1) + i - 1 = k + i
  BY <1>1, <1>2
<1>5. Len(b) = n - k
  BY <1>1, <1>2, <1>3
<1>6. \A i \in 1 .. n - k : b[i] = s[k + i]
  BY <1>3, <1>4
<1> QED  BY <1>3, <1>5, <1>6 DEF b, n

\* A list that shows some of t's entries, each once, is within t.
LEMMA Selection ==
  ASSUME NEW t \in Seq(LocalEntry), OneEach(t), NEW s \in Seq(LocalEntry),
         Len(s) <= Len(t), NEW f \in [1 .. Len(s) -> 1 .. Len(t)],
         \A i, j \in 1 .. Len(s) : f[i] = f[j] => i = j,
         \A i \in 1 .. Len(s) : s[i] = t[f[i]]
  PROVE  Within(s, t)
<1>1. DOMAIN s = 1 .. Len(s) /\ DOMAIN t = 1 .. Len(t)
  BY LenProperties
<1>2. \A i, j \in 1 .. Len(s) : s[i].query = s[j].query => f[i] = f[j]
  BY <1>1 DEF OneEach
<1>3. OneEach(s)
  BY <1>1, <1>2 DEF OneEach
<1> QED  BY <1>1, <1>3 DEF Within

\* Without q, the cache keeps only its own other entries.
LEMMA WithoutOne ==
  ASSUME local_cache \in Seq(LocalEntry), OneEach(local_cache), NEW q
  PROVE  /\ Within(LocalWithout(q), local_cache)
         /\ \A i \in DOMAIN LocalWithout(q) : LocalWithout(q)[i].query # q
<1> DEFINE at == {i \in DOMAIN local_cache : local_cache[i].query = q}
           k == CHOOSE j \in at : TRUE
           n == Len(local_cache)
           front == SubSeq(local_cache, 1, k - 1)
           back == SubSeq(local_cache, k + 1, n)
<1>1. n \in Nat /\ DOMAIN local_cache = 1 .. n
  BY LenProperties
<1>2. CASE at = {}
  <2>1. LocalWithout(q) = local_cache
    BY <1>2 DEF LocalWithout
  <2> QED  BY <2>1, <1>1, <1>2 DEF Within
<1>3. CASE at # {}
  <2>1. k \in 1 .. n /\ local_cache[k].query = q
    BY <1>3, <1>1
  <2>2. LocalWithout(q) = front \o back
    BY <1>3 DEF LocalWithout
  <2> HIDE DEF k
  <2>3. /\ front \in Seq(LocalEntry) /\ Len(front) = k - 1
        /\ \A i \in 1 .. k - 1 : front[i] = local_cache[i]
    <3>1. k - 1 \in 0 .. n
      BY <2>1, <1>1
    <3> QED  BY <3>1, Front
  <2>4. /\ back \in Seq(LocalEntry) /\ Len(back) = n - k
        /\ \A i \in 1 .. n - k : back[i] = local_cache[k + i]
    <3>1. k \in 0 .. n
      BY <2>1, <1>1
    <3> QED  BY <3>1, Back
  <2> HIDE DEF front, back
  <2> DEFINE rest == front \o back
             f == [i \in 1 .. Len(rest) |-> IF i < k THEN i ELSE i + 1]
  <2>5. /\ rest \in Seq(LocalEntry) /\ Len(rest) = (k - 1) + (n - k)
        /\ \A i \in 1 .. (k - 1) + (n - k) :
              rest[i] = IF i <= k - 1 THEN front[i] ELSE back[i - (k - 1)]
    <3>1. /\ rest \in Seq(LocalEntry) /\ Len(rest) = Len(front) + Len(back)
          /\ \A i \in 1 .. Len(front) + Len(back) :
                rest[i] = IF i <= Len(front) THEN front[i] ELSE back[i - Len(front)]
      BY <2>3, <2>4, ConcatProperties
    <3> HIDE DEF rest
    <3> QED  BY <3>1, <2>3, <2>4
  <2> HIDE DEF rest
  <2>6. Len(rest) = n - 1 /\ n - 1 \in Nat
    BY <2>1, <2>5, <1>1
  <2>7. f \in [1 .. Len(rest) -> 1 .. n] /\ \A i \in 1 .. Len(rest) : f[i] # k
    BY <2>1, <2>6, <1>1
  <2>8. \A i, j \in 1 .. Len(rest) : f[i] = f[j] => i = j
    BY <2>1, <2>6, <1>1
  <2>9. ASSUME NEW i \in 1 .. Len(rest)
        PROVE  rest[i] = local_cache[f[i]]
    <3>1. i \in Int /\ i \in 1 .. (k - 1) + (n - k)
      BY <2>5, <2>6
    <3>2. CASE i < k
      BY <3>1, <3>2, <2>1, <2>3, <2>5, <1>1
    <3>3. CASE ~ (i < k)
      <4>1. i - (k - 1) \in 1 .. n - k /\ k + (i - (k - 1)) = i + 1
        BY <3>1, <3>3, <2>1, <1>1
      <4>2. rest[i] = back[i - (k - 1)]
        BY <3>1, <3>3, <2>1, <2>5
      <4> QED  BY <4>1, <4>2, <3>3, <2>4
    <3> QED  BY <3>2, <3>3
  <2> HIDE DEF f
  <2>10. Within(rest, local_cache)
    BY <2>5, <2>6, <2>7, <2>8, <2>9, <1>1, Selection, SMTT(30)
  <2>11. \A i \in DOMAIN rest : rest[i].query # q
    <3>1. DOMAIN rest = 1 .. Len(rest)
      BY <2>5, LenProperties
    <3>2. \A i \in 1 .. Len(rest) : local_cache[f[i]].query # local_cache[k].query
      BY <2>1, <2>7, <1>1 DEF OneEach
    <3> QED  BY <3>1, <3>2, <2>1, <2>9
  <2> QED  BY <2>2, <2>10, <2>11 DEF rest
<1> QED  BY <1>2, <1>3

\* Eviction brings a cache that has grown by one back to its size.
LEMMA EvictBounds ==
  ASSUME NEW s \in Seq(LocalEntry), OneEach(s), Len(s) <= local_cache_size + 1
  PROVE  Within(Evict(s), s) /\ Len(Evict(s)) <= local_cache_size
<1> DEFINE k == remove_count
           rest == SubSeq(s, k + 1, Len(s))
<1>1. Len(s) \in Nat /\ DOMAIN s = 1 .. Len(s)
  BY LenProperties
<1>2. CASE Len(s) > local_cache_size
  <2>1. Evict(s) = rest
    BY <1>2 DEF Evict
  <2>2. k \in 1 .. Len(s)
    BY <1>1, <1>2, CacheAssumption
  <2>3. /\ rest \in Seq(LocalEntry) /\ Len(rest) = Len(s) - k
        /\ \A i \in 1 .. Len(s) - k : rest[i] = s[k + i]
    <3>1. k \in 0 .. Len(s)
      BY <2>2
    <3> QED  BY <3>1, Back
  <2> DEFINE f == [i \in 1 .. Len(rest) |-> k + i]
  <2> HIDE DEF rest, k
  <2>4. /\ f \in [1 .. Len(rest) -> 1 .. Len(s)]
        /\ \A i, j \in 1 .. Len(rest) : f[i] = f[j] => i = j
    BY <2>2, <2>3, <1>1
  <2>5. \A i \in 1 .. Len(rest) : rest[i] = s[f[i]]
    BY <2>3
  <2> HIDE DEF f
  <2>6. Len(rest) <= Len(s) /\ Len(rest) <= local_cache_size
    BY <2>2, <2>3, <1>1, CacheAssumption
  <2>7. Within(rest, s)
    BY <2>3, <2>4, <2>5, <2>6, Selection
  <2> QED  BY <2>1, <2>6, <2>7
<1>3. CASE ~ (Len(s) > local_cache_size)
  BY <1>1, <1>3, CacheAssumption DEF Evict, Within
<1> QED  BY <1>2, <1>3

\* Forgetting a query, with its hits, keeps what is stated of the others.
LEMMA ForgetKeeps ==
  ASSUME LocalInv, NEW q \in Queries, Forget(q)
  PROVE  LocalInv'
<1>1. /\ Within(local_cache', local_cache)
      /\ \A i \in DOMAIN local_cache' : local_cache'[i].query # q
  BY WithoutOne DEF LocalInv, LocalBounded, OneEach, Forget
<1>2. hit_count' \in [Queries -> 0 .. popular_at]
  BY CacheAssumption DEF LocalInv, Forget
<1>3. \A p \in Queries : p # q => hit_count'[p] = hit_count[p]
  BY DEF LocalInv, Forget
<1>4. \A i \in DOMAIN local_cache' :
         /\ local_cache'[i].query \in Queries
         /\ \E j \in DOMAIN local_cache : local_cache'[i] = local_cache[j]
  BY <1>1, EntryOf DEF Within
<1>5. LocalIsPopular'
  BY <1>1, <1>3, <1>4 DEF LocalInv, LocalIsPopular
<1>6. Len(local_cache') <= local_cache_size
  <2>1. Len(local_cache') \in Nat /\ Len(local_cache) \in Nat
    BY <1>1, LenProperties DEF Within, LocalInv
  <2> QED  BY <2>1, <1>1, CacheAssumption DEF Within, LocalInv, LocalBounded
<1> QED  BY <1>1, <1>2, <1>4, <1>5, <1>6 DEF LocalInv, LocalBounded, Within, OneEach

\* One more hit makes no query less popular.
LEMMA HitCounted ==
  ASSUME LocalInv, NEW q \in Queries,
         hit_count' = [hit_count EXCEPT ![q] = IF @ < popular_at THEN @ + 1 ELSE @]
  PROVE  /\ hit_count' \in [Queries -> 0 .. popular_at]
         /\ \A p \in Queries : hit_count[p] <= hit_count'[p]
         /\ PromotionDue(q) => hit_count'[q] = popular_at
<1>1. popular_at \in Nat \ {0} /\ hit_count \in [Queries -> 0 .. popular_at]
  BY CacheAssumption DEF LocalInv
<1> QED  BY <1>1 DEF PromotionDue

\* The promotion of a popular query, an older entry of it included.
LEMMA PromotedKeeps ==
  ASSUME LocalInv, NEW q \in Queries, NEW r \in Queries, <<q, r>> \in Similar,
         PromotionDue(q), local_cache' = Promoted(q, r),
         hit_count' = [hit_count EXCEPT ![q] = IF @ < popular_at THEN @ + 1 ELSE @]
  PROVE  LocalInv'
<1> DEFINE others == LocalWithout(q)
           e == [query |-> q, response |-> r, fresh |-> TRUE]
           grown == Append(others, e)
<1>1. Within(others, local_cache) /\ \A i \in DOMAIN others : others[i].query # q
  BY WithoutOne DEF LocalInv, LocalBounded, OneEach
<1>2. local_cache' = Evict(grown)
  BY DEF Promoted
<1> HIDE DEF others
<1>3. e \in LocalEntry /\ e.query = q /\ e.response = r
  BY DEF LocalEntry
<1> HIDE DEF e
<1>4. Len(others) \in Nat /\ DOMAIN others = 1 .. Len(others)
  BY <1>1, LenProperties DEF Within
<1>5. /\ grown \in Seq(LocalEntry) /\ Len(grown) = Len(others) + 1
      /\ \A i \in 1 .. Len(others) : grown[i] = others[i]
      /\ grown[Len(others) + 1] = e
  BY <1>1, <1>3, AppendProperties DEF Within
<1>6. DOMAIN grown = 1 .. Len(others) + 1
  BY <1>5, LenProperties
<1> HIDE DEF grown
<1>7. OneEach(grown)
  BY <1>1, <1>3, <1>4, <1>5, <1>6 DEF Within, OneEach
<1>8. Len(grown) <= local_cache_size + 1
  <2>1. Len(local_cache) \in Nat
    BY LenProperties DEF LocalInv
  <2> QED  BY <2>1, <1>1, <1>4, <1>5, CacheAssumption DEF Within, LocalInv, LocalBounded
<1>9. Within(local_cache', grown) /\ Len(local_cache') <= local_cache_size
  BY <1>2, <1>5, <1>7, <1>8, EvictBounds
<1>10. \A p \in DOMAIN grown :
          \/ grown[p] = e
          \/ \E j \in DOMAIN local_cache : grown[p] = local_cache[j]
  BY <1>1, <1>4, <1>5, <1>6 DEF Within
<1>11. \A i \in DOMAIN local_cache' :
          /\ local_cache'[i] \in LocalEntry
          /\ \/ local_cache'[i] = e
             \/ \E j \in DOMAIN local_cache : local_cache'[i] = local_cache[j]
  BY <1>9, <1>10, EntryOf DEF Within
<1>12. /\ hit_count' \in [Queries -> 0 .. popular_at]
       /\ \A p \in Queries : hit_count[p] <= hit_count'[p]
       /\ hit_count'[q] = popular_at
  BY HitCounted
<1>13. LocalIsPopular'
  <2> SUFFICES ASSUME NEW i \in DOMAIN local_cache'
               PROVE  hit_count'[local_cache'[i].query] >= popular_at
    BY DEF LocalIsPopular
  <2>1. CASE local_cache'[i] = e
    BY <2>1, <1>3, <1>12, CacheAssumption
  <2>2. CASE \E j \in DOMAIN local_cache : local_cache'[i] = local_cache[j]
    <3>1. local_cache'[i].query \in Queries
      BY <1>11 DEF LocalEntry
    <3>2. hit_count[local_cache'[i].query] >= popular_at
      BY <2>2 DEF LocalInv, LocalIsPopular
    <3> QED  BY <3>1, <3>2, <1>12, CacheAssumption DEF LocalInv
  <2> QED  BY <2>1, <2>2, <1>11
<1>14. \A i \in DOMAIN local_cache' :
          <<local_cache'[i].query, local_cache'[i].response>> \in Similar
  BY <1>3, <1>11 DEF LocalInv
<1> QED  BY <1>9, <1>12, <1>13, <1>14 DEF LocalInv, LocalBounded, Within, OneEach

\* Serving a hit, with the promotion or without.
LEMMA ServeKeepsLocal ==
  ASSUME LocalInv, RequestInv, NEW t \in Requests, pc[t] \in {"hincrby", "hset"}, Serve(t)
  PROVE  LocalInv'
<1>1. /\ query[t] \in Queries /\ answer[t] \in Queries
      /\ <<query[t], answer[t]>> \in Similar
  BY DEF RequestInv, HoldsWhatItNeeds
<1>2. CASE tier[t] = "semantic" /\ PromotionDue(query[t])
  BY <1>1, <1>2, PromotedKeeps DEF Serve
<1>3. CASE ~ (tier[t] = "semantic" /\ PromotionDue(query[t]))
  <2>1. UNCHANGED local_cache
    BY <1>3 DEF Serve
  <2>2. /\ hit_count' \in [Queries -> 0 .. popular_at]
        /\ \A p \in Queries : hit_count[p] <= hit_count'[p]
    BY <1>1, HitCounted DEF Serve
  <2>3. \A i \in DOMAIN local_cache : local_cache[i].query \in Queries
    BY EntryOf DEF LocalInv
  <2>4. LocalIsPopular'
    BY <2>1, <2>2, <2>3, CacheAssumption DEF LocalInv, LocalIsPopular
  <2> QED  BY <2>1, <2>2, <2>4 DEF LocalInv, LocalBounded
<1> QED  BY <1>2, <1>3

\* An entry that outlives its local ttl stays where it is.
LEMMA AgesKeepsLocal ==
  ASSUME LocalInv, LocalEntryAges
  PROVE  LocalInv'
<1>1. PICK k \in DOMAIN local_cache :
         local_cache' = [local_cache EXCEPT ![k].fresh = FALSE]
  BY DEF LocalEntryAges
<1>2. DOMAIN local_cache = 1 .. Len(local_cache) /\ local_cache[k] \in LocalEntry
  BY EntryOf, LenProperties DEF LocalInv
<1> DEFINE e == [local_cache[k] EXCEPT !.fresh = FALSE]
<1>3. /\ e \in LocalEntry
      /\ e.query = local_cache[k].query /\ e.response = local_cache[k].response
  BY <1>2 DEF LocalEntry
<1>4. local_cache' = [local_cache EXCEPT ![k] = e]
  BY <1>1
<1> HIDE DEF e
<1>5. /\ local_cache' \in Seq(LocalEntry) /\ Len(local_cache') = Len(local_cache)
      /\ \A j \in 1 .. Len(local_cache) :
            local_cache'[j] = IF j = k THEN e ELSE local_cache[j]
  BY <1>2, <1>3, <1>4, ExceptSeq DEF LocalInv
<1>6. /\ DOMAIN local_cache' = DOMAIN local_cache
      /\ \A j \in DOMAIN local_cache :
            /\ local_cache'[j].query = local_cache[j].query
            /\ local_cache'[j].response = local_cache[j].response
  BY <1>2, <1>3, <1>5, LenProperties
<1>7. UNCHANGED hit_count
  BY DEF LocalEntryAges
<1> QED  BY <1>5, <1>6, <1>7 DEF LocalInv, LocalIsPopular, LocalBounded

\* clear_all() and a new process start with empty local tiers.
LEMMA ClearedLocal ==
  ASSUME local_cache' = <<>>, hit_count' = [q \in Queries |-> 0]
  PROVE  LocalInv'
BY CacheAssumption DEF LocalInv, LocalIsPopular, LocalBounded

-----------------------------------------------------------------------------
(* The requests.                                                            *)

LEMMA HitKeeps ==
  ASSUME RequestInv, NEW t \in Requests, NEW q \in Queries, NEW r \in Queries,
         <<q, r>> \in Similar, NEW level \in {"exact or l1", "semantic"},
         Hit(t, q, level, r)
  PROVE  RequestInv'
BY CacheAssumption DEF RequestInv, HoldsWhatItNeeds, Hit

LEMMA MissKeeps ==
  ASSUME RequestInv, NEW t \in Requests, NEW q \in Queries,
         NEW label \in {"search", "llm"}, answer[t] = None, Miss(t, q, label)
  PROVE  RequestInv'
BY DEF RequestInv, HoldsWhatItNeeds, Miss

LEMMA DoneKeeps ==
  ASSUME RequestInv, NEW t \in Requests, Done(t)
  PROVE  RequestInv'
BY DEF RequestInv, HoldsWhatItNeeds, Done

LEMMA LookupKeeps ==
  ASSUME RedisInv, LocalInv, RequestInv, NEW t \in Requests, NEW q \in Queries, Lookup(t, q)
  PROVE  RequestInv'
<1>1. CASE Answered(q) /\ Hit(t, q, "exact or l1", redis[q].response)
  <2>1. redis[q].response = q /\ <<q, q>> \in Similar
    BY <1>1, CacheAssumption DEF RedisInv, OwnAnswers
  <2> QED  BY <1>1, <2>1, HitKeeps
<1>2. ASSUME NEW i \in FreshLocally(q), Hit(t, q, "exact or l1", local_cache[i].response)
      PROVE  RequestInv'
  <2>1. <<q, local_cache[i].response>> \in Similar
    BY DEF FreshLocally, LocalInv
  <2>2. local_cache[i].response \in Queries
    BY <2>1, CacheAssumption
  <2> QED  BY <1>2, <2>1, <2>2, HitKeeps
<1>3. CASE Miss(t, q, "search")
  <2>1. answer[t] = None
    BY DEF Lookup, RequestInv, HoldsWhatItNeeds
  <2> QED  BY <1>3, <2>1, MissKeeps
<1> QED  BY <1>1, <1>2, <1>3 DEF Lookup

LEMMA SemanticTierKeeps ==
  ASSUME RedisInv, RequestInv, NEW t \in Requests, SemanticTier(t)
  PROVE  RequestInv'
<1>1. query[t] \in Queries /\ answer[t] = None
  BY DEF SemanticTier, RequestInv, HoldsWhatItNeeds
<1>2. ASSUME NEW m \in Matches(query[t]), Hit(t, query[t], "semantic", redis[m].response)
      PROVE  RequestInv'
  <2>1. m \in Queries /\ redis[m].response = m /\ <<query[t], m>> \in Similar
    BY DEF Matches, RedisInv, OwnAnswers
  <2> QED  BY <1>1, <1>2, <2>1, HitKeeps
<1>3. CASE Miss(t, query[t], "llm")
  BY <1>1, <1>3, MissKeeps
<1>4. CASE Done(t)
  BY <1>4, DoneKeeps
<1> QED  BY <1>2, <1>3, <1>4 DEF SemanticTier

-----------------------------------------------------------------------------
(* The steps.                                                               *)

LEMMA InitIInv == Init => IInv
<1> SUFFICES ASSUME Init PROVE IInv
  OBVIOUS
<1>1. RedisInv
  BY DEF Init, RedisInv, OwnAnswers, AnswersExpire, Answered
<1>2. LocalInv
  BY CacheAssumption DEF Init, LocalInv, LocalIsPopular, LocalBounded
<1>3. RequestInv
  BY DEF Init, RequestInv, HoldsWhatItNeeds
<1> QED  BY <1>1, <1>2, <1>3 DEF Init, IInv

\* The steps of one request.
LEMMA RequestStepIInv ==
  ASSUME IInv, NEW t \in Requests, RequestStep(t)
  PROVE  IInv'
<1> USE DEF IInv, admin
<1>1. ASSUME NEW q \in Queries, Lookup(t, q) PROVE IInv'
  <2>1. RequestInv'
    BY <1>1, LookupKeeps
  <2> QED  BY <1>1, <2>1 DEF Lookup, RedisInv, OwnAnswers, AnswersExpire, Answered,
                LocalInv, LocalIsPopular, LocalBounded
<1>2. CASE SemanticTier(t)
  <2>1. RequestInv'
    BY <1>2, SemanticTierKeeps
  <2> QED  BY <1>2, <2>1 DEF SemanticTier, RedisInv, OwnAnswers, AnswersExpire, Answered,
                LocalInv, LocalIsPopular, LocalBounded
<1>3. CASE CountHit(t)
  <2>1. query[t] \in Queries
    BY <1>3 DEF CountHit, RequestInv, HoldsWhatItNeeds
  <2>2. CASE /\ redis' = Touched(query[t])
             /\ pc' = [pc EXCEPT ![t] = "hset"]
             /\ UNCHANGED <<query, tier, answer, local_cache, hit_count>>
    <3>1. RedisInv'
      BY <2>1, <2>2, TouchedKeeps
    <3>2. RequestInv'
      BY <1>3, <2>2 DEF CountHit, RequestInv, HoldsWhatItNeeds
    <3>3. LocalInv'
      BY <2>2 DEF LocalInv, LocalIsPopular, LocalBounded
    <3> QED  BY <1>3, <3>1, <3>2, <3>3 DEF CountHit
  <2>3. CASE UNCHANGED redis /\ Serve(t)
    <3>1. RedisInv'
      BY <2>3 DEF RedisInv, OwnAnswers, AnswersExpire, Answered
    <3>2. RequestInv'
      BY <2>3, DoneKeeps DEF Serve
    <3>3. LocalInv'
      BY <1>3, <2>3, ServeKeepsLocal DEF CountHit
    <3> QED  BY <1>3, <3>1, <3>2, <3>3 DEF CountHit
  <2> QED  BY <1>3, <2>2, <2>3 DEF CountHit
<1>4. CASE TouchAccessed(t)
  <2>1. query[t] \in Queries
    BY <1>4 DEF TouchAccessed, RequestInv, HoldsWhatItNeeds
  <2>2. UNCHANGED redis => RedisInv'
    BY DEF RedisInv, OwnAnswers, AnswersExpire, Answered
  <2>3. RedisInv'
    BY <1>4, <2>1, <2>2, TouchedKeeps DEF TouchAccessed
  <2>4. RequestInv' /\ LocalInv'
    BY <1>4, DoneKeeps, ServeKeepsLocal DEF TouchAccessed, Serve
  <2> QED  BY <1>4, <2>3, <2>4 DEF TouchAccessed
<1>5. CASE CallLLM(t)
  <2>1. query[t] \in Queries
    BY <1>5 DEF CallLLM, RequestInv, HoldsWhatItNeeds
  <2>2. RequestInv'
    BY <1>5, DoneKeeps DEF CallLLM
  <2> QED  BY <1>5, <2>1, <2>2 DEF CallLLM, RedisInv, OwnAnswers, AnswersExpire, Answered,
                LocalInv, LocalIsPopular, LocalBounded
<1> QED  BY <1>1, <1>2, <1>3, <1>4, <1>5 DEF RequestStep

\* The steps of the writes, of redis and of the other workers.
LEMMA KeyStepIInv ==
  ASSUME IInv, NEW q \in Queries,
         \/ StoreWrite(q) \/ SetFails(q)
         \/ OtherWorkerStores(q) \/ Expire(q) \/ Invalidate(q)
  PROVE  IInv'
<1> USE DEF IInv
<1>1. UNCHANGED <<local_cache, hit_count, locals>>
  BY DEF StoreWrite, SetFails, OtherWorkerStores, Expire, Invalidate
<1>2. LocalInv'
  BY <1>1 DEF LocalInv, LocalIsPopular, LocalBounded
<1>3. RequestInv'
  BY <1>1 DEF RequestInv, HoldsWhatItNeeds, locals
<1>4. /\ writing' \subseteq Queries
      /\ invalidating' \in Queries \cup {None} /\ clearing' \in BOOLEAN
  BY DEF StoreWrite, SetFails, OtherWorkerStores, Expire, Invalidate, admin
<1>5. CASE StoreWrite(q) \/ OtherWorkerStores(q)
  <2>1. RedisInv'
    BY <1>5, StoredKeeps DEF StoreWrite, OtherWorkerStores
  <2> QED  BY <1>2, <1>3, <1>4, <2>1
<1>6. CASE Expire(q) \/ Invalidate(q)
  <2>1. redis' = [redis EXCEPT ![q] = Absent]
    BY <1>6 DEF Expire, Invalidate
  <2>2. redis' = [p \in Queries |-> IF p \in Queries \ {q} THEN redis[p] ELSE Absent]
    BY <2>1 DEF RedisInv
  <2>3. RedisInv'
    BY <2>2, DeletedKeeps
  <2> QED  BY <1>2, <1>3, <1>4, <2>3
<1>7. CASE SetFails(q)
  <2>1. RedisInv'
    BY <1>7 DEF SetFails, RedisInv, OwnAnswers, AnswersExpire, Answered
  <2> QED  BY <1>2, <1>3, <1>4, <2>1
<1> QED  BY <1>5, <1>6, <1>7

\* The steps of the worker as a whole.
LEMMA WorkerStepIInv ==
  ASSUME IInv, InvalidateLocal \/ ClearAll \/ ClearLocal \/ LocalEntryAges \/ Restart
  PROVE  IInv'
<1> USE DEF IInv
<1>1. UNCHANGED redis => RedisInv'
  BY DEF RedisInv, OwnAnswers, AnswersExpire, Answered
<1>2. UNCHANGED locals => RequestInv'
  BY DEF RequestInv, HoldsWhatItNeeds, locals
<1>3. CASE InvalidateLocal
  <2>1. LocalInv'
    BY <1>3, ForgetKeeps DEF InvalidateLocal
  <2> QED  BY <1>1, <1>2, <1>3, <2>1 DEF InvalidateLocal
<1>4. CASE ClearAll
  <2>1. RedisInv'
    BY <1>4, DeletedKeeps DEF ClearAll
  <2>2. LocalInv'
    BY <1>4 DEF ClearAll, LocalInv, LocalIsPopular, LocalBounded
  <2> QED  BY <1>2, <1>4, <2>1, <2>2 DEF ClearAll
<1>5. CASE ClearLocal
  <2>1. LocalInv'
    BY <1>5, ClearedLocal DEF ClearLocal
  <2> QED  BY <1>1, <1>2, <1>5, <2>1 DEF ClearLocal
<1>6. CASE LocalEntryAges
  <2>1. LocalInv'
    BY <1>6, AgesKeepsLocal
  <2> QED  BY <1>1, <1>2, <1>6, <2>1 DEF LocalEntryAges, admin
<1>7. CASE Restart
  <2>1. LocalInv'
    BY <1>7, ClearedLocal DEF Restart
  <2>2. RequestInv'
    BY <1>7 DEF Restart, RequestInv, HoldsWhatItNeeds
  <2> QED  BY <1>1, <1>7, <2>1, <2>2 DEF Restart
<1> QED  BY <1>3, <1>4, <1>5, <1>6, <1>7

LEMMA NextIInv == IInv /\ [Next]_vars => IInv'
<1> SUFFICES ASSUME IInv, [Next]_vars PROVE IInv'
  OBVIOUS
<1>1. CASE UNCHANGED vars
  BY <1>1 DEF vars, locals, admin, IInv, RedisInv, OwnAnswers, AnswersExpire, Answered,
     LocalInv, LocalIsPopular, LocalBounded, RequestInv, HoldsWhatItNeeds
<1> QED  BY <1>1, RequestStepIInv, KeyStepIInv, WorkerStepIInv DEF Next

LEMMA Inductive == Spec => []IInv
  BY InitIInv, NextIInv, PTL DEF Spec

-----------------------------------------------------------------------------

\* Every variable of the cache keeps its type.
THEOREM TypeCorrect == Spec => []TypeOK
<1>1. IInv => TypeOK
  BY DEF IInv, RedisInv, LocalInv, RequestInv, TypeOK
<1> QED  BY <1>1, Inductive, PTL

\* No answer is kept in redis for ever, though hit counters may create keys
\* that are.
THEOREM AnswersHaveTTL == Spec => []AnswersExpire
<1>1. IInv => AnswersExpire
  BY DEF IInv, RedisInv
<1> QED  BY <1>1, Inductive, PTL

\* Whatever similarity is, and it need not be transitive, no tier serves an
\* answer that was generated for a prompt not similar to the one asked.
THEOREM SimilarityNotChained == Spec => []NoDrift
<1>1. IInv => NoDrift
  BY DEF IInv, LocalInv, RequestInv, NoDrift
<1> QED  BY <1>1, Inductive, PTL

\* local_cache holds popular queries only, also when a promotion meets an
\* invalidation.
THEOREM OnlyPopularLocal == Spec => []LocalIsPopular
<1>1. IInv => LocalIsPopular
  BY DEF IInv, LocalInv
<1> QED  BY <1>1, Inductive, PTL

\* local_cache has one entry per query and never outgrows its size, for every
\* size and any eviction of one entry or more.
THEOREM LocalSizeKept == Spec => []LocalBounded
<1>1. IInv => LocalBounded
  BY DEF IInv, LocalInv
<1> QED  BY <1>1, Inductive, PTL

=============================================================================
