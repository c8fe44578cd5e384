# TLA+ verification of the Semantic Caching Proxy

This directory specifies and model-checks the parts of the proxy whose correctness
depends on order and failure, and proves their safety properties: the circuit breaker, the
write-behind store, the semantic cache, the rate limiters, the embedding cache,
the start of workers around the index they share, the TTLs, the metrics, and the
request handlers that join them. The modules are translated from the code under
`src/app`; comments and README of the program are used only as claims to check.

## 1. Inventory

A deployment runs several uvicorn workers (four in the image, two replicas in
docker-compose), each a single-threaded asyncio process. All share one Redis
Stack and one Ollama. Within a worker only an `await` lets other requests run.

| Component (source) | State | Operations |
|---|---|---|
| Circuit breaker (`middleware/circuit_breaker.py`) | state, failure and success counts, last failure time, deque of failures; one per worker | `call` (two locked blocks around the await of the LLM), `_record_failure`, `_reset` |
| Write-behind store (`cache/redis_client.py`) | bounded asyncio queue, the worker's local batch, time of the last flush | `store_with_embedding_async`, `_batch_write_worker`, `store_batch`, `close` |
| Semantic cache (`cache/semantic_cache.py`) | L1 `local_cache`, `hit_count_cache`; hashes `cache:<md5>` in redis shared by all workers | `get` (exact, L1, vector search), `set`, `invalidate`, `clear_all`, warm-up |
| Distributed limiter (`middleware/rate_limiter.py`) | a sorted set per client in redis, with an expiry | `check` (Lua script), `dispatch` |
| Local limiters (same file) | tokens and last update; counters per second | `consume`, `allow_request` |
| Proxy handlers (`routes/proxy.py`) | the registry with the breaker; background `set` tasks | chat and batch completion |
| Ollama client (`llm/ollama_client.py`) | an HTTP client per request | `generate` with three attempts, `generate_batch` |
| Embedding generator (`llm/embedding.py`) | FIFO cache text -> vector | `generate`, `generate_batch` |
| TTL strategies (`cache/ttl_strategies.py`) | none / access times | `calculate`, `get_optimal_ttl` |
| Metrics (`utils/metrics.py`) | counters, latencies | `record_*`, `get_summary`, `reset` |
| Lifespan (`main.py`, `connect` and `_create_index` of `redis_client.py`, the warm-up) | the vector index in redis, shared by all workers | start, warm-up, end of a worker |
| Pools, logging, configuration, models, load test | construction only | - |

A chat request passes the limiter, looks its prompt up in the cache (which embeds
it at Ollama unless there is an exact or L1 hit), and on a miss calls
`generate` through the breaker. The answer goes back at once; a task of its own
embeds and enqueues it; the write-behind worker stores it in redis. A batch
request looks every prompt up and generates the misses with `generate_batch`,
without the breaker.

What is hard in it, and the properties that answer it (the full list, with lines,
is `hazards` in `PROJECT.json`):

* results of calls arrive late, when the breaker is in another state than the one
  that admitted them;
* a redis pipeline fails before it ran, or after, when only the reply was lost;
  the batch is retried behind newer writes; the worker is cancelled anywhere;
* a lookup holds an answer across awaits while keys expire, are invalidated, or
  are written by other workers;
* limiter scripts run in another order than the times they carry;
* every worker that starts drops the index of all and creates it again, and may
  fail or die in between;
* calls that share the embedding cache insert and evict what others have just
  found in it, and a batch of them fails in part;
* the clock a token bucket measures with is set back;
* Ollama fails in the lookup, in one of several generations, or for good, and
  clients give up in between.

## 2. Modules and how they follow the code

`map` in `PROJECT.json` gives the lines of every definition. A definition named
`Name_Variant` is a plausible bug of `Name`: substituted for it, the property
listed with it under `mutants` must fail. No specification refers to one.

**CircuitBreaker** has one action per locked block of `call`: `AdmitCall` is the
first, `Succeed` and `Fail` the second on either outcome, `Cancel` the
cancellation that runs neither. No block under `self.lock` awaits, so the lock is
never contended and each is one step. `Tick` is the wall clock, assumed
monotonic, counted up to `recovery_timeout`. `admitted` is a ghost: who is between
the two blocks. **BreakerProtocol** is the abstract breaker (trip, cool-down,
probe, unbroken run of successes), without calls or counts of failures;
CircuitBreaker implements it with `mode <- state`, `cooldown <- since_failure`
and the success count as streak. The protocol, like the code, does not ask which call
a success comes from: one of a call from before the trip counts in the streak of a
half-open circuit. **MCTestRequests** tells them apart, with the history `tested`.

**WriteBehind** has the queue with its blocked putters, the worker between its
awaits ("get", "storing", "sleep"), the flush test, pipelines that fail before or
after redis executed them, and `close`, including the cancellation that
`wait_for` of Python 3.11 swallows when an item has just arrived (`CloseSwallowed`;
the worker then goes on and `close` never returns). Ghosts: `accepted`, `applied`,
`failures`, `age`. **OrderedStore** is what it promises: accepted writes become
visible in order, prefix by prefix, and only the end of the worker loses any.

**SemanticCache** has one step per redis command a lookup carries something across:
the exact and L1 lookup, the search, HINCRBY, HSET. The answer to a prompt is named by
the prompt it was generated for; `Similar` is the threshold test. A hash in redis is
its answer and whether it has a time to live. Other workers store answers, keys
expire, redis calls fail as the code's `except` clauses take it, the worker restarts.
`invalidate` and `clear_all` are two steps each, what redis does and what is done
locally on its reply. The way of a write through queue and pipeline is one set
(`writing`); WriteBehind has its inside. Warm-up is such a write without a lookup.

**DistributedLimiter** has the script as one atomic operator on the sorted set,
between reading the time (`Send`) and its execution (`Check`), at most `MaxDelay`
later. Members of one instant (0.1 ms) collapse, because `math.random()` is seeded
alike in every script and the time is written with 14 digits. `admitted`, the history
of what was let through, numbers the requests of one instant, so that it has every one
of them although redis has one member. One clock stands for those of all replicas: one
that is behind another looks like a script that is late.

**ProxyHandler** composes the handlers with `CircuitBreaker` by `INSTANCE`: a chat
that misses takes the breaker's `AdmitCall`, and each way out of `generate` takes
`Succeed`, `Fail` or `Cancel`. Ollama is up, embeds only, or is down. The cache is
what a lookup can tell, and a `Prompt` stands for the wordings the cache may take
for one another. `patient` is the environment: from some time on nobody abandons
a request (only the liveness hypotheses read it, and the guard of `Cancelled`).

**TokenBucket** is `consume` and `dispatch` in local mode, for one client (clients
have a bucket each). Tokens are counted in fractions that make the refill exact;
`ClockSetBack` lets the clock and true time, `now`, differ; a correction forward, which
would be worth tokens, is left out. **SlidingWindowCounter**
is `allow_request`, called at any tick of a second of which it sees the number only.
Nothing in the program uses it.

**EmbeddingCache** has the calls of `generate` (a look into the cache, the post, the
insertion with its eviction, the second attempt from the top) and of `generate_batch`
in chunks: placeholders, one task per missing text, the semaphore, the stitching, and
a `gather` that raises while the other tasks go on. The dict is the sequence of its
keys in insertion order; a vector is named by its text.

**Lifespan** has a worker's start, one step per command to redis (PING, FT.DROPINDEX,
FT.CREATE), each of which may fail before or after redis ran it, its warm-up, and its
end at any point. Redis indexes old hashes in the background (`Scan`) and new ones at
once. `calm` is the environment: from then on redis stays up, workers do not die, and
those that are down are started again. uvicorn 0.24 (`requirements.txt:52`) does not
restart a worker that died: it is the container's restart that `calm` stands for.

**Metrics** has the counters and the points at which lookups and requests record
something, some before and some after an await; `served`, `missed` and `carried` are
its history. **TTLCalculator** is `calculate`, a set of results where `int(x * 0.7)`
may be one less than the exact product for the rounding of floats. **AdaptiveTTL** is
what `AdaptiveTTLStrategy`, which nothing uses, learns.

**WorkerParts** (EmbeddingCache, Lifespan, Metrics, TTLCalculator, AdaptiveTTL) and
**MCRateLimiter** (the three limiters) put components that share no state side by
side, each under a name: `Init` chooses the one a behaviour is about, the others stand
still. The behaviours are those of each component alone. **MCRequestPath**
(SemanticCache and the limiters), **MCServing** (ProxyHandler and WriteBehind) and
**MCWorkerParts** (WorkerParts and CircuitBreaker) do the same for TLC's three passing
runs. **Positions** has what a list comprehension keeps, said by counting positions
instead of recursively, so that it can be proved about.

**MC\*** modules bound what is unbounded in guards and carry the bounds as
constants. **\*Proofs** modules hold the proofs (section 4), one for each of
CircuitBreaker, WriteBehind, SemanticCache, ProxyHandler, EmbeddingCache, the two
local limiters (LocalLimiterProofs), the distributed limiter with the composition of
the three (RateLimiterProofs), and WorkerParts with its other four components.

## 3. Runs

| Run | Question | States |
|---|---|---|
| `request_path` | cache: expiry, no drift, L1 bounded and popular; limiters: limits kept but for shared members, nothing forgotten, refusals end | 1.1 million |
| `serving` | proxy: breaker use, every request ends, an outage opens the breaker, its error texts go away; write-behind: order, completeness, promptness, refinement of OrderedStore | 281 000 |
| `worker_parts` | breaker: counts, protocol, recovery; embeddings in order and all ending, one index after any start-up, TTLs | 118 000 |
| `breaker_probes`, `breaker_tests`, `write_behind_inactivity`, `semantic_cache_keys`, `limiter_burst`, `limiter_shared`, `proxy_error_cached`, `proxy_outage`, `ttl_night` | nine statements of comments and docs that the code does not keep | - |

What the properties say stands in the comment above each. The deeper ones:
`ImplementsProtocol` (late failures do not extend the cool-down of an open circuit but
end a probe; a half-open one closes on an unbroken run of successes, late ones
included), `RecoversForGood`, `ImplementsOrderedStore` (under lost replies and close),
`SettlesWhenQuiet` (no tail of a burst is stranded), `NoDrift` (similarity is never
chained through L1), `ExcessIsShared` (an interval shorter than 60 s by the scripts'
delay sees more requests than the limit, over all replicas, only by those that share
the member of an earlier one; the delay is needed: a script that runs late can trim by
an earlier time, and is counted there), `BreakerInUse` (the proxy's steps on the
breaker variables are exactly CircuitBreaker's, so its theorems hold in the proxy),
`OutageOpensBreaker` (it opens and does not close again while generation stays away),
`ErrorsForgotten` (the error texts that batches store do not outlast an outage by more
than their time to live), `BurstAndRate` and `LockoutEnds` (of a bucket whose clock is
set back: never a token too many, and a refusal that lasts no longer than the minute
and the correction), `NoBoundaryBurst`, `BatchInOrder` (the placeholders of a chunk
match the new vectors although the cache changes meanwhile), `EveryCallEnds` (the
semaphore is released by every way out), `IndexForAll` and `SearchRecovers` (whoever
drops and creates the index when, all answers can be found in the end).

### Findings

1. `ProbeLimit`: `half_open_calls` is reset but never counted; all requests that
   arrive in the half-open state are admitted.
2. `FlushedAfterInactivity`: the last write of a burst waits for the 0.5 s of
   `wait_for`, not for 100 ms.
3. `EveryKeyExpires`: a semantic hit counts on the asked prompt's own key and
   creates it without a TTL. (Answers themselves always expire: `AnswersExpire`.)
4. `RefusedOnlyInSpike`: `burst` caps the whole window, so it and not
   `requests_per_minute` is the sustained rate with the default settings.
5. `OnlyAnswersCached`: the error text of a failed generation in a batch is stored
   and served as an answer.
6. `UnavailableOpensBreaker`: with Ollama unreachable requests fail while
   embedding, before the breaker, which never opens. When embedding works and
   generation does not, it does open: `OutageOpensBreaker`, run `serving`.
7. `ClosedByTestRequests`: late successes of calls from before the trip close a
   half-open circuit whose only test request is still on its way.
8. `EveryRequestCounted`: requests of one client in the same 0.1 ms are one member of
   the sorted set, so a window lets more through than the limit.
9. `NightIsMultiplied`: `22 <= time_of_day <= 6` holds at no hour, so the night's 1.5
   is never applied.

### Noted without a run

* `retry_after` of `SlidingWindowCounter` names the second in which the oldest bucket
  still counts; room comes one second later, while its comments call it "exactly how
  long to wait" and "the earliest point a new request would be accepted"
  (`rate_limiter.py:53, 86-87`). At the boundary it is 0. `RoomAfterRetry` says only that
  the wait ends with that second. Nothing uses the class.
* A chat hit counts twice in `cache_hits` (`semantic_cache.py:49, 62, 99` and
  `proxy.py:48`), a chat miss twice in `cache_misses`, a batch lookup once, while
  `metrics.py:15` says "how many times we served a response from cache". How far the
  counters can be off is proved (`CountedAtMostTwice`); no run states it as a property.
  `reset()` leaves `batch_writes`, though it "wipes everything back to zero"
  (`metrics.py:108`).
* `get_optimal_ttl` of `AdaptiveTTLStrategy`, which nothing calls and which is not
  modelled: it counts the hour before the last access, not "the last hour"
  (`ttl_strategies.py:99`), and for a base TTL above 12 hours its cap gives popular keys
  less than unpopular ones, against "More accesses = longer TTL" (line 74).
* With redis away every request fails in the limiter, although `rate_limiter.py:175`
  has a local fallback: it is used only when `lifespan` has set no limiter, which it
  always does.
* "We never re-embed the same text twice" (`embedding.py:15`) holds neither for
  concurrent misses nor after an eviction, and the batch generator has a cache of
  its own. The vectors are equal, so nothing goes wrong.
* A worker that dies between FT.DROPINDEX and FT.CREATE leaves the serving ones
  without an index until some worker starts again; their searches then all miss.

### Bounds

* breaker (`worker_parts`): three callers (one trips, one is late, one probes),
  threshold and probe count 2, so that every count has a value below, at and above its
  limit; at most five failures since a reset.
* write-behind (`serving`): queue and batch of two with two producers (full queue with
  a blocked put), three writes, two responses for one key, two failures in a row;
  `FlushInterval < GetTimeout < Backoff` as in the code (100 ms, 0.5 s, 1 s).
* semantic cache (`request_path`): a chain of three prompts whose ends are not
  similar, two concurrent lookups, promotion at two hits, L1 of one entry, one write
  on its way, one `invalidate` or `clear_all` at a time, which meets one lookup, in
  flight or begun meanwhile. The requests are symmetric; no liveness is checked there.
* limiters (`request_path`): two concurrent requests, two instants a tick, two
  requests an instant, burst below the rate, a horizon of two windows, past the expiry
  of the first key. Which of the two limits binds is a matter of the constants only.
  Bucket: two tokens, half a token a tick, two corrections of the clock, two and a
  quarter minutes. Counter: a window of two seconds of two ticks, three requests,
  three windows.
* the other parts (`worker_parts`): embeddings of three texts with a cache of two, one
  caller and a batch of four texts (one twice) in chunks of three with two permits, so
  that a text found in the cache can be gone before the chunk ends; two attempts as in
  the code. Three workers and two prompts around the index. Two requests and two
  recorded lookups between resets of the metrics. TTLs at both sides of every
  threshold, at the default base of an hour and at eight hours, which reaches the
  upper clamp; TLC's 32-bit integers bound the base. Adaptive TTL: windows of three
  ticks, seven accesses.
* proxy (`serving`): two clients that chat and send batches, three attempts, one class of
  prompts; chats begin while fewer than `MaxFailures = 2` failures are counted. A
  closed breaker has fewer, so nothing before the first trip is cut off, and the
  calls in flight carry the run on through trip, probe and recovery. The breaker
  alone, with more failures, is in `worker_parts`.

Deadlock is checked in all runs but `serving` and `write_behind_inactivity`, where
`close` ends the writer for good. The bounded clocks of the limiters leave requests
enabled.

### Fairness

* The event loop runs what is ready, so a step that needs nothing from outside is
  weakly fair (`PutResumes`, the worker's steps, `WriterTick`, `Tick`).
* Calls to Ollama end by the HTTP client's timeouts (60 s, 10 s to connect; 30 s
  for embeddings), so `Progress` of a request and the set tasks are weakly fair.
* Redis answers or drops the connection. The client sets no `socket_timeout`
  (`redis_client.py:29-37`): a redis that keeps a connection open without
  answering is outside of what the liveness properties say.
* EmbeddingCache: a post ends by its 30 s, tasks and batches that are ready run
  (`CallStep`, `BatchStep`). The semaphore is fair because it is a queue in the model
  as in asyncio, not by an assumption.
* Lifespan: redis answers a starting worker while it is up and goes on with its scan;
  a worker is started again only under `calm`, which is the hypothesis of
  `SearchRecovers`. Nothing is assumed before.
* Answers have a TTL, so `Expire` is weakly fair in ProxyHandler.
* Nothing is assumed of clients, except where a property says so: `Outage` assumes
  that clients go on chatting and stop cancelling, `RecoversForGood` that they go on
  calling, that calls stop failing and that probes are not all cancelled.
* A composition states each component's fairness for the behaviours that are about it.

## 4. Proofs

Every invariant and every safety property of a passing run is also a theorem of the
specification it is about, for all values of the constants: any number of callers,
writes, requests, workers and texts, any limits, sizes and delays, without the bounds
of the MC modules. The few bounds that stand in a component's own guards
(`recent_maxlen` of CircuitBreaker, which is the deque's, `MaxLookups` of Metrics,
`MaxAccesses` of AdaptiveTTL) are constants like the others. No theorem uses fairness.
Each module names its assumptions on constants (`BreakerAssumption`,
`CacheAssumption`, `LimiterAssumption`, ...: sizes and limits are positive, spans of
time are natural numbers, and so on). A component that is only instantiated brings its
assumption as a hypothesis, which `PartsAssumption` and `LocalLimitersAssumption`
discharge; TLC evaluates all of them in the runs.

Each invariant is proved from an inductive one: what holds initially, what each
action keeps (a lemma per action or group of actions), and what it implies.

**CircuitBreakerProofs.** `IInv` is the conjunction of the breaker's four invariants.
It has to be taken as a whole: that a closed circuit is below the threshold follows
after `_reset` only from the reset itself, after a success from the decay of a natural
number, and after a failure from the test in `_record_failure`.
`ImplementsBreakerProtocol` maps each action to a step or a stutter of
BreakerProtocol; it needs `ProbeUnfinished` for the last success of a probe.

**WriteBehindProofs.** `OrderInv` says where each accepted write is: the queue is
what was accepted last (`QueueIsLast`), the batch what came just before it
(`BatchIsNext`), and redis holds the last write to each key among those it has
executed (`RedisIsPrefix`), a lost reply included, after which a batch is executed
twice. `NothingLost` and `FlushedWasApplied` follow, and so does `WritesInOrder`,
the refinement of OrderedStore: a pipeline that redis executes applies the writes
redis had not seen, and the repeated ones change nothing. `BatchRoom` ties the size
of the batch to the failures so far, `WaitedFor` its age to where the worker is.

**SemanticCacheProofs.** One part each for redis (an answer is stored under the
prompt it was generated for and has a TTL), `local_cache` (entries are similar to the
prompt they were generated for, popular, one per query, no more than the size) and
the requests (who counts a hit holds an answer similar to what was asked,
`HoldsWhatItNeeds`). `NoDrift` needs all three: a lookup that found an answer writes
its count back after awaits in which the key may have expired, and what it promotes
is the answer it carries.

**RateLimiterProofs.** `ExcessIsShared` follows from `WindowLimit`, which rests on
`NothingForgotten`, and that on two facts about late scripts and expiry: no script
carries a time older than `MaxDelay` (`SentInTime`), and the key outlives every
admission by its life (`KeyOutlives`). `WindowLimit` counts the requests of an
interval that do not share the member of an earlier one; when one more is admitted,
all the others of the interval are still members, each of its own (`ApartCounted`), so
that the test of the script covers them. `SameLimiter`, `SameBucket` and `SameCounter`
carry the theorems on each limiter to `RateLimiterSpec`.

**LocalLimiterProofs.** The bucket is reckoned by its balance before the cap, tokens
plus what the clock has added since `last_update`. Three bounds are kept by every
step, the clock set back included: it owes no more than the clock was set back
(`DebtBounded`), it fills from a refusal on (`FillsAfterRefusal`), and every suffix of
the admissions, with what is left, is paid for by burst and time (`PaidFor`).
`BurstAndRate` and `LockoutEnds` are read off them. For the counter, the buckets from
any second on hold as many requests as were let through from that second on
(`CountsAdmitted`, by counting pairs of second and number), the buckets that are kept
are within the limit, and while a refusal stands they are full (`FullAtRefusal`).

**ProxyHandlerProofs.** `BreakerUsed` is a simulation: every step of the proxy is a
step of CircuitBreaker or leaves its variables alone. With it the breaker's own
theorems hold in the proxy without being proved again (`ProxyThreshold`,
`ProxyProtocol`, `BreakerTyped`).

**EmbeddingCacheProofs.** The code numbers its tasks by the placeholders of a chunk
and stitches their results by the same order. `Ranks` shows that the number of a
placeholder, counted from the left, is a bijection with the tasks; `ChunkInOrder`
that a position holds either its text's vector or a placeholder whose task was given
that text. Neither speaks of the cache, which is why what other calls evict in the
meantime does not matter.

**WorkerPartsProofs.** Metrics: a lookup that was found but not yet recorded still owes
a count, so the bounds on the counters are stated with what is owed
(`CountedAtMostTwice`, which no run states). Lifespan:
`IndexForAll` is inductive with the types. TTLCalculator: each truncation loses less
than a second of the product and the rounding of 0.7 at most one more (`OneFactor`,
`FourFactors`), and the bound is kept by the clamps; the night is left out of it, as
finding 9 says. AdaptiveTTL: what is kept of a key are the last accesses, exactly those
in the window of the last one (`KeptIsWindow`); pruning step by step loses nothing
because accesses are in order.
`StepsOfParts` takes a step of the composition apart, so that each component's
invariant holds in `PartsSpec`; `SameEmbedding` does it for the theorems of
EmbeddingCacheProofs.

### Model-checked only

* Liveness: `RecoversForGood`, `SettlesWhenQuiet`, `EveryRequestEnds`,
  `OutageOpensBreaker`, `ErrorsForgotten`, `EveryCallEnds`, `SearchRecovers`. They
  need fairness, and the prover has no rule for `ENABLED`.
* The nine disagreements of section 3: each is one counterexample of TLC.
* That the compositions reach what they are about (every action of every component is
  taken in some run): a theorem does not show it.

## 5. Not modelled

* Redis memory pressure: docker-compose runs `allkeys-lru`, which may drop any
  key; expiry of an answer at any time covers it for the cache, but the limiter's
  `NothingForgotten` assumes that its key is not dropped early, nor lost in a
  restart of redis.
* HNSW and the parsing of search replies. A search returns any match above the
  threshold or nothing; Lifespan has when there is an index to search.
* The wording and size of prompts and answers, headers, logging, statistics.
* Latencies, request rates and percentiles of the metrics; the hit statistics of the
  caches; the read-only routes.
* `get_or_set` and `batch_set`, which nothing calls (Metrics has what the latter
  records); the semaphore of `OllamaClient.generate_batch`, whose results are taken
  together, which is all the handler sees of them.
* A breaker whose clock is set back: the outage lasts longer by as much. A protocol
  that allows it would allow late failures to prolong it, so CircuitBreaker keeps a
  clock that only advances; TokenBucket has the one that does not.
* Corrections of a clock other than those of TokenBucket, and replicas whose clocks
  are ahead of one another by more than `MaxDelay`.
* That an answer comes back after an `invalidate` (a write still in the queue, another
  worker's L1): it does by design, and no route calls `invalidate`.
* Connection pools (`pool_manager.py` makes one that nothing takes a client from),
  request logging, configuration, schemas, load test: construction or pure I/O.

## 6. Plan

Done, in this order: CircuitBreaker with protocol and proofs; WriteBehind with
OrderedStore; SemanticCache; DistributedLimiter; ProxyHandler over CircuitBreaker;
TokenBucket and SlidingWindowCounter; EmbeddingCache; Lifespan; Metrics;
TTLCalculator and AdaptiveTTL. Then the proofs of section 4: CircuitBreaker,
WriteBehind, SemanticCache, the limiters, ProxyHandler, WorkerParts, EmbeddingCache.

Next:

1. action properties that say more of the order of events than the invariants do:
   in EmbeddingCache, that permits taken and tasks posting agree; in Lifespan, that an
   index which serves is only taken away by a worker that starts;
2. an abstract cache that SemanticCache implements (an answer is served only if it was
   generated for a similar prompt and not deleted since it was looked up), and the
   refinement;
3. the safety half of the liveness arguments, e.g. for `SettlesWhenQuiet` that nothing
   but a failed pipeline lengthens the wait of a write: most of it is in `WaitedFor`.
