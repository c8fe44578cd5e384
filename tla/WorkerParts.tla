------------------------------ MODULE WorkerParts ------------------------------
(***************************************************************************)
(* The smaller parts of a worker side by side: the embedding cache, the    *)
(* start of workers around the index, the metrics and the TTLs.  They      *)
(* share no state: Init chooses the part a behaviour is about, and the     *)
(* others stand still.                                                     *)
(***************************************************************************)
EXTENDS Naturals, Sequences, FiniteSets

CONSTANTS
    Texts, Inputs, Embeddings, Batches, None,             \* EmbeddingCache
    cache_size, remove_count, max_attempts,
    max_concurrent, batch_size,
    Workers, Prompts, WarmupQueries,                      \* Lifespan
    Requests, MaxLookups, MaxWrites,                      \* Metrics
    HitCounts, QueryLengths, BaseTTLs, Hours,             \* TTLCalculator
    Keys, learning_window, MaxAccesses, AccessHorizon     \* AdaptiveTTL

VARIABLES
    part,
    cache, call, batch,
    phase, warmed, stored, index, indexed, redis_up, calm,
    cache_hits, cache_misses, errors, l1_hits, l2_hits, cache_write_ops,
    batch_writes, pc, chat, writing, served, missed, carried,
    hit_count, query_length, base_ttl, time_of_day, weekend, ttl,
    access_patterns, access_clock, accesses

embeddingVars == <<cache, call, batch>>
lifespanVars == <<phase, warmed, stored, index, indexed, redis_up, calm>>
metricsVars == <<cache_hits, cache_misses, errors, l1_hits, l2_hits, cache_write_ops,
                 batch_writes, pc, chat, writing, served, missed, carried>>
calculatorVars == <<hit_count, query_length, base_ttl, time_of_day, weekend, ttl>>
adaptiveVars == <<access_patterns, access_clock, accesses>>
partsVars == <<part, embeddingVars, lifespanVars, metricsVars, calculatorVars, adaptiveVars>>

Embedding == INSTANCE EmbeddingCache WITH Callers <- Embeddings
Start == INSTANCE Lifespan
Collector == INSTANCE Metrics
Calculator == INSTANCE TTLCalculator
Adaptive == INSTANCE AdaptiveTTL

ASSUME PartsAssumption ==
    /\ Embedding!EmbeddingAssumption /\ Start!LifespanAssumption
    /\ Collector!MetricsAssumption /\ Adaptive!AdaptiveAssumption
    /\ Calculator!CalculatorAssumption

\* In the initial state of TTLCalculator an entry has been stored: where another
\* part is chosen, one such entry is enough.
PartsInit ==
    /\ part \in {"embedding", "lifespan", "metrics", "calculator", "adaptive"}
    /\ Embedding!Init /\ Start!Init /\ Collector!Init /\ Adaptive!Init
    /\ Calculator!Init
    /\ part # "calculator" =>
          /\ <<hit_count, query_length, base_ttl>> = <<0, 50, 3600>>
          /\ <<time_of_day, weekend>> = <<8, FALSE>>

PartsNext ==
    /\ \/ /\ part = "embedding" /\ Embedding!Next
          /\ UNCHANGED <<lifespanVars, metricsVars, calculatorVars, adaptiveVars>>
       \/ /\ part = "lifespan" /\ Start!Next
          /\ UNCHANGED <<embeddingVars, metricsVars, calculatorVars, adaptiveVars>>
       \/ /\ part = "metrics" /\ Collector!Next
          /\ UNCHANGED <<embeddingVars, lifespanVars, calculatorVars, adaptiveVars>>
       \/ /\ part = "calculator" /\ Calculator!Next
          /\ UNCHANGED <<embeddingVars, lifespanVars, metricsVars, adaptiveVars>>
       \/ /\ part = "adaptive"
          /\ \/ access_clock < AccessHorizon /\ Adaptive!Tick
             \/ Adaptive!Restart
             \/ \E k \in Keys : Adaptive!RecordAccess(k)
          /\ UNCHANGED <<embeddingVars, lifespanVars, metricsVars, calculatorVars>>
    /\ UNCHANGED part

PartsSpec == PartsInit /\ [][PartsNext]_partsVars /\ Embedding!Fairness /\ Start!Fairness

WorkerTypeOK ==
    Embedding!TypeOK /\ Start!TypeOK /\ Collector!TypeOK /\ Calculator!TypeOK /\ Adaptive!TypeOK

\* A batch of embeddings comes back in the order of its texts.
BatchInOrder == Embedding!BatchInOrder

\* Every embedding, and every batch of them, comes to an end.
EveryCallEnds == Embedding!EveryCallEnds

\* When all workers serve there is an index.
IndexForAll == Start!IndexForAll

\* Once things stay calm, searches see all that is stored.
SearchRecovers == Start!SearchRecovers

\* By day TTLs are the product of the factors, clamped.
TTLFollowsFactors == Calculator!TTLFollowsFactors

\* The timestamps that are kept are those of a rolling window.
PatternsAreWindow == Adaptive!PatternsAreWindow

\* The counters may count a lookup a second time, but not a third.
CountedAtMostTwice == Collector!CountedAtMostTwice

\* At night the TTL is multiplied as well.
NightIsMultiplied == Calculator!NightIsMultiplied
=============================================================================
