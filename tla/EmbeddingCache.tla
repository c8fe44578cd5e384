----------------------------- MODULE EmbeddingCache -----------------------------
(***************************************************************************)
(* app/llm/embedding.py: EmbeddingGenerator, with calls of generate() and  *)
(* of generate_batch() that share its cache, and BatchEmbeddingGenerator,  *)
(* which cuts a long list into chunks.                                     *)
(*                                                                         *)
(* The vector of a text is named by the text.  A step is what runs between *)
(* two awaits; the gather of a chunk that is cached completely is a step,  *)
(* although nothing is awaited there.  Definitions named Name_Variant are  *)
(* plausible bugs, put in Name's place to see that a property notices.     *)
(***************************************************************************)
EXTENDS Positions, Functions

CONSTANTS
    Texts,
    Callers,         \* lookups and set() tasks that embed one text
    Batches,         \* callers of BatchEmbeddingGenerator.generate_batch
    Inputs,          \* the lists they may pass
    None,            \* the placeholder of a result
    cache_size,
    remove_count,    \* entries evicted at once: cache_size // 10
    max_attempts,    \* stop_after_attempt
    max_concurrent,  \* the semaphore of a generate_batch
    batch_size       \* texts in a chunk

EmbeddingAssumption ==
    /\ None \notin Texts
    /\ Callers \cap (Batches \X (1 .. batch_size)) = {}
    /\ Inputs \subseteq Seq(Texts) \ {<<>>}
    /\ remove_count \in Nat \ {0} /\ cache_size \in Nat /\ remove_count <= cache_size
    /\ max_attempts \in Nat \ {0} /\ max_concurrent \in Nat \ {0}
    /\ batch_size \in Nat \ {0}

VARIABLES
    cache,  \* the texts that have a vector, in the order of the dict
    call,   \* the calls of generate(): those of Callers, those of the batches
    batch   \* the calls of generate_batch()

vars == <<cache, call, batch>>

\* The k-th text a chunk has to generate is the call <<b, k>>.
Calls == Callers \cup (Batches \X (1 .. batch_size))

NoCall == [pc |-> "ended", text |-> None, attempt |-> 0]
NoBatch == [pc |-> "idle", texts |-> <<>>, chunk |-> <<>>, results |-> <<>>]

TypeOK ==
    /\ cache \in Seq(Texts) /\ IsInjective(cache) /\ Len(cache) <= cache_size
    /\ call \in [Calls -> [pc : {"queued", "posting", "backoff", "ended", "failed"},
                           text : Texts \cup {None}, attempt : 0 .. max_attempts]]
    /\ batch \in [Batches -> [pc : {"idle", "gathering", "returned", "raised"},
                              texts : Inputs \cup {<<>>},
                              chunk : Seq(Texts \cup {None}),
                              results : Seq(Texts)]]

Init ==
    /\ cache = <<>>
    /\ call = [c \in Calls |-> NoCall]
    /\ batch = [b \in Batches |-> NoBatch]

-----------------------------------------------------------------------------
(* The cache                                                                *)

Cached(t) == t \in Range(cache)

Kept_TooMany ==
    IF Len(cache) > cache_size
      THEN SubSeq(cache, remove_count + 1, Len(cache)) ELSE cache

\* A full cache loses its oldest entries before an insertion.
Kept ==
    IF Len(cache) >= cache_size
      THEN SubSeq(cache, remove_count + 1, Len(cache)) ELSE cache

\* A text that another call has inserted meanwhile keeps its place.
Inserted(t) == IF t \in Range(Kept) THEN Kept ELSE Append(Kept, t)

-----------------------------------------------------------------------------
(* generate()                                                               *)

\* The body from its top: a hit ends the call.
Entered(t, attempt) ==
    [pc |-> IF Cached(t) THEN "ended" ELSE "posting", text |-> t, attempt |-> attempt]

Generate(c, t) ==
    /\ c \in Callers /\ call[c].pc \in {"ended", "failed"}
    /\ call' = [call EXCEPT ![c] = Entered(t, 1)]
    /\ UNCHANGED <<cache, batch>>

Reply(c) ==
    /\ call[c].pc = "posting"
    /\ cache' = Inserted(call[c].text)
    /\ call' = [call EXCEPT ![c].pc = "ended"]
    /\ UNCHANGED batch

PostFails(c) ==
    /\ call[c].pc = "posting"
    /\ call' = [call EXCEPT ![c].pc =
                  IF call[c].attempt < max_attempts THEN "backoff" ELSE "failed"]
    /\ UNCHANGED <<cache, batch>>

\* tenacity calls the whole function again, which looks into the cache again.
Retry(c) ==
    /\ call[c].pc = "backoff"
    /\ call' = [call EXCEPT ![c] = Entered(@.text, @.attempt + 1)]
    /\ UNCHANGED <<cache, batch>>

-----------------------------------------------------------------------------
(* generate_batch()                                                         *)

Tasks(b) == {b} \X (1 .. batch_size)

\* The next chunk of those texts of b that have no result yet: a result for what
\* is cached, a placeholder and a task for every other one.
StartChunk(b, texts, results) ==
    LET todo == SubSeq(texts, Len(results) + 1, Len(texts))
        chunk == SubSeq(todo, 1, IF Len(todo) < batch_size THEN Len(todo) ELSE batch_size)
        to_generate == Selected(chunk, {i \in DOMAIN chunk : ~ Cached(chunk[i])})
    IN  /\ batch' = [batch EXCEPT ![b] =
                       [pc |-> "gathering", texts |-> texts, results |-> results,
                        chunk |-> [i \in DOMAIN chunk |->
                                     IF Cached(chunk[i]) THEN chunk[i] ELSE None]]]
        /\ call' = [c \in Calls |->
                      IF c \notin Tasks(b) THEN call[c]
                      ELSE IF c[2] <= Len(to_generate)
                             THEN [pc |-> "queued", text |-> to_generate[c[2]], attempt |-> 0]
                             ELSE NoCall]
        /\ UNCHANGED cache

\* Tasks of an earlier call that raised may still run; they then have a
\* semaphore of their own, and b stands for another caller.
GenerateBatch(b, texts) ==
    /\ batch[b].pc # "gathering"
    /\ \A c \in Tasks(b) : call[c].pc \in {"ended", "failed"}
    /\ StartChunk(b, texts, <<>>)

Holding_EndedToo(b) == {c \in Tasks(b) : call[c].text # None /\ call[c].pc # "queued"}

Holding(b) == {c \in Tasks(b) : call[c].pc \in {"posting", "backoff"}}

\* The first in the semaphore's queue enters generate(), and holds the semaphore
\* until that returns or raises.
Acquire(b, k) ==
    /\ call[<<b, k>>].pc = "queued"
    /\ \A j \in 1 .. k - 1 : call[<<b, j>>].pc # "queued"
    /\ Cardinality(Holding(b)) < max_concurrent
    /\ call' = [call EXCEPT ![<<b, k>>] = Entered(@.text, 1)]
    /\ UNCHANGED <<cache, batch>>

Stitched_Appended(b) ==
    SelectSeq(batch[b].chunk, LAMBDA t : t # None)
        \o [k \in 1 .. Len(SelectSeq(batch[b].chunk, LAMBDA t : t = None)) |->
              call[<<b, k>>].text]

\* The placeholders are filled with the new vectors in order.
Stitched(b) ==
    LET chunk == batch[b].chunk
    IN  [i \in DOMAIN chunk |->
           IF chunk[i] # None THEN chunk[i]
           ELSE call[<<b, Cardinality({j \in 1 .. i : chunk[j] = None})>>].text]

\* gather() is complete: the chunk's results, then the next chunk or the end.
GatherCompletes(b) ==
    /\ batch[b].pc = "gathering"
    /\ \A c \in Tasks(b) : call[c].pc = "ended"
    /\ LET results == batch[b].results \o Stitched(b)
       IN  IF Len(results) < Len(batch[b].texts)
             THEN StartChunk(b, batch[b].texts, results)
             ELSE /\ batch' = [batch EXCEPT ![b].pc = "returned", ![b].chunk = <<>>,
                                            ![b].results = results]
                  /\ UNCHANGED <<cache, call>>

\* gather() raises the first exception; the other tasks are not cancelled.
GatherRaises(b) ==
    /\ batch[b].pc = "gathering"
    /\ \E c \in Tasks(b) : call[c].pc = "failed"
    /\ batch' = [batch EXCEPT ![b] = [NoBatch EXCEPT !.pc = "raised"]]
    /\ UNCHANGED <<cache, call>>

CallStep(c) == Reply(c) \/ PostFails(c) \/ Retry(c)

BatchStep(b) ==
    \/ GatherCompletes(b) \/ GatherRaises(b)
    \/ \E k \in 1 .. batch_size : Acquire(b, k)

Next ==
    \/ \E c \in Calls : CallStep(c)
    \/ \E c \in Callers, t \in Texts : Generate(c, t)
    \/ \E b \in Batches : BatchStep(b) \/ \E texts \in Inputs : GenerateBatch(b, texts)

\* A post ends by the client's timeout of 30 s, and what is ready runs.
Fairness ==
    /\ \A c \in Calls : WF_vars(CallStep(c))
    /\ \A b \in Batches : WF_vars(BatchStep(b))

Spec == Init /\ [][Next]_vars /\ Fairness

-----------------------------------------------------------------------------
\* A batch returns the vectors of its texts in the order of the texts, although
\* the cache gains and loses some of them while the others are generated, texts
\* occur twice, and chunks see different caches.
BatchInOrder ==
    \A b \in Batches : batch[b].pc = "returned" => batch[b].results = batch[b].texts

\* Every batch returns or raises, and every task ends, those of a batch that has
\* raised included: nothing waits for the semaphore for ever.
EveryCallEnds ==
    /\ \A b \in Batches : batch[b].pc = "gathering" ~> batch[b].pc # "gathering"
    /\ \A c \in Calls : call[c].pc = "queued" ~> call[c].pc \in {"ended", "failed"}
=============================================================================
