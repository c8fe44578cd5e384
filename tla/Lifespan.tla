-------------------------------- MODULE Lifespan --------------------------------
(***************************************************************************)
(* The start and the end of workers (app/main.py: lifespan) around the     *)
(* vector index they share (app/cache/redis_client.py: connect,            *)
(* _create_index, close), with the warm-up they begin (semantic_cache.py). *)
(*                                                                         *)
(* Every worker drops the index and creates it again, in two commands.     *)
(* Redis keeps the hashes, indexes those it finds in the background, and   *)
(* every hash written while there is an index at once.  A store is one     *)
(* step here: WriteBehind has the queue and its retries.                   *)
(* Definitions named Name_Variant are plausible bugs, put in Name's place  *)
(* to see that a property notices.                                         *)
(***************************************************************************)
EXTENDS Naturals, Sequences

CONSTANTS
    Workers,
    Prompts,
    WarmupQueries   \* the sequence of prompts _warmup_worker generates

LifespanAssumption == Workers # {} /\ WarmupQueries \in Seq(Prompts)

VARIABLES
    phase,     \* per worker, the await of lifespan() it is at
    warmed,    \* per worker, how many of the warm-up queries are done
    stored,    \* the prompts with an answer in redis
    index,     \* whether the index exists
    indexed,   \* the prompts a search can find
    redis_up,
    calm       \* environment: redis stays up, no worker dies or is stopped any
               \* more, and those that did are started again

vars == <<phase, warmed, stored, index, indexed, redis_up, calm>>
data == <<stored, index, indexed>>

TypeOK ==
    /\ phase \in [Workers -> {"down", "ping", "drop", "create", "serving"}]
    /\ warmed \in [Workers -> 0 .. Len(WarmupQueries)]
    /\ stored \subseteq Prompts
    /\ index \in BOOLEAN
    /\ indexed \subseteq stored /\ (~ index => indexed = {})
    /\ redis_up \in BOOLEAN /\ calm \in BOOLEAN

\* Before the first deployment.
Init ==
    /\ phase = [w \in Workers |-> "down"]
    /\ warmed = [w \in Workers |-> 0]
    /\ stored = {} /\ index = FALSE /\ indexed = {}
    /\ redis_up = TRUE /\ calm = FALSE

-----------------------------------------------------------------------------
(* lifespan() up to its yield                                               *)

At(w, from, to) == phase[w] = from /\ phase' = [phase EXCEPT ![w] = to]

\* What check_model_availability says of Ollama is logged, no more; the HTTP pool
\* of pool_manager is made.
Start(w) ==
    /\ At(w, "down", "ping")
    /\ warmed' = [warmed EXCEPT ![w] = 0]
    /\ UNCHANGED <<data, redis_up, calm>>

Ping(w) ==
    /\ redis_up
    /\ At(w, "ping", "drop")
    /\ UNCHANGED <<warmed, data, redis_up, calm>>

AfterUnknownIndex_Raised == "down"

\* "Unknown index name" is passed over.
AfterUnknownIndex == "create"

Dropped == index' = FALSE /\ indexed' = {} /\ UNCHANGED stored

\* FT.DROPINDEX; a ResponseError of another kind is logged as a warning.
DropIndex(w) ==
    /\ redis_up
    /\ \/ index /\ At(w, "drop", "create") /\ Dropped
       \/ ~ index /\ At(w, "drop", AfterUnknownIndex) /\ UNCHANGED data
       \/ ~ calm /\ At(w, "drop", "create") /\ UNCHANGED data
    /\ UNCHANGED <<warmed, redis_up, calm>>

\* A new index begins empty; "Index already exists" is no error.
Created == index' = TRUE /\ UNCHANGED <<stored, indexed>>

CreateIndex(w) ==
    /\ redis_up
    /\ At(w, "create", "serving")
    /\ Created
    /\ UNCHANGED <<warmed, redis_up, calm>>

AfterFailedCreate_Logged == "serving"

\* An error of FT.CREATE is raised through connect() and lifespan().
AfterFailedCreate == "down"

CreateFails(w) ==
    /\ ~ calm
    /\ At(w, "create", AfterFailedCreate)
    /\ Created \/ UNCHANGED data
    /\ UNCHANGED <<warmed, redis_up, calm>>

\* redis cannot be reached, or the connection breaks, before or after the command
\* was run: lifespan() raises and the worker process ends.
ConnectFails(w) ==
    /\ ~ redis_up
    /\ \/ At(w, "ping", "down") /\ UNCHANGED data
       \/ At(w, "drop", "down") /\ (Dropped \/ UNCHANGED data)
    /\ UNCHANGED <<warmed, redis_up, calm>>

-----------------------------------------------------------------------------
(* serving                                                                  *)

Store(p) ==
    /\ stored' = stored \cup {p}
    /\ indexed' = IF index THEN indexed \cup {p} ELSE indexed
    /\ UNCHANGED index

\* The next warm-up query is generated and stored.  An error of either is logged
\* and the loop goes on.
WarmUp(w) ==
    /\ phase[w] = "serving" /\ warmed[w] < Len(WarmupQueries)
    /\ warmed' = [warmed EXCEPT ![w] = @ + 1]
    /\ \/ redis_up /\ Store(WarmupQueries[warmed[w] + 1])
       \/ UNCHANGED data
    /\ UNCHANGED <<phase, redis_up, calm>>

\* The answer to a client's prompt is stored.
AnswerStored(w, p) ==
    /\ phase[w] = "serving" /\ redis_up
    /\ Store(p)
    /\ UNCHANGED <<phase, warmed, redis_up, calm>>

\* The end of lifespan(), which closes the pool, the write-behind worker and the
\* connection; or of the process, at any await.
Ends(w) ==
    /\ ~ calm
    /\ \E from \in {"ping", "drop", "create", "serving"} : At(w, from, "down")
    /\ UNCHANGED <<warmed, data, redis_up, calm>>

-----------------------------------------------------------------------------
(* redis and the environment                                                *)

\* The background scan of a new index reaches a hash.
Scan(p) ==
    /\ redis_up /\ index /\ p \in stored \ indexed
    /\ indexed' = indexed \cup {p}
    /\ UNCHANGED <<phase, warmed, stored, index, redis_up, calm>>

Expire(p) ==
    /\ p \in stored
    /\ stored' = stored \ {p} /\ indexed' = indexed \ {p}
    /\ UNCHANGED <<phase, warmed, index, redis_up, calm>>

RedisChanges ==
    /\ ~ calm
    /\ redis_up' = ~ redis_up
    /\ UNCHANGED <<phase, warmed, data, calm>>

TurnsCalm ==
    /\ ~ calm /\ redis_up
    /\ calm' = TRUE
    /\ UNCHANGED <<phase, warmed, data, redis_up>>

StartStep(w) == Ping(w) \/ DropIndex(w) \/ CreateIndex(w)

Next ==
    \/ \E w \in Workers : \/ Start(w) \/ StartStep(w) \/ CreateFails(w) \/ ConnectFails(w)
                          \/ WarmUp(w) \/ Ends(w)
                          \/ \E p \in Prompts : AnswerStored(w, p)
    \/ \E p \in Prompts : Scan(p) \/ Expire(p)
    \/ RedisChanges \/ TurnsCalm

\* Commands are answered; redis goes on with its scan; a worker that is down is
\* started again only when the environment is calm, which is what calm says.
Fairness ==
    /\ \A w \in Workers : WF_vars(calm /\ Start(w)) /\ WF_vars(StartStep(w))
    /\ \A p \in Prompts : WF_vars(Scan(p))

Spec == Init /\ [][Next]_vars /\ Fairness

-----------------------------------------------------------------------------
\* When all workers serve there is an index, in whatever order they have dropped
\* and created it, and whatever failed on the way: only a worker that is starting,
\* or died between the two commands, leaves the others without.
IndexForAll == (\A w \in Workers : phase[w] = "serving") => index

\* After any number of deaths, restarts and outages of redis in any phase: once
\* things stay calm all workers come to serve, and from then on a search sees
\* every answer in redis, those of before the re-creations included.
SearchRecovers ==
    (<> calm) => <>[] ((\A w \in Workers : phase[w] = "serving") /\ indexed = stored)
=============================================================================
