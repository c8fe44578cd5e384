------------------------------ MODULE ProxyHandler ------------------------------
(***************************************************************************)
(* app/routes/proxy.py with app/llm/ollama_client.py: the chat and batch   *)
(* requests of one worker, from the cache lookup over the circuit breaker  *)
(* and the attempts at Ollama to the background store of the answers.      *)
(*                                                                         *)
(* The cache is what a lookup can tell: per prompt, nothing, an answer of  *)
(* the LLM, or the text that stands for a failure.  SemanticCache and      *)
(* WriteBehind have its tiers and its writer; the breaker is               *)
(* CircuitBreaker itself.                                                  *)
(* Definitions named Name_Variant are plausible bugs, put in Name's place  *)
(* to see that a property notices.                                         *)
(***************************************************************************)
EXTENDS Naturals, FiniteSets

CONSTANTS
    Clients,        \* requests that may be in the worker at once
    Prompts,        \* each stands for the wordings the cache may take for one another
    max_attempts,   \* stop_after_attempt of generate
    failure_threshold, recovery_timeout, half_open_max_calls, recent_maxlen

ASSUME ProxyAssumption ==
    /\ max_attempts \in Nat \ {0}
    /\ failure_threshold \in Nat \ {0} /\ recovery_timeout \in Nat
    /\ half_open_max_calls \in Nat \ {0} /\ recent_maxlen \in Nat \ {0}

VARIABLES
    ollama,     \* "up", "embeds" (embeds but does not generate), or "down"
    patient,    \* no client abandons its request any more
    stored,     \* prompt -> "none", "answer" or "error"
    sets,       \* the set() tasks not finished: <<prompt, value>>
    pc,         \* per client: "idle", "get", "generate", "batch_get", "batch_generate"
    asked,      \* prompts still to be looked up
    missed,     \* prompts looked up and not found
    attempts,   \* failed attempts of this generate()
    results,    \* what a batch has generated so far
    state, failure_count, success_count, half_open_calls, recent_failures,
    since_failure, admitted

Breaker == INSTANCE CircuitBreaker WITH Callers <- Clients

breaker == <<state, failure_count, success_count, half_open_calls,
             recent_failures, since_failure, admitted>>
outside == <<ollama, patient>>
cache == <<stored, sets>>
request == <<pc, asked, missed, attempts, results>>
vars == <<outside, cache, request, breaker>>

Values == {"answer", "error"}

TypeOK ==
    /\ ollama \in {"up", "embeds", "down"}
    /\ patient \in BOOLEAN
    /\ stored \in [Prompts -> {"none"} \cup Values]
    /\ sets \subseteq Prompts \X Values
    /\ pc \in [Clients -> {"idle", "get", "generate", "batch_get", "batch_generate"}]
    /\ asked \in [Clients -> SUBSET Prompts]
    /\ missed \in [Clients -> SUBSET Prompts]
    /\ attempts \in [Clients -> 0 .. max_attempts - 1]
    /\ results \in [Clients -> SUBSET (Prompts \X Values)]
    /\ Breaker!TypeOK

Init ==
    /\ ollama \in {"up", "embeds", "down"}
    /\ patient = FALSE
    /\ stored = [p \in Prompts |-> "none"]
    /\ sets = {}
    /\ pc = [c \in Clients |-> "idle"]
    /\ asked = [c \in Clients |-> {}]
    /\ missed = [c \in Clients |-> {}]
    /\ attempts = [c \in Clients |-> 0]
    /\ results = [c \in Clients |-> {}]
    /\ Breaker!Init

-----------------------------------------------------------------------------
(* semantic_cache.get(): only an exact hit needs no embedding, which comes  *)
(* from Ollama too unless EmbeddingGenerator has it from before.  A stored  *)
(* wording may be too far away, or be overlooked by the approximate index,  *)
(* so a miss is always possible.                                            *)

LookupHits(p) == stored[p] # "none"

LookupFails(p) == ollama = "down"

-----------------------------------------------------------------------------
(* handle_chat_request                                                      *)

Ends(c) ==
    /\ pc' = [pc EXCEPT ![c] = "idle"]
    /\ asked' = [asked EXCEPT ![c] = {}]
    /\ missed' = [missed EXCEPT ![c] = {}]
    /\ attempts' = [attempts EXCEPT ![c] = 0]
    /\ results' = [results EXCEPT ![c] = {}]

Chat(c, p) ==
    /\ pc[c] = "idle"
    /\ pc' = [pc EXCEPT ![c] = "get"]
    /\ asked' = [asked EXCEPT ![c] = {p}]
    /\ UNCHANGED <<outside, cache, missed, attempts, results, breaker>>

\* A hit is answered; a lookup that raises ends the request with a 500, outside
\* of the try block and of the breaker.
ChatLookupEnds(c) ==
    /\ pc[c] = "get"
    /\ \E p \in asked[c] : LookupHits(p) \/ LookupFails(p)
    /\ Ends(c)
    /\ UNCHANGED <<outside, cache, breaker>>

Admission_NewBreaker(c) ==
    /\ state' = "CLOSED" /\ since_failure' = recovery_timeout
    /\ failure_count' = 0 /\ success_count' = 0
    /\ half_open_calls' = 0 /\ recent_failures' = 0
    /\ admitted' = [admitted EXCEPT ![c] = "CLOSED"]

\* The registry hands every request the same breaker.
Admission(c) == Breaker!AdmitCall(c)

\* A miss the breaker admits.  Neither lock is ever waited for, so nothing runs
\* between the end of the lookup and the admission.
ChatAdmitted(c) ==
    /\ pc[c] = "get"
    /\ Admission(c)
    /\ pc' = [pc EXCEPT ![c] = "generate"]
    /\ missed' = [missed EXCEPT ![c] = asked[c]]
    /\ asked' = [asked EXCEPT ![c] = {}]
    /\ UNCHANGED <<outside, cache, attempts, results>>

\* A miss it refuses: 503.
ChatRefused(c) ==
    /\ pc[c] = "get"
    /\ Breaker!Refuses
    /\ Ends(c)
    /\ UNCHANGED <<outside, cache, breaker>>

MayRetry_OnceMore(c) == attempts[c] + 1 <= max_attempts

MayRetry(c) == attempts[c] + 1 < max_attempts

CountAttempt_Never(c) == UNCHANGED attempts

CountAttempt(c) == attempts' = [attempts EXCEPT ![c] = @ + 1]

\* A time-out or a refused connection: generate() waits and tries again.
ChatRetries(c) ==
    /\ pc[c] = "generate" /\ ollama # "up"
    /\ MayRetry(c)
    /\ CountAttempt(c)
    /\ UNCHANGED <<outside, cache, pc, asked, missed, results, breaker>>

ReportFailure_AsCancel(c) == Breaker!Cancel(c)

ReportFailure(c) == Breaker!Fail(c)

\* The call failed: one failure for the breaker however many attempts it took,
\* and a 503.
ChatFails(c) ==
    /\ pc[c] = "generate" /\ ollama # "up"
    /\ ReportFailure(c)
    /\ Ends(c)
    /\ UNCHANGED <<outside, cache>>

ChatGivesUp(c) == ~ MayRetry(c) /\ ChatFails(c)

\* An HTTP error, a broken connection: not retried, whichever attempt it meets.
ChatFailsAtOnce(c) == ChatFails(c)

\* The answer is returned, and stored by a task of its own.
ChatAnswers(c) ==
    /\ pc[c] = "generate" /\ ollama = "up"
    /\ Breaker!Succeed(c)
    /\ sets' = sets \cup {<<p, "answer">> : p \in missed[c]}
    /\ Ends(c)
    /\ UNCHANGED <<outside, stored>>

\* A request is cancelled at any of its awaits; of a call nothing is recorded.
Cancelled(c) ==
    /\ pc[c] # "idle" /\ ~ patient
    /\ \/ pc[c] = "generate" /\ Breaker!Cancel(c)
       \/ pc[c] # "generate" /\ UNCHANGED breaker
    /\ Ends(c)
    /\ UNCHANGED <<outside, cache>>

-----------------------------------------------------------------------------
(* batch_completion                                                         *)

Batch(c, ps) ==
    /\ pc[c] = "idle"
    /\ pc' = [pc EXCEPT ![c] = "batch_get"]
    /\ asked' = [asked EXCEPT ![c] = ps]
    /\ UNCHANGED <<outside, cache, missed, attempts, results, breaker>>

KeepHit_Refreshed(p) == sets' = sets \cup {<<p, stored[p]>>}

\* A hit is returned with the batch, and not stored again.
KeepHit(p) == UNCHANGED sets

\* One prompt after the other is looked up.
BatchLookup(c) ==
    /\ pc[c] = "batch_get"
    /\ \E p \in asked[c] :
          /\ asked' = [asked EXCEPT ![c] = @ \ {p}]
          /\ \/ LookupHits(p) /\ KeepHit(p) /\ UNCHANGED missed
             \/ missed' = [missed EXCEPT ![c] = @ \cup {p}] /\ UNCHANGED sets
    /\ UNCHANGED <<outside, stored, pc, attempts, results, breaker>>

\* A lookup that raises ends the whole batch.
BatchLookupFails(c) ==
    /\ pc[c] = "batch_get"
    /\ \E p \in asked[c] : LookupFails(p)
    /\ Ends(c)
    /\ UNCHANGED <<outside, cache, breaker>>

BatchLookedUp(c) ==
    /\ pc[c] = "batch_get" /\ asked[c] = {}
    /\ \/ missed[c] = {} /\ Ends(c)
       \/ /\ missed[c] # {}
          /\ pc' = [pc EXCEPT ![c] = "batch_generate"]
          /\ UNCHANGED <<asked, missed, attempts, results>>
    /\ UNCHANGED <<outside, cache, breaker>>

\* generate_batch runs a generate() per prompt, in any order of their ends; no
\* breaker is asked, and one that raised counts as the error text.
BatchGenerated(c) ==
    /\ pc[c] = "batch_generate"
    /\ \E p \in missed[c] :
          /\ missed' = [missed EXCEPT ![c] = @ \ {p}]
          /\ results' = [results EXCEPT ![c] = @ \cup
                           {<<p, IF ollama = "up" THEN "answer" ELSE "error">>}]
    /\ UNCHANGED <<outside, cache, pc, asked, attempts, breaker>>

\* All are returned, and stored alike.
BatchAnswers(c) ==
    /\ pc[c] = "batch_generate" /\ missed[c] = {}
    /\ sets' = sets \cup results[c]
    /\ Ends(c)
    /\ UNCHANGED <<outside, stored, breaker>>

-----------------------------------------------------------------------------
(* The background: set() tasks, expiry, Ollama, the breaker's clock         *)

SetStores(p, v) ==
    /\ <<p, v>> \in sets
    /\ sets' = sets \ {<<p, v>>}
    /\ stored' = [stored EXCEPT ![p] = v]
    /\ UNCHANGED <<outside, request, breaker>>

\* The prompt cannot be embedded; the task's exception goes to nobody.
SetFails(p, v) ==
    /\ <<p, v>> \in sets /\ ollama = "down"
    /\ sets' = sets \ {<<p, v>>}
    /\ UNCHANGED <<outside, stored, request, breaker>>

Expire(p) ==
    /\ stored[p] # "none"
    /\ stored' = [stored EXCEPT ![p] = "none"]
    /\ UNCHANGED <<outside, sets, request, breaker>>

OllamaChanges ==
    /\ ollama' \in {"up", "embeds", "down"} \ {ollama}
    /\ UNCHANGED <<patient, cache, request, breaker>>

ClientsTurnPatient ==
    /\ ~ patient /\ patient' = TRUE
    /\ UNCHANGED <<ollama, cache, request, breaker>>

Tick == Breaker!Tick /\ UNCHANGED <<outside, cache, request>>

Progress(c) ==
    \/ ChatLookupEnds(c) \/ ChatAdmitted(c) \/ ChatRefused(c) \/ ChatRetries(c)
    \/ ChatGivesUp(c) \/ ChatAnswers(c)
    \/ BatchLookup(c) \/ BatchLookupFails(c) \/ BatchLookedUp(c)
    \/ BatchGenerated(c) \/ BatchAnswers(c)

RequestStep(c) == Progress(c) \/ ChatFailsAtOnce(c) \/ Cancelled(c)

Begin(c) ==
    \/ \E p \in Prompts : Chat(c, p)
    \/ \E ps \in SUBSET Prompts : Batch(c, ps)

Background ==
    \/ \E p \in Prompts, v \in Values : SetStores(p, v) \/ SetFails(p, v)
    \/ \E p \in Prompts : Expire(p)
    \/ OllamaChanges \/ ClientsTurnPatient \/ Tick

Next == Background \/ \E c \in Clients : Begin(c) \/ RequestStep(c)

Spec == Init /\ [][Next]_vars

\* Every await of a request and of a set() ends, by the client's timeouts; the
\* stored answers have a TTL; time passes.  Nobody has to be cancelled, to meet an
\* error that is not retried or to send a request, and Ollama may stay as it is.
Fairness ==
    /\ \A c \in Clients : WF_vars(Progress(c))
    /\ \A p \in Prompts, v \in Values : WF_vars(SetStores(p, v) \/ SetFails(p, v))
    /\ \A p \in Prompts : WF_vars(Expire(p))
    /\ WF_vars(Tick)

FairSpec == Spec /\ Fairness

-----------------------------------------------------------------------------
\* The handlers use the one shared breaker as CircuitBreaker describes it, so
\* what is proved of it there holds in the proxy: no request replaces it, skips
\* the admission or reports an outcome of a call that was not admitted.
BreakerInUse == Breaker!Spec

\* Every request ends, whatever Ollama does while it waits: the attempts of a
\* generate() run out.
EveryRequestEnds == \A c \in Clients : pc[c] # "idle" ~> pc[c] = "idle"

ChatsWhileClosed(c) == state = "CLOSED" /\ \E p \in Prompts : Chat(c, p)

\* From some time on Ollama is as s says and clients send chat requests only,
\* which they do not abandon; at least while the breaker is closed they go on.
Outage(s) ==
    /\ <>[] /\ ollama = s /\ patient
            /\ \A c \in Clients : pc[c] \in {"idle", "get", "generate"}
    /\ \A c \in Clients : WF_vars(ChatsWhileClosed(c))

\* "If Ollama becomes unavailable or slow (timeout), the circuit breaker opens"
\* (README.md, section C), for an Ollama that embeds but no longer generates:
\* the answers that hide the outage expire and no request brings new ones, so
\* the failures reach the breaker, and it opens and does not close again.
OutageOpensBreaker == Outage("embeds") => <>[](state # "CLOSED")

\* It opens for an Ollama that does not answer at all, too.
UnavailableOpensBreaker == Outage("down") => <>(state = "OPEN")

\* The texts that stand for failures do not outlast an outage by more than their
\* time to live: once Ollama is up for good, those in flight are stored and expire,
\* and neither a hit nor a batch that serves one stores it again.
ErrorsForgotten ==
    <>[](ollama = "up") => <>[](\A p \in Prompts : stored[p] # "error")

\* "Store result back in cache" (README.md) of "each new response"
\* (proxy.py:162): what the cache serves are answers of the LLM.
OnlyAnswersCached == \A p \in Prompts : stored[p] # "error"
=============================================================================
