------------------------------ MODULE WriteBehind ------------------------------
(***************************************************************************)
(* app/cache/redis_client.py: the write-behind path of one worker process, *)
(* from store_with_embedding_async through _batch_queue and                *)
(* _batch_write_worker to store_batch, and close().                        *)
(*                                                                         *)
(* A write is its key and its response: the embedding, ttl and hit_count   *)
(* travel with them unchanged.  Expiry and deletion of keys are in         *)
(* SemanticCache; here redis is what the writes alone make of it.  A step  *)
(* is the code between two awaits.  A tick is the 0.1 s of the flush test. *)
(* Definitions named Name_Variant are plausible bugs, put in Name's place  *)
(* to see that a property notices.                                         *)
(***************************************************************************)
EXTENDS Naturals, Sequences

CONSTANTS
    Keys, Responses, NoResponse,
    SetTasks,              \* the set() tasks that may be storing at once
    NoWrite,
    queue_maxsize,         \* cache_async_write_queue_size
    pipeline_batch_size,
    FlushInterval,         \* 0.1 s, in ticks
    GetTimeout,            \* 0.5 s: timeout of wait_for(queue.get())
    Backoff                \* 1 s: the sleep after a failed store

ASSUME WriteBehindAssumption ==
    /\ queue_maxsize \in Nat \ {0}
    /\ pipeline_batch_size \in Nat \ {0}
    /\ FlushInterval \in Nat
    /\ GetTimeout \in Nat
    /\ Backoff \in Nat
    /\ NoWrite \notin [key : Keys, response : Responses]

VARIABLES
    queue,         \* _batch_queue
    batch,         \* the worker's local list
    worker,        \* where it awaits: "get", "storing", "sleep", or "off"
    timer,         \* time spent in that wait_for or sleep
    since_flush,   \* time.time() - last_flush, counted up to FlushInterval + 1
    blocked,       \* per set() task, the write its put() waits to enqueue
    redis,         \* key -> response
    shutdown,      \* close(): "no", "closed", or "hung"
    \* history, read by no action's guard
    accepted,      \* every write enqueued
    applied,       \* how many of them redis has executed
    failures,      \* store_batch calls failed since the last one succeeded
    age            \* time some write in batch has waited since its last attempt

writerVars == <<queue, batch, worker, timer, since_flush, blocked, redis, shutdown,
                accepted, applied, failures, age>>

Writes == [key : Keys, response : Responses]

WriterTypeOK ==
    /\ queue \in Seq(Writes) /\ Len(queue) <= queue_maxsize
    /\ batch \in Seq(Writes)
    /\ worker \in {"get", "storing", "sleep", "off"}
    /\ timer \in Nat
    /\ since_flush \in 0 .. FlushInterval + 1
    /\ blocked \in [SetTasks -> Writes \cup {NoWrite}]
    /\ redis \in [Keys -> Responses \cup {NoResponse}]
    /\ shutdown \in {"no", "closed", "hung"}
    /\ accepted \in Seq(Writes)
    /\ applied \in 0 .. Len(accepted)
    /\ failures \in Nat
    /\ age \in Nat

WriterInit ==
    /\ queue = <<>> /\ batch = <<>>
    /\ worker = "get" /\ timer = 0 /\ since_flush = 0
    /\ blocked = [t \in SetTasks |-> NoWrite]
    /\ redis = [k \in Keys |-> NoResponse]
    /\ shutdown = "no"
    /\ accepted = <<>> /\ applied = 0 /\ failures = 0 /\ age = 0

-----------------------------------------------------------------------------
(* The producers: set() tasks awaiting queue.put().                        *)

HasRoom_Unbounded == TRUE

HasRoom == Len(queue) < queue_maxsize

Enqueue(w) ==
    /\ HasRoom
    /\ queue' = Append(queue, w)
    /\ accepted' = Append(accepted, w)

\* store_with_embedding_async: the put goes through, or waits on a full queue.
Put(t, w) ==
    /\ blocked[t] = NoWrite
    /\ \/ Enqueue(w) /\ UNCHANGED blocked
       \/ /\ ~ HasRoom
          /\ blocked' = [blocked EXCEPT ![t] = w]
          /\ UNCHANGED <<queue, accepted>>
    /\ UNCHANGED <<batch, worker, timer, since_flush, redis, shutdown, applied,
                   failures, age>>

\* A waiting put finds room.
PutResumes(t) ==
    /\ blocked[t] # NoWrite
    /\ Enqueue(blocked[t])
    /\ blocked' = [blocked EXCEPT ![t] = NoWrite]
    /\ UNCHANGED <<batch, worker, timer, since_flush, redis, shutdown, applied,
                   failures, age>>

-----------------------------------------------------------------------------
(* The worker.  No await separates the end of wait_for, the append, the     *)
(* flush test and the start of store_batch or of the next wait_for.         *)

FlushDue_OnlyWhenFull(b) == Len(b) >= pipeline_batch_size
FlushDue_OnlyWhenStale(b) == b # <<>> /\ since_flush > FlushInterval

FlushDue(b) ==
    \/ Len(b) >= pipeline_batch_size
    \/ b # <<>> /\ since_flush > FlushInterval

\* The rest of the iteration, with batch = b.
Iterate(b) ==
    /\ batch' = b
    /\ worker' = IF FlushDue(b) THEN "storing" ELSE "get"
    /\ timer' = 0

\* The item taken from the queue joins the end of the batch.
TakeItem_AtFront == queue' = Tail(queue) /\ Iterate(<<Head(queue)>> \o batch)

TakeItem == queue' = Tail(queue) /\ Iterate(Append(batch, Head(queue)))

Get ==
    /\ worker = "get" /\ queue # <<>>
    /\ TakeItem
    /\ UNCHANGED <<since_flush, blocked, redis, shutdown, accepted, applied,
                   failures, age>>

\* asyncio.TimeoutError is passed over: the flush test runs all the same.
GetTimesOut ==
    /\ worker = "get" /\ timer = GetTimeout
    /\ Iterate(batch)
    /\ UNCHANGED <<queue, since_flush, blocked, redis, shutdown, accepted, applied,
                   failures, age>>

LastWriteTo_First(b, k) ==
    CHOOSE i \in 1 .. Len(b) :
        b[i].key = k /\ \A j \in 1 .. Len(b) : b[j].key = k => i <= j

LastWriteTo(b, k) ==
    CHOOSE i \in 1 .. Len(b) :
        b[i].key = k /\ \A j \in 1 .. Len(b) : b[j].key = k => j <= i

\* store_batch: one MULTI/EXEC pipeline, its commands in the batch's order.
Execute ==
    /\ redis' = [k \in Keys |->
                    IF \E i \in 1 .. Len(batch) : batch[i].key = k
                      THEN batch[LastWriteTo(batch, k)].response
                      ELSE redis[k]]
    /\ applied' = Len(accepted) - Len(queue)

StoreSucceeds ==
    /\ worker = "storing"
    /\ Execute
    /\ batch' = <<>> /\ since_flush' = 0
    /\ worker' = "get" /\ timer' = 0
    /\ failures' = 0 /\ age' = 0
    /\ UNCHANGED <<queue, blocked, shutdown, accepted>>

KeepBatch_Dropped == batch' = <<>>

\* Only a store that returned empties the batch: a failed one is tried again.
KeepBatch == UNCHANGED batch

\* The pipeline raised.  Its connection may have failed before redis executed
\* it or after, when only the reply was lost.
StoreFails ==
    /\ worker = "storing"
    /\ Execute \/ UNCHANGED <<redis, applied>>
    /\ KeepBatch
    /\ worker' = "sleep" /\ timer' = 0
    /\ failures' = failures + 1 /\ age' = 0
    /\ UNCHANGED <<queue, since_flush, blocked, shutdown, accepted>>

SleepEnds ==
    /\ worker = "sleep" /\ timer = Backoff
    /\ worker' = "get" /\ timer' = 0
    /\ UNCHANGED <<queue, batch, since_flush, blocked, redis, shutdown, accepted,
                   applied, failures, age>>

-----------------------------------------------------------------------------
\* close(): the cancelled worker unwinds from its await and batch goes with it.
\* A pipeline already sent may be executed.
Close ==
    /\ shutdown = "no"
    /\ \/ worker = "storing" /\ Execute
       \/ UNCHANGED <<redis, applied>>
    /\ worker' = "off" /\ batch' = <<>> /\ timer' = 0 /\ age' = 0
    /\ shutdown' = "closed"
    /\ UNCHANGED <<queue, since_flush, blocked, accepted, failures>>

\* close() when queue.get() has just completed: wait_for of Python 3.11 (the
\* image's) then returns the item and drops the cancellation, so the worker
\* goes on and close() awaits it for ever.
CloseSwallowed ==
    /\ shutdown = "no"
    /\ worker = "get" /\ queue # <<>>
    /\ TakeItem
    /\ shutdown' = "hung"
    /\ UNCHANGED <<since_flush, blocked, redis, accepted, applied, failures, age>>

\* Time passes while the worker waits; it never oversleeps a wake-up.
WriterTick ==
    /\ \/ worker = "get" /\ queue = <<>> /\ timer < GetTimeout
       \/ worker = "sleep" /\ timer < Backoff
       \/ worker = "storing" /\ since_flush <= FlushInterval
    /\ timer' = IF worker = "storing" THEN timer ELSE timer + 1
    /\ since_flush' = IF since_flush <= FlushInterval THEN since_flush + 1
                                                      ELSE since_flush
    /\ age' = IF worker # "storing" /\ batch # <<>> THEN age + 1 ELSE age
    /\ UNCHANGED <<queue, batch, worker, blocked, redis, shutdown, accepted,
                   applied, failures>>

WorkerStep == Get \/ GetTimesOut \/ StoreSucceeds \/ StoreFails \/ SleepEnds

WriterNext ==
    \/ \E t \in SetTasks : PutResumes(t) \/ \E w \in Writes : Put(t, w)
    \/ WorkerStep
    \/ Close \/ CloseSwallowed
    \/ WriterTick

WriterSpec == WriterInit /\ [][WriterNext]_writerVars

\* The event loop runs what is ready, time passes, redis answers or drops the
\* connection.  Nothing is assumed of the requests or of close().
WriterFairness ==
    /\ WF_writerVars(WorkerStep) /\ WF_writerVars(WriterTick)
    /\ \A t \in SetTasks : WF_writerVars(PutResumes(t))

WriterFairSpec == WriterSpec /\ WriterFairness

-----------------------------------------------------------------------------
\* While the worker runs, what is left of the accepted writes is in its batch
\* and its queue, in the order of acceptance: the retry after a failed store
\* neither drops nor reorders anything.
NothingLost ==
    worker # "off" =>
        LET left == batch \o queue
        IN  left = SubSeq(accepted, Len(accepted) - Len(left) + 1, Len(accepted))

\* A retry after a lost reply may execute a batch twice, never skip a write:
\* what has left the batch has been executed.
FlushedWasApplied ==
    worker # "off" => Len(accepted) - Len(batch) - Len(queue) <= applied

\* The batch outgrows pipeline_batch_size by one write per failed store only:
\* one item is read between two attempts.
BatchBounded == Len(batch) <= pipeline_batch_size + failures

\* While redis answers, a write that reached the worker is sent within the
\* flush interval and one get timeout; after a failure, within the sleep and
\* one get timeout more.
AttemptIsPrompt ==
    age <= IF failures = 0 THEN FlushInterval + GetTimeout
                           ELSE Backoff + FlushInterval + GetTimeout

\* The writer keeps the promises of OrderedStore, across failed, half-failed
\* and repeated pipelines and a close in the middle of one.
Ordered == INSTANCE OrderedStore WITH
    pending <- SubSeq(accepted, applied + 1, Len(accepted)),
    store <- redis,
    open <- worker # "off"

ImplementsOrderedStore == Ordered!Spec

\* Once redis has stopped failing and no more puts begin, everything reaches it
\* and no put is left waiting for room, unless the worker is closed: the last
\* items of a burst are not left in the batch for want of a next one.
Quiet == ~ StoreFails /\ \A t \in SetTasks, w \in Writes : ~ Put(t, w)

SettlesWhenQuiet ==
    (<>[][Quiet]_writerVars /\ [](worker # "off")) =>
        <>[](applied = Len(accepted) /\ \A t \in SetTasks : blocked[t] = NoWrite)

\* "Flushes when the batch hits pipeline_batch_size OR after 100ms of
\* inactivity, whichever comes first" (redis_client.py:127-129): no write stays
\* in the batch while the worker has waited longer than that for the next item.
FlushedAfterInactivity ==
    worker = "get" /\ batch # <<>> => timer <= FlushInterval
=============================================================================
