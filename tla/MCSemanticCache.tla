---------------------------- MODULE MCSemanticCache ----------------------------
(***************************************************************************)
(* A small cache for TLC: one prompt nobody asks here but other workers do *)
(* makes a chain of similar prompts whose ends are not similar.            *)
(***************************************************************************)
EXTENDS SemanticCache, TLC

CONSTANTS q1, q2, q3,
          Asked,       \* the prompts this worker's clients send
          MaxWriting   \* answers on their way to redis

MCSimilar == {<<q, q>> : q \in {q1, q2, q3}}
                \cup {<<q1, q2>>, <<q2, q1>>, <<q2, q3>>, <<q3, q2>>}

Idle(t) == pc[t] = "idle"

\* What an invalidate() or clear_all() meets is one lookup, in flight or begun while
\* it is under way; there is one of them at a time.
MCLookup(t) ==
    /\ clearing \/ invalidating # None => \A u \in Requests : Idle(u)
    /\ \E q \in Asked : Lookup(t, q)

MCCallLLM(t) == Cardinality(writing) < MaxWriting /\ CallLLM(t)

MCStored == \E q \in Queries \ Asked : OtherWorkerStores(q)

MCAdmin ==
    \/ /\ ~ clearing /\ invalidating = None
       /\ \A t, u \in Requests : Idle(t) \/ Idle(u) \/ t = u
       /\ Invalidate(q2) \/ ClearAll
    \/ InvalidateLocal \/ ClearLocal

MCNext ==
    \/ \E t \in Requests : \/ MCLookup(t) \/ SemanticTier(t) \/ CountHit(t)
                           \/ TouchAccessed(t) \/ MCCallLLM(t)
    \/ \E q \in Queries : StoreWrite(q) \/ SetFails(q) \/ Expire(q)
    \/ MCStored \/ MCAdmin \/ LocalEntryAges \/ Restart

MCSpec == Init /\ [][MCNext]_vars

LookupSymmetry == Permutations(Requests)
=============================================================================
