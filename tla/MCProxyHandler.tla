---------------------------- MODULE MCProxyHandler ----------------------------
(***************************************************************************)
(* A small proxy for TLC.  The breaker's failure count is the only         *)
(* unbounded state: no chat begins once it is at MaxFailures, so it stays  *)
(* below MaxFailures plus the number of clients.  A closed breaker never   *)
(* gets there, so no behaviour before the first trip is cut off.           *)
(***************************************************************************)
EXTENDS ProxyHandler

CONSTANTS
    MaxFailures,
    BatchClients    \* the clients that send batches; every client chats

MCChat(c, p) == failure_count < MaxFailures /\ Chat(c, p)

MCBegin(c) ==
    \/ \E p \in Prompts : MCChat(c, p)
    \/ c \in BatchClients /\ Batch(c, Prompts)

MCNext == Background \/ \E c \in Clients : MCBegin(c) \/ RequestStep(c)

MCSpec == Init /\ [][MCNext]_vars /\ Fairness
=============================================================================
