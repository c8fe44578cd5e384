----------------------------- MODULE OrderedStore -----------------------------
(***************************************************************************)
(* What asynchronous cache writes promise: the writes accepted by a worker *)
(* reach the store in the order they were accepted, some prefix of them at *)
(* any time, and the store never goes back to an earlier prefix.  Only the *)
(* end of the worker leaves accepted writes out.                           *)
(***************************************************************************)
EXTENDS Naturals, Sequences

CONSTANTS Keys, Responses, NoResponse

Writes == [key : Keys, response : Responses]

\* Writing b in order: the last write to a key is the one that stays.
WriteAll(s, b) ==
    [k \in Keys |->
        LET at == {i \in 1 .. Len(b) : b[i].key = k}
        IN  IF at = {} THEN s[k]
            ELSE b[CHOOSE i \in at : \A j \in at : j <= i].response]

VARIABLES pending,   \* accepted writes the store has not seen
          store,     \* key -> response
          open       \* FALSE once the writer has ended

vars == <<pending, store, open>>

Init == /\ pending = <<>>
        /\ store = [k \in Keys |-> NoResponse]
        /\ open \in BOOLEAN

Accept == /\ \E w \in Writes : pending' = Append(pending, w)
          /\ UNCHANGED <<store, open>>

Apply == /\ open
         /\ \E n \in 1 .. Len(pending) :
               /\ store' = WriteAll(store, SubSeq(pending, 1, n))
               /\ pending' = SubSeq(pending, n + 1, Len(pending))
         /\ open' \in BOOLEAN

End == open /\ open' = FALSE /\ UNCHANGED <<pending, store>>

Next == Accept \/ Apply \/ End

Spec == Init /\ [][Next]_vars
=============================================================================
