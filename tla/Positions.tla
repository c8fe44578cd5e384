------------------------------- MODULE Positions -------------------------------
(***************************************************************************)
(* What a list comprehension keeps: the entries of a sequence at some of   *)
(* its positions, in their order.  It is said by counting positions from   *)
(* the left, and not with SelectSeq, whose recursion no prover unfolds.    *)
(***************************************************************************)
EXTENDS Naturals, Sequences, FiniteSets

\* The k-th position of S, from the left.
Nth(S, k) == CHOOSE i \in S : Cardinality({j \in S : j <= i}) = k

\* The entries of s at the positions S.
Selected(s, S) == [k \in 1 .. Cardinality(S) |-> s[Nth(S, k)]]
=============================================================================
