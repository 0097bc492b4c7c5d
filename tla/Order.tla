------------------------------- MODULE Order -------------------------------
(***************************************************************************)
(* Sets of numbers in increasing order: lcore ids as RTE_LCORE_FOREACH     *)
(* visits them, ports as RTE_ETH_FOREACH_DEV does, the buffers of a pool,  *)
(* the entries of a list.                                                  *)
(***************************************************************************)
EXTENDS Integers, FiniteSets

\* How many members of S come before x, and S in increasing order.
Rank(S, x) == Cardinality({o \in S : o < x})

Ascending(S) == [n \in 1 .. Cardinality(S) |-> CHOOSE x \in S : Rank(S, x) = n-1]

\* The members of a sequence at some of its positions, in their order.
Selected(q, S) == [n \in 1 .. Cardinality(S) |-> q[Ascending(S)[n]]]

=============================================================================
