------------------------------ MODULE Sublists ------------------------------
(***************************************************************************)
(* Parts of a list that keep its order, given by their positions.          *)
(***************************************************************************)
EXTENDS Integers, FiniteSets

\* The k-th smallest number in the set K.
Nth(K, k) == CHOOSE i \in K : Cardinality({j \in K : j <= i}) = k

\* The elements of list at the positions K.
At(list, K) == [k \in 1..Cardinality(K) |-> list[Nth(K, k)]]
=============================================================================
