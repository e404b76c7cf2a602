------------------------------- MODULE Sublist -------------------------------
(***************************************************************************)
(* What is left of a list when only some of its places are kept: the list  *)
(* SelectSeq computes, defined by counting instead of by recursion on the  *)
(* list, so that the provers can reason about it.                          *)
(***************************************************************************)
EXTENDS Naturals, Sequences, FiniteSets

\* The k-th of a set of places, and what a list keeps at such a set, in order.
Nth(places, k) == CHOOSE i \in places : Cardinality({j \in places : j <= i}) = k
KeptAt(list, places) == [k \in 1..Cardinality(places) |-> list[Nth(places, k)]]
=============================================================================
