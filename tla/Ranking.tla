------------------------------- MODULE Ranking -------------------------------
(* The place of a number in a set of numbers, and the number at a place. *)
EXTENDS FiniteSets, Naturals

Rank(S, i) == Cardinality({j \in S : j <= i})
Ranked(S, n) == CHOOSE i \in S : Rank(S, i) = n
=============================================================================
