------------------------------- MODULE Sorted -------------------------------
(***************************************************************************)
(* A finite set of numbers in order, as a sort by name, by time or by _id  *)
(* returns it. Written without an operator for the order as parameter, of  *)
(* which the provers know nothing.                                         *)
(***************************************************************************)
EXTENDS Naturals, FiniteSets

Ascending(S) == [i \in 1..Cardinality(S) |-> CHOOSE r \in S : Cardinality({t \in S : t <= r}) = i]
Descending(S) == [i \in 1..Cardinality(S) |-> CHOOSE r \in S : Cardinality({t \in S : r <= t}) = i]
=============================================================================
