------------------------------ MODULE Sublists ------------------------------
(***************************************************************************)
(* Parts of a list, in the order of the list: what a loop that skips some  *)
(* of the entries keeps.                                                   *)
(***************************************************************************)
EXTENDS Naturals, FiniteSets

\* The k-th number of a set, counting upwards.
Nth(set, k) == CHOOSE i \in set : Cardinality({j \in set : j <= i}) = k

\* The entries of list at these places.
Picked(list, places) == [k \in 1 .. Cardinality(places) |-> list[Nth(places, k)]]
=============================================================================
