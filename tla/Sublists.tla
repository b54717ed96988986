------------------------------ MODULE Sublists ------------------------------
(***************************************************************************)
(* Lists with some members left out, the way a loop that erases or skips   *)
(* them leaves the others: in their order.                                 *)
(***************************************************************************)
EXTENDS Integers, FiniteSets

(* the k-th smallest member of a set of numbers *)
Nth(S, k) == CHOOSE i \in S : Cardinality({j \in S : j <= i}) = k

(* the members of a list at the given places *)
Sublist(list, places) == [k \in 1 .. Cardinality(places) |-> list[Nth(places, k)]]

=============================================================================
