------------------------------ MODULE Sifting ------------------------------
(***************************************************************************)
(* JavaScript's filter: the elements of a list that pass, in their order.  *)
(* Given by the places that pass, so that it can be reasoned about without *)
(* recursion.                                                              *)
(***************************************************************************)
EXTENDS Naturals, FiniteSets

(* The k-th member of a finite set of numbers, in ascending order.          *)
Nth(I, k) == CHOOSE i \in I : Cardinality({j \in I : j <= i}) = k

(* What the list s has at the places I.                                     *)
Picked(s, I) == [k \in 1..Cardinality(I) |-> s[Nth(I, k)]]

=============================================================================
