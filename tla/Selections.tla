----------------------------- MODULE Selections -----------------------------
(***************************************************************************)
(* A set of numbers in ascending order, as a std::map or std::set is       *)
(* walked through, and the elements of a vector that a loop picks out.     *)
(***************************************************************************)
EXTENDS Integers, Sequences, FiniteSets

InOrder(S) ==
  [k \in 1 .. Cardinality(S) |-> CHOOSE x \in S : Cardinality({y \in S : y < x}) = k - 1]

(* The elements of s with the indices I, in the order of s.                *)
Selected(s, I) ==
  LET order == InOrder(I) IN [k \in 1 .. Cardinality(I) |-> s[order[k]]]
=============================================================================
