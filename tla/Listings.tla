------------------------------- MODULE Listings -------------------------------
(***************************************************************************)
(* The elements of a finite set, listed from the least to the greatest: a  *)
(* BTreeMap that is gone through, or a vector that was sorted.             *)
(*                                                                         *)
(* Of each element x, below[x] is the set of the elements that come before *)
(* it.                                                                     *)
(***************************************************************************)
EXTENDS Integers, FiniteSets

Ascending(S, below) ==
  [i \in 1..Cardinality(S) |-> CHOOSE x \in S : Cardinality(below[x]) = i - 1]

===============================================================================
