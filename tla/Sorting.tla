------------------------------- MODULE Sorting -------------------------------
(***************************************************************************)
(* sort.Strings, on strings numbered in the order that sorts them: in the  *)
(* place of a string is how many come before it.                           *)
(***************************************************************************)
EXTENDS Integers, FiniteSets

InOrder(names) ==
    [i \in 1 .. Cardinality(names) |->
        CHOOSE k \in names : Cardinality({j \in names : j < k}) = i - 1]
=============================================================================
