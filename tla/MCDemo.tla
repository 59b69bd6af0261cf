------------------------------- MODULE MCDemo -------------------------------
(* Demo on a small instance.  Calls and addresses are interchangeable, and *)
(* the properties are invariants.                                          *)
EXTENDS Demo, TLC

Interchangeable == Permutations(Calls) \cup Permutations(Addresses)
=============================================================================
