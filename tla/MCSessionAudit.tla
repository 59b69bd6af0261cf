--------------------------- MODULE MCSessionAudit ---------------------------
(* SessionAudit on a small instance: the calls and the sessions are model  *)
(* values, and interchangeable.                                            *)
EXTENDS SessionAudit, TLC

Symmetry == Permutations(Requests) \cup Permutations(SessionIds)
=============================================================================
