------------------------- MODULE MCSessionHandlers -------------------------
(* SessionHandlers, and what SessionLog says of it, on a small instance:   *)
(* the calls and the sessions are model values.  They are interchangeable, *)
(* which only runs without a liveness property may use.                    *)
EXTENDS SessionLog, TLC

Symmetry == Permutations(Requests) \cup Permutations(SessionIds)
=============================================================================
