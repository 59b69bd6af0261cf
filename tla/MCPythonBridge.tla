--------------------------- MODULE MCPythonBridge ---------------------------
(* PythonBridge on a small instance: calls and sessions are model values,  *)
(* and interchangeable.                                                    *)
EXTENDS PythonBridge, TLC

Symmetry == Permutations(Calls) \cup Permutations(SessionIds)
=============================================================================
