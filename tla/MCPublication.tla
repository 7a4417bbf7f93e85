--------------------------- MODULE MCPublication ---------------------------
(* DatabricksPublication on a small instance. *)
EXTENDS DatabricksPublication, TLC

Symmetry == Permutations(Runs) \cup Permutations(Procs)
=============================================================================
