-------------------------- MODULE MCTransferWorker --------------------------
(* TransferWorker on small instances. *)
EXTENDS TransferWorker, TLC

Symmetry == Permutations(Runs) \cup Permutations(Procs)
==============================================================================
