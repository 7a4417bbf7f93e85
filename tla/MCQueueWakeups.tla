--------------------------- MODULE MCQueueWakeups ---------------------------
(* QueueWakeups on small instances. *)
EXTENDS QueueWakeups, TLC

Symmetry == Permutations(Procs)
=============================================================================
