---------------------------- MODULE MCLeaseRace ----------------------------
(* LeaseRace on small instances. *)
EXTENDS LeaseRace, TLC

Symmetry == Permutations(Workers)
==============================================================================
