----------------------------- MODULE MCSessions -----------------------------
(* Small instances of Sessions.                                             *)
EXTENDS Sessions, TLC

Symmetry == Permutations(Logins) \cup Permutations(SessionIds) \cup Permutations(Requests)
            \cup Permutations(ResetIds)
=============================================================================
