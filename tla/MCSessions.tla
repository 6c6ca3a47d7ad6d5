----------------------------- MODULE MCSessions -----------------------------
(* Instance of Sessions for TLC.                                           *)
EXTENDS Sessions, TLC

Symmetry == Permutations(SessionIds) \cup Permutations(Requests) \cup Permutations(Users) \cup Permutations(Clients)
=============================================================================
