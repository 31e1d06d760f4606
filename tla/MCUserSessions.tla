--------------------------- MODULE MCUserSessions ---------------------------
(* Instances of UserSessions for TLC. *)
EXTENDS UserSessions, TLC

Symmetry == Permutations(Requests) \cup Permutations(Devices)
=============================================================================
