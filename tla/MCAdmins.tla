------------------------------ MODULE MCAdmins ------------------------------
(* Instances of Admins for TLC. *)
EXTENDS Admins, TLC

Symmetry == Permutations(Calls) \cup Permutations(Seeders) \cup Permutations(Devices)
=============================================================================
