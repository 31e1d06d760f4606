----------------------------- MODULE MCUserCodes -----------------------------
EXTENDS UserCodes, TLC

Symmetry == Permutations(Requests)
=============================================================================
