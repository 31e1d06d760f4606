--------------------------- MODULE MCReadThrough ---------------------------
(* Instances of ReadThrough for TLC. *)
EXTENDS ReadThrough
=============================================================================
