------------------------------ MODULE MCFiles ------------------------------
(* Instances of Files for TLC. *)
EXTENDS Files, TLC

Symmetry == Permutations(FileIds) \cup Permutations(Completers)
            \cup Permutations(Workers) \cup Permutations(Owners) \cup Permutations(Purgers)

\* Bound: how many calls of complete and runs of the purge are under way at once,
\* beside the changes of the logo and the workers.  Any two of them may meet.
MaxBusy == 2

Within ==
  Cardinality({c \in Completers : call[c].stage # "idle"})
    + Cardinality({p \in Purgers : purge[p].stage # "idle"}) <= MaxBusy

MCSafeSpec == FilesInit /\ [][FilesNext /\ Within']_filesVars
=============================================================================
