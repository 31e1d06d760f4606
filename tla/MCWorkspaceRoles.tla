-------------------------- MODULE MCWorkspaceRoles --------------------------
(* Instances of WorkspaceRoles for TLC: member m manages through the custom *)
(* role r1 and holds the default role d; the key view is beyond m.          *)
EXTENDS WorkspaceRoles, TLC

CONSTANTS m, r1, r2, r3, r4, d, manage, invite, view, archive

MCDefaultsFor == [x \in {d} |-> {invite}]
MCInitialRoles == [x \in {m} |-> {r1, d}]
MCInitialGrants == [x \in {r1} |-> {manage}]
MCWanted == {{manage}, {manage, view}, {archive}}
Symmetry == Permutations(Requests) \cup Permutations({r2, r3, r4})
=============================================================================
