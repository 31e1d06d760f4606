---------------------------- MODULE MCDeployment ----------------------------
(* Instances of Deployment for TLC: a release, the next one, and one whose *)
(* catalogue gives a restricted permission by default.                     *)
EXTENDS Deployment, TLC

CONSTANTS q1, q2, j1, j2, k1, k2, a1, d1, d2, old, new, bad

Entry(restricted, text, defaultFor) == [restricted |-> restricted, text |-> text, defaultFor |-> defaultFor]

(* The new release moves j2 to another queue. *)
MCDeclared == [r \in Releases |-> IF r = new THEN {<<q1, j1>>, <<q2, j2>>} ELSE {<<q1, j1>>, <<q1, j2>>}]

(* It restricts k1, rewords k2 and gives it to both roles, and drops a1.   *)
MCCatalogue == [r \in Releases |->
  CASE r = old -> (k1 :> Entry(FALSE, "one", {d1}) @@ k2 :> Entry(FALSE, "two", {d1}) @@ a1 :> Entry(FALSE, "a", {}))
    [] r = new -> (k1 :> Entry(TRUE, "one", {}) @@ k2 :> Entry(FALSE, "too", {d1, d2}) @@ a1 :> None)
    [] r = bad -> (k1 :> Entry(TRUE, "one", {d1}) @@ k2 :> Entry(FALSE, "two", {d1}) @@ a1 :> None)]

MCRoleOrder == <<d1, d2>>
MCRoleText == [r \in Releases |-> (d1 :> "admin" @@ d2 :> IF r = new THEN "agent" ELSE "clerk")]
MCSelections == {{"workspace-permissions", "workspace-default-roles", "admin-permissions"},
                 {"workspace-default-roles"}}

Symmetry == Permutations(Processes)
=============================================================================
