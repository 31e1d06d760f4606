---------------------------- MODULE MCWorkspaces ----------------------------
(* Instances of Workspaces for TLC. *)
EXTENDS Workspaces, TLC

CONSTANTS floor, create, s1, s2

MCLimit == [b \in Budgets |-> 1]
MCChecks == {<<floor>>, <<floor, create>>}
\* A route of each kind the audit accepts.
MCRoutes ==
  {[audience |-> "user", public |-> TRUE, markers |-> {}],
   [audience |-> "admin", public |-> TRUE, markers |-> {}],
   [audience |-> "user", public |-> FALSE, markers |-> {"noWorkspace"}],
   [audience |-> "user", public |-> FALSE, markers |-> {"anyMember"}],
   [audience |-> "user", public |-> FALSE, markers |-> {"workspaceKey"}],
   [audience |-> "admin", public |-> FALSE, markers |-> {"anyAdmin"}],
   [audience |-> "admin", public |-> FALSE, markers |-> {"adminKey"}]}
Symmetry == Permutations(Calls) \cup Permutations({s1, s2})
=============================================================================
