----------------------------- MODULE MCRoleRun -----------------------------
(***************************************************************************)
(* RoleRun with a few interchangeable handoffs.                            *)
(***************************************************************************)
EXTENDS RoleRun, TLC

TaskSymmetry == Permutations(Tasks)

=============================================================================
