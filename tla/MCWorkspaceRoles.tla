-------------------------- MODULE MCWorkspaceRoles --------------------------
(***************************************************************************)
(* Instances of WorkspaceRoles for TLC.                                    *)
(***************************************************************************)
EXTENDS WorkspaceRoles, TLC

CONSTANTS operators, approvers

MCGroup == {operators, approvers}
MCRoleOf == (operators :> 2) @@ (approvers :> 3)

Symmetry == Permutations(Lookup)
=============================================================================
