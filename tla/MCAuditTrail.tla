---------------------------- MODULE MCAuditTrail ----------------------------
(* Identities are interchangeable. *)
EXTENDS AuditTrail

Symmetry == Permutations(ID)
=============================================================================
