--------------------------- MODULE MCRoleGuarantees ---------------------------
(***************************************************************************)
(* RoleGuarantees for TLC.                                                 *)
(***************************************************************************)
EXTENDS RoleGuarantees, TLC

Symmetry == Permutations(Rows) \cup Permutations(Requests)
=============================================================================
