-------------------------- MODULE MCAuthzStaleness --------------------------
(***************************************************************************)
(* AuthzStaleness for TLC.                                                 *)
(***************************************************************************)
EXTENDS AuthzStaleness, MCAuthzFacts, TLC

Symmetry == Permutations(Checks) \cup Permutations(Requests)
=============================================================================
