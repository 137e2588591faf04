----------------------------- MODULE MCAuthzCache -----------------------------
(***************************************************************************)
(* AuthzCache for TLC.  Checks and Requests are interchangeable.           *)
(***************************************************************************)
EXTENDS AuthzCache, MCAuthzFacts, TLC

Symmetry == Permutations(Checks) \cup Permutations(Requests)
=============================================================================
