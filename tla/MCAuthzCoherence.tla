--------------------------- MODULE MCAuthzCoherence ---------------------------
(***************************************************************************)
(* AuthzCoherence for TLC.                                                 *)
(***************************************************************************)
EXTENDS AuthzCoherence, MCAuthzFacts, TLC

\* What a later step or Coherent depends on: neither the answers that checks have
\* given nor what a closed request has written.
Relevant ==
    <<db, cache, pc, subject, scope, seen, elapsed, tx, stage, found, hazard,
      [r \in Requests |-> IF tx[r] = "open" THEN change[r]
                                           ELSE [change[r] EXCEPT !.row = "absent"]]>>

Symmetry == Permutations(Checks) \cup Permutations(Requests)
=============================================================================
