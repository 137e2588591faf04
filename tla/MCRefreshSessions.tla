-------------------------- MODULE MCRefreshSessions --------------------------
(***************************************************************************)
(* RefreshSessions for TLC.                                                *)
(***************************************************************************)
EXTENDS RefreshSessions, TLC

\* What the steps and the properties of the run depend on: not how, nor whether a
\* token that is gone has expired, nor the target of an administrator who writes nothing.
View ==
    <<isActive, rows, issued, expired \cap (rows \cup {presented[c] : c \in Calls}), callVars,
      tx, dirty, {a \in Admins : dirty[a] /\ target[a]}, parent, root, raced, over, cut, late>>

Symmetry == Permutations(Tokens) \cup Permutations(Calls) \cup Permutations(Admins)
=============================================================================
