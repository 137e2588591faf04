------------------------------- MODULE AuthzAges -------------------------------
(***************************************************************************)
(* How long ago the database of AuthzFacts said what.  In a function a of  *)
(* ages, a[u][f][v] is the time since the committed row of fact f of user  *)
(* u was v, 0 when it is v now.  The ages are history: the program does    *)
(* not compute them.                                                       *)
(***************************************************************************)
EXTENDS Integers, AuthzFacts

CONSTANT Horizon   \* bound: ages are not counted beyond it

Min2(a, b) == IF a =< b THEN a ELSE b

FirstAges(d) == [u \in Users |-> [f \in Fact |-> [v \in Row |->
                    IF d[u][f] = v THEN 0 ELSE Horizon]]]

\* ... when the database becomes d, and when one unit of time passes in it
AgesUpon(a, d) == [u \in Users |-> [f \in Fact |-> [v \in Row |->
                      IF d[u][f] = v THEN 0 ELSE a[u][f][v]]]]
AgesAfterTick(a, d) == [u \in Users |-> [f \in Fact |-> [v \in Row |->
                           IF d[u][f] = v THEN 0 ELSE Min2(a[u][f][v] + 1, Horizon)]]]

\* v is what rows that were each committed at most n ago decide for a user
\* with ages au.  The rows need not have been there at the same time: check()
\* reads them in separate statements, and through caches filled at different
\* times.
HeldWithin(au, w, n) == \A f \in Fact : au[f][w[f]] =< n
Justified(au, kind, v, n) ==
    \E w \in View : HeldWithin(au, w, n) /\ Decides(kind, w) = v
=============================================================================
