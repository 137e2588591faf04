----------------------------- MODULE MCAuthzFacts -----------------------------
(***************************************************************************)
(* Databases for TLC to start from.                                        *)
(***************************************************************************)
EXTENDS AuthzFacts

\* Any rows for the given facts; the others as for a user with a role that maps
\* to P, without overrides and ACLs.
Usual == [f \in Fact |-> IF f \in {"role", "grant"} THEN "present" ELSE "absent"]
ViewsOn(facts) == {w \in View : \A f \in Fact \ facts : w[f] = Usual[f]}

OnRole == ViewsOn({"role"})
\* Access by the role and by an ACL.
Both   == {[Usual EXCEPT !["acl"] = "present"]}
=============================================================================
