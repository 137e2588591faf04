---------------------------- MODULE MCRouteGuards ----------------------------
(***************************************************************************)
(* RouteGuards for TLC.  The IAM service has its own routes and seeded     *)
(* roles; another service has routes for each code of up to three parts,   *)
(* and a few with two codes, an ACL, @AllowSelf or @Public.                *)
(***************************************************************************)
EXTENDS RouteGuards

Service == "expense"
Parts == {Star, "user", "role", "acl", "tenant", "audit", "payroll", "invoice", "report",
          "workflow", "expense", "claims", "read", "write", "delete", "assign", "approve"}
Tenancy == [u \in Users |-> IF u = "stranger" THEN "theirs" ELSE "ours"]

Word     == {Service, "claims", Star}
StarLast(c) == \A k \in 1 .. Len(c) - 1 : c[k] # Star
Asked    == {c \in UNION {[1..k -> Word] : k \in 1..3} : StarLast(c) /\ c[1] \in {Service, Star}}
Holdings == {{}} \cup {{c} : c \in Asked \cup {<<Star, Star>>}}
Changes  == {{}, {<<Service, Star>>}, {<<Service, "claims", "claims">>}, {<<"user", "read">>}, {<<Star, Star>>}}

Read == <<Service, "claims">>
Pay  == <<Service, "claims", Service>>
Others ==
    {[Bare EXCEPT !.codes = <<c>>] : c \in Asked}
    \cup {[Bare EXCEPT !.codes = <<Read, Pay>>], [Bare EXCEPT !.codes = <<Pay, Read>>],
          [Public EXCEPT !.codes = <<Read>>], [Public EXCEPT !.types = Both],
          On("user", OrSelf([Bare EXCEPT !.codes = <<Read>>])), OrSelf([Bare EXCEPT !.codes = <<Read>>]),
          On("user", [Bare EXCEPT !.acl = Pay]), [Bare EXCEPT !.acl = Pay],
          On("user", [Bare EXCEPT !.codes = <<Read>>, !.acl = Pay])}
=============================================================================
