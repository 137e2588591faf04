------------------------------ MODULE AuthzFacts ------------------------------
(***************************************************************************)
(* What the database of Generic-IAM says about one permission P and one    *)
(* resource R, and what it decides.                                        *)
(*                                                                         *)
(* For a user, the database is a record of four facts, each of them a row  *)
(* that is there or not:                                                   *)
(*   role      an unexpired user_roles row for the role that maps to P     *)
(*   grant     the role_permissions row that maps the role to P            *)
(*   override  the user_permission_overrides row for P, GRANT or DENY      *)
(*   acl       the resource_acls row for P on R                            *)
(* P is held by its exact code; PermissionMatcher has the wildcards.       *)
(***************************************************************************)

CONSTANT Users   \* the users of the tenant

Fact == {"role", "grant", "override", "acl"}
Row  == {"absent", "present", "GRANT", "DENY"}
RowsOf(f) == IF f = "override" THEN {"absent", "GRANT", "DENY"}
                               ELSE {"absent", "present"}
View == {w \in [Fact -> Row] : \A f \in Fact : w[f] \in RowsOf(f)}

-----------------------------------------------------------------------------
(* What rows decide. *)

RoleGrants(w) == w["role"] = "present" /\ w["grant"] = "present"

\* getEffectivePermissions: (role permissions + grants) - denies
Effective(roleGrants, override) ==
    (roleGrants \/ override = "GRANT") /\ override # "DENY"

Granted(w) == Effective(RoleGrants(w), w["override"])

\* What the rows of a view decide for each kind of cache entry, and for each
\* of the reads a check makes on the way to one.
Decides(kind, w) ==
    CASE kind = "role"     -> w["role"] = "present"
      [] kind = "roles"    -> RoleGrants(w)
      [] kind = "perms"    -> Granted(w)
      [] kind = "acl"      -> w["acl"] = "present"
      [] kind = "plain"    -> Granted(w)
      [] kind = "resource" -> Granted(w) \/ w["acl"] = "present"
=============================================================================
