----------------------------- MODULE MCDirectory -----------------------------
(***************************************************************************)
(* DirectoryGuarantees for TLC: one tenant with a user, one or both of     *)
(* the system roles, and requests that want the same names.                *)
(***************************************************************************)
EXTENDS DirectoryGuarantees, TLC

Op(do, table, of, key, val) ==
    [do |-> do, id |-> 0, table |-> table, of |-> of, key |-> key, val |-> val]
OnRow(do, table, key, val) == Op(do, table, 0, key, val)

\* The role Employee is the system's, or only one that the tenant calls so; a role
\* holds the permission write.
AtStart == {<<Row("tenants", 0, "acme", "Acme"), Row("users", 1, "ann", ""),
              Row("roles", 0, "Tenant Admin", ""), Row("roles", t, "Employee", ""),
              Row("role_permissions", 0, "write", "")>> : t \in {0, 1}}

Asked == {
    Op("addPermission", "role_permissions", 0, "read", ""),
    Op("removePermission", "role_permissions", 0, "read", ""),
    Op("removePermission", "role_permissions", 0, "write", ""),
    Op("createTenant", "tenants", 0, "beta", "Beta"), Op("createTenant", "tenants", 0, "b", "Beta"),
    OnRow("update", "tenants", "beta", "Acme"),
    Op("createUser", "users", 1, "bob", ""), Op("createUser", "users", 1, "bob", "Clerk"),
    OnRow("update", "users", "bob", ""),
    Op("createRole", "roles", 1, "Clerk", ""), OnRow("update", "roles", "Clerk", ""),
    Op("createAcl", "acls", 0, "read", ""), OnRow("deleteAcl", "acls", "", ""),
    Op("addOverride", "overrides", 2, "read", "GRANT"), Op("addOverride", "overrides", 2, "read", "DENY"),
    OnRow("removeOverride", "overrides", "", "")}

Strings == STRING

Alike == Permutations(Requests)
=============================================================================
