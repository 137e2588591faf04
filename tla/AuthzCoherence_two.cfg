\* Two requests on a role, its permissions and an ACL, a role that is deleted, and an
\* assignment that expires.
SPECIFICATION HSpec
CONSTANTS
    Initially <- OnRole
    Users = {u1}
    Checks = {c1}
    Requests = {r1, r2}
    Operations = {"role", "grant", "acl", "delete"}
    Temporary = {u1}
    Scopes = {"resource"}
    UsesSdk = FALSE
    PermsTTL = 1
    DecisionTTL = 1
    CheckTime = 1
SYMMETRY Symmetry
VIEW Relevant
INVARIANT Coherent
