\* An ACL is removed and a role expires; two calls, of check or through the SDK, name the resource.
SPECIFICATION ASpec
CONSTANTS
    Initially <- Both
    Users = {u1}
    Checks = {c1, c2}
    Requests = {r1}
    Operations = {"acl"}
    Temporary = {u1}
    Scopes = {"resource"}
    UsesSdk = TRUE
    PermsTTL = 1
    DecisionTTL = 1
    CheckTime = 1
    Horizon = 5
SYMMETRY Symmetry
INVARIANTS EntriesBounded ChecksBounded
PROPERTY KeepsContract
