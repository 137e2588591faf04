\* One request of any kind, an expiring role, and a check after another of either scope.
SPECIFICATION FairSpec
CONSTANTS
    Initially <- OnRole
    Users = {u1}
    Checks = {c1}
    Requests = {r1}
    Operations = {"role", "grant", "override", "acl", "active", "delete"}
    Temporary = {u1}
    Scopes = {"plain", "resource"}
    UsesSdk = TRUE
    PermsTTL = 2
    DecisionTTL = 1
    CheckTime = 1
INVARIANT TypeOK
PROPERTY CachesConverge
