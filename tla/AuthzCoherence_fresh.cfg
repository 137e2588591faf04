\* One role change, consumed before its request commits.
SPECIFICATION HSpec
CONSTANTS
    Initially <- OnRole
    Users = {u1}
    Checks = {c1}
    Requests = {r1}
    Operations = {"role"}
    Temporary = {}
    Scopes = {"plain"}
    UsesSdk = FALSE
    PermsTTL = 1
    DecisionTTL = 1
    CheckTime = 1
SYMMETRY Symmetry
INVARIANT AlwaysFreshWhenPresent
