\* Every route of the service for every seeded role, and the SDK's guards.
SPECIFICATION GuardSpec
CONSTANTS
    Users = {"me", "colleague", "stranger"}
    Tenants = {"ours", "theirs"}
    TenantOf <- Tenancy
    Me = "me"
    Operator = "operator"
    None = None
    Part <- Parts
    Star = "*"
    Held <- Holdings
    Required <- Asked
    OtherRoutes <- Others
    Overrides <- Changes
INVARIANTS Correct HandledIffEntitled AdminManages EmployeeOnlySelf
CHECK_DEADLOCK FALSE
