\* Three requests, one of which needs a second connection, on three connections, one of which may leak.
SPECIFICATION FairSpec
CONSTANTS
    Requests = {r1, r2, r3}
    Conns = {c1, c2, c3}
    t1 = t1
    t2 = t2
    Tenants <- TwoTenants
    SuperAdmin = SuperAdmin
    Public = Public
    System = System
    Nobody = Nobody
    None = None
    Guarded = {r2}
    Logins = {r1}
    GuardQueries <- GuardStatements
    OwnQueries <- OwnStatements
    Callers <- AllCallers
    MaxLeaks = 1
INVARIANTS TypeOK Conserved RightScope RightTransaction StuckOnlyByOwnQueries
PROPERTY Served
