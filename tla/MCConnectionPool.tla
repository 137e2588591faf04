--------------------------- MODULE MCConnectionPool ---------------------------
(***************************************************************************)
(* ConnectionPool for TLC.  A permission check may read the database once; *)
(* a login runs statements on connections of their own, here two.          *)
(***************************************************************************)
EXTENDS ConnectionPool

CONSTANTS
    Guarded,   \* the requests whose guards may read the database
    Logins,    \* the public requests, whose handler uses a second connection
    t1, t2     \* the tenants

GuardStatements == [r \in Requests |-> IF r \in Guarded THEN 1 ELSE 0]
OwnStatements   == [r \in Requests |-> IF r \in Logins THEN 2 ELSE 0]
TwoTenants      == {t1, t2}

\* Guarded requests come from a tenant, the others from the other one or from
\* the super admin.
AllCallers == [r \in Requests |->
    IF r \in Logins THEN {Public} ELSE IF r \in Guarded THEN {t1} ELSE {t2, SuperAdmin}]
=============================================================================
