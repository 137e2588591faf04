----------------------------- MODULE RouteGuards -----------------------------
(***************************************************************************)
(* What stands between a request and the service that carries it out: the  *)
(* guards on every route of the IAM service, the tests some handlers make  *)
(* themselves, and the guards @iam/nestjs-sdk puts in front of the routes  *)
(* of other services.  Each question a guard asks of check() is a run of   *)
(* the steps of PermissionMatcher; what the caches of check() do to the    *)
(* answer is the matter of AuthzCache.                                     *)
(*                                                                         *)
(* A route is a record of its decorators.  Routes with the same decorators *)
(* and the same handler tests are one value.                               *)
(***************************************************************************)
EXTENDS PermissionMatcher

CONSTANTS
    Users, Tenants, TenantOf,   \* the users and tenants a path may name
    Me,                         \* the user the tokens of users are about
    Operator,                   \* the super admin of the other tokens
    None,                       \* no token, no tenant, no id in the path
    OtherRoutes,                \* routes of other services, behind the SDK's guards
    Overrides                   \* the sets of codes that grants and denies may hold

RouteOK(r) == r.codes \in Seq(Code) /\ r.acl \in Code \cup {<<>>}

ASSUME RouteAssumption ==
    /\ {"user", "role", "acl", "tenant", "audit", "expense", "payroll",
        "read", "write", "assign"} \subseteq Part \ {Star}
    /\ TenantOf \in [Users -> Tenants]
    /\ Me \in Users /\ Operator \notin Users /\ None \notin Users \cup Tenants
    /\ \A r \in OtherRoutes : RouteOK(r)

VARIABLES
    where,      \* "iam" or "sdk": whose guards stand before the route
    request,    \* the token, the route and the id in its path
    listed,     \* there is a row of resource_acls for what an ACL guard asks
    user,       \* request.user, set by JwtAuthGuard
    asking,     \* who waits for the answer of check()
    left,       \* the codes the permission guard has yet to ask for
    missing,    \* it has been refused one
    verdict     \* "none", "handled" or the status the request is refused with

given     == <<where, request, listed, roles, grants, denies>>
guardVars == <<user, asking, left, missing, verdict>>
allVars   == <<vars, given, guardVars>>

-----------------------------------------------------------------------------
\* The codes the seed stores: every string of SYSTEM_PERMISSIONS.
Codes(service, actions) == {<<service, a>> : a \in actions \cup {Star}}
Expense(group, actions) == {<<"expense", group, a>> : a \in actions}
Catalog ==
    {<<Star, Star>>, <<"expense", Star>>, <<"acl", Star>>}
    \cup Codes("user", {"read", "write", "delete"}) \cup Codes("role", {"read", "write", "assign"})
    \cup Codes("tenant", {"read", "write"}) \cup Codes("audit", {"read"})
    \cup Codes("payroll", {"read", "write", "approve"})
    \cup Codes("invoice", {"read", "write", "delete", "approve"})
    \cup Codes("report", {"read", "write", "export"})
    \cup Codes("workflow", {"read", "write", "execute"})
    \cup Expense("departments", {"create", "list", "read", "update"})
    \cup Expense("categories", {"create", "list", "update"})
    \cup Expense("exchange-rates", {"create", "list", "delete"})
    \cup Expense("settings", {"read", "update"})
    \cup Expense("expenses", {"create", "list", "read", "update", "delete"})
    \cup Expense("claims", {"create", "list", "read", "update", "submit", "withdraw"})
    \cup {<<"expense", "departments", "budget", "update">>}
    \cup {<<"expense", "expenses", "receipt", a>> : a \in {"upload", "download", "delete"}}
    \cup {<<"expense", "approvals", g, "list">> : g \in {"pending", "history"}}
    \cup {<<"expense", "approvals", "claims", a>> :
            a \in {"read", "approve", "partial-approve", "reject"}}

\* What the seed names for each system role.
SystemRoles == [
    SuperAdmin     |-> {<<Star, Star>>},
    TenantAdmin    |-> {<<s, Star>> : s \in {"user", "role", "acl", "expense", "payroll",
                                             "invoice", "report", "workflow"}},
    Auditor        |-> {<<"audit", "read">>, <<"report", "read">>, <<"expense", Star>>,
                        <<"payroll", "read">>, <<"invoice", "read">>},
    Employee       |-> {<<"expense", "expenses", "read">>, <<"expense", "expenses", "create">>,
                        <<"payroll", "read">>},
    Manager        |-> {<<"expense", "expenses", "read">>,
                        <<"expense", "approvals", "claims", "approve">>,
                        <<"payroll", "read">>, <<"report", "read">>},
    BillingManager |-> {<<"invoice", a>> : a \in {"read", "write", "approve"}}
                        \cup {<<"report", a>> : a \in {"read", "export"}}]

\* Mutant: the seed expands a wildcard without storing the wildcard itself.
ExpandBelow(code) ==
    IF code[2] = Star THEN {c \in Catalog : c[1] = code[1] /\ c[2] # Star} ELSE {code} \cap Catalog

\* A code that ends in a star stands for every code of its service, itself included.
Expand(code) ==
    IF code[2] = Star THEN {c \in Catalog : c[1] = code[1]} ELSE {code} \cap Catalog

Seeded(name) == UNION {Expand(code) : code \in SystemRoles[name]}

-----------------------------------------------------------------------------
Bare == [public |-> FALSE, types |-> {}, codes |-> <<>>, self |-> FALSE,
         acl |-> <<>>, path |-> "none", test |-> "none"]

Public          == [Bare EXCEPT !.public = TRUE]
Needs(s, a)     == [Bare EXCEPT !.codes = <<<<s, a>>>>]
Only(types, r)  == [r EXCEPT !.types = types]
On(path, r)     == [r EXCEPT !.path = path]
Tested(test, r) == [r EXCEPT !.test = test]
OrSelf(r)       == [r EXCEPT !.self = TRUE]

Both      == {"USER", "SUPER_ADMIN"}
AdminOnly == {"SUPER_ADMIN"}

OpenRoutes == {Public, Bare}   \* login, refresh, authorization/check, health; logout, me
SuperAdminRoutes == {Only(AdminOnly, Bare), Only(AdminOnly, On("tenant", Bare))}
TenantRoutes == {
    Only(AdminOnly, Bare),                                                \* create, list
    Only(AdminOnly, On("tenant", Bare)),                                  \* deactivate
    Only(Both, On("tenant", Needs("tenant", "read"))),
    Only(Both, On("tenant", Needs("tenant", "write"))),
    Only(Both, Tested("auditLogs", On("tenant", Needs("audit", "read"))))}
UserRoutes == {
    Only(Both, Needs("user", "write")), Only(Both, Needs("user", "read")), \* create, list
    Only(Both, Tested("findOne", On("user", Bare))),
    Only(Both, Tested("update", On("user", Bare))),
    Only(Both, On("user", Needs("user", "write"))),                        \* status
    Only(Both, On("user", Needs("user", "read")))}                         \* hierarchy
AssignmentRoutes == {
    On("user", Needs("role", "assign")),            \* change roles, add and remove overrides
    On("user", OrSelf(Needs("role", "read")))}      \* roles, overrides, effective permissions
RoleRoutes       == {Needs("role", "write"), Needs("role", "read")}
PermissionRoutes == {Needs("role", "read"), Needs("role", "write")}
AclRoutes        == {Needs("acl", Star), Bare}      \* create, list, delete; check

ManagementRoutes == UserRoutes \cup AssignmentRoutes \cup RoleRoutes \cup PermissionRoutes \cup AclRoutes
IamRoutes == OpenRoutes \cup SuperAdminRoutes \cup TenantRoutes \cup ManagementRoutes

-----------------------------------------------------------------------------
\* The tokens the service signs for Me: at login and for impersonation; and for
\* a super admin.
Tokens == {[identity |-> t, sub |-> Me, tenant |-> TenantOf[Me]] : t \in {"USER", "IMPERSONATION"}}
            \cup {[identity |-> "SUPER_ADMIN", sub |-> Operator, tenant |-> None]}

InPath(r) == CASE r.path = "user"   -> Users
               [] r.path = "tenant" -> Tenants
               [] r.path = "none"   -> {None}

GuardInit ==
    /\ where \in {"iam", "sdk"}
    /\ \E r \in IF where = "iam" THEN IamRoutes ELSE OtherRoutes, t \in Tokens \cup {None} :
        \E id \in InPath(r) : request = [route |-> r, token |-> t, target |-> id]
    /\ roles \in IF where = "iam" THEN {Seeded(name) : name \in DOMAIN SystemRoles} ELSE Held
    /\ grants \in Overrides /\ denies \in Overrides
    /\ listed \in IF request.route.acl = <<>> THEN {FALSE} ELSE BOOLEAN
    /\ user = None /\ asking = "nobody" /\ left = <<>> /\ missing = FALSE /\ verdict = "none"
    /\ required = <<>> /\ effective = {} /\ current = <<>> /\ i = 0 /\ result = FALSE
    /\ pc = "jwt"

route       == request.route
Matching    == <<required, effective, i, current, result>>
End(v)      == verdict' = v /\ pc' = "over" /\ UNCHANGED <<given, Matching, user, asking, left, missing>>
Refuse      == End("403")
Handle      == End("handled")
Pass(to)    == pc' = to /\ UNCHANGED <<given, Matching, guardVars>>
Is(type)    == user # None /\ user.identity = type

\* Mutant: the guard does not compare the id in the path.
AnySelf     == route.self /\ request.target # None /\ user # None

Self        == route.self /\ request.target # None /\ user # None /\ request.target = user.sub
Matches     == where' = where /\ request' = request /\ listed' = listed /\ UNCHANGED guardVars

\* A call of check(); check(tenant_id, ...) finds no rows for a super admin, who
\* is not in the users table.
Ask(code, who, rest) ==
    /\ asking' = who /\ required' = code /\ left' = rest
    /\ pc' = "effective" /\ i' = 0 /\ current' = <<>>
    /\ UNCHANGED <<given, effective, result, user, verdict>>
Answered(who) == pc = "done" /\ asking = who
Allowed       == result /\ ~Is("SUPER_ADMIN")

-----------------------------------------------------------------------------
\* A public route leaves request.user unset, whatever token comes with the call.
JwtAuthGuard ==
    /\ pc = "jwt"
    /\ \/ route.public /\ Pass("identity")
       \/ ~route.public /\ request.token = None /\ End("401")
       \/ /\ ~route.public /\ request.token # None
          /\ user' = request.token /\ pc' = "identity"
          /\ UNCHANGED <<given, Matching, asking, left, missing, verdict>>

IdentityTypeGuard ==
    /\ pc = "identity"
    /\ \/ (route.types = {} \/ \E t \in route.types : Is(t)) /\ Pass("permission")
       \/ route.types # {} /\ ~(\E t \in route.types : Is(t)) /\ Refuse

\* The SDK's guard does not look for @Public.
Exempt ==
    \/ where = "iam" /\ route.public
    \/ route.codes = <<>>
    \/ Is("SUPER_ADMIN") \/ Self

PermissionGuard ==
    /\ pc = "permission"
    /\ \/ Exempt /\ Pass("acl")
       \/ ~Exempt /\ user = None /\ Refuse
       \/ /\ ~Exempt /\ user # None
          /\ Ask(Head(route.codes), "permission", Tail(route.codes)) /\ missing' = FALSE

\* Mutant: the guard goes by the last answer.
PermissionAnsweredLast ==
    /\ Answered("permission")
    /\ \/ left # <<>> /\ Ask(Head(left), "permission", Tail(left)) /\ missing' = FALSE
       \/ left = <<>> /\ Allowed /\ Pass("acl")
       \/ left = <<>> /\ ~Allowed /\ Refuse

\* checkBatch waits for every answer; the SDK stops at the first refusal.
PermissionAnswered ==
    /\ Answered("permission")
    /\ \/ where = "sdk" /\ ~Allowed /\ Refuse
       \/ /\ left # <<>> /\ (where = "iam" \/ Allowed)
          /\ Ask(Head(left), "permission", Tail(left)) /\ missing' = (missing \/ ~Allowed)
       \/ left = <<>> /\ Allowed /\ ~missing /\ Pass("acl")
       \/ where = "iam" /\ left = <<>> /\ (missing \/ ~Allowed) /\ Refuse

AclGuard ==
    /\ pc = "acl"
    /\ \/ (route.acl = <<>> \/ Is("SUPER_ADMIN")) /\ Pass("handler")
       \/ /\ route.acl # <<>> /\ ~Is("SUPER_ADMIN")
          /\ \/ (user = None \/ request.target = None) /\ Refuse
             \/ /\ user # None /\ request.target # None
                /\ Ask(route.acl, "acl", <<>>) /\ UNCHANGED missing

\* check() turns to resource_acls when the codes do not allow it.
AclAnswered ==
    /\ Answered("acl")
    /\ \/ (Allowed \/ listed) /\ Pass("handler")
       \/ ~(Allowed \/ listed) /\ Refuse

\* findOne and update of UserController ask for themselves.
Asks == route.test \in {"findOne", "update"}
Handler ==
    /\ pc = "handler"
    /\ \/ route.test = "none" /\ Handle
       \/ /\ route.test = "auditLogs"
          /\ \/ (Is("SUPER_ADMIN") \/ user.tenant = request.target) /\ Handle
             \/ ~Is("SUPER_ADMIN") /\ user.tenant # request.target /\ Refuse
       \/ Asks /\ user.sub = request.target /\ Pass("lookup")
       \/ /\ Asks /\ user.sub # request.target /\ UNCHANGED missing
          /\ Ask(<<"user", IF route.test = "findOne" THEN "read" ELSE "write">>, "handler", <<>>)

HandlerAnswered ==
    /\ Answered("handler")
    /\ \/ Allowed /\ Pass("lookup")
       \/ ~Allowed /\ Refuse

\* A user of another tenant is not found.
Lookup ==
    /\ pc = "lookup"
    /\ \/ TenantOf[request.target] = user.tenant /\ Handle
       \/ TenantOf[request.target] # user.tenant /\ End("404")

GuardNext ==
    \/ EffectivePermissions /\ Matches
    \/ TestGlobal /\ Matches
    \/ TestWildcard /\ Matches
    \/ TestExact /\ Matches
    \/ JwtAuthGuard \/ IdentityTypeGuard \/ PermissionGuard \/ PermissionAnswered
    \/ AclGuard \/ AclAnswered \/ Handler \/ HandlerAnswered \/ Lookup
GuardSpec == GuardInit /\ [][GuardNext]_allVars

-----------------------------------------------------------------------------
Caller   == IF route.public THEN None ELSE request.token
IsCaller(type) == Caller # None /\ Caller.identity = type
Holds(code) ==
    /\ ~IsCaller("SUPER_ADMIN")
    /\ \E p \in (roles \cup grants) \ denies : Covers(p, code)

Authenticated == route.public \/ Caller # None
Identified    == route.types # {} => \E t \in route.types : IsCaller(t)
Permitted ==
    \/ route.codes = <<>> \/ (where = "iam" /\ route.public) \/ IsCaller("SUPER_ADMIN")
    \/ Caller # None /\ route.self /\ request.target = Caller.sub
    \/ Caller # None /\ \A k \in DOMAIN route.codes : Holds(route.codes[k])
Listed ==
    \/ route.acl = <<>> \/ IsCaller("SUPER_ADMIN")
    \/ Caller # None /\ request.target # None /\ (listed \/ Holds(route.acl))
OwnOrHeld ==
    \/ request.target = Caller.sub
    \/ Holds(<<"user", IF route.test = "findOne" THEN "read" ELSE "write">>)
InTenant ==
    /\ route.test = "auditLogs" => IsCaller("SUPER_ADMIN") \/ Caller.tenant = request.target
    /\ Asks => TenantOf[request.target] = Caller.tenant /\ OwnOrHeld

\* What the decorators of the route and the tests of its handler ask, in no order.
Entitled == Authenticated /\ Identified /\ Permitted /\ Listed /\ InTenant

\* The guards and the handler's tests let a call through exactly when the caller
\* is entitled to it: no order of guards, early return or loop loses a test.
HandledIffEntitled == verdict # "none" => (verdict = "handled" <=> Entitled)

Plainly(name) == where = "iam" /\ roles = Seeded(name) /\ verdict # "none"
AsUser        == request.token # None /\ request.token.identity = "USER"

\* 06-api-reference.md gives the Tenant_Admin every route of users, roles,
\* overrides and ACLs: as the role is seeded, a user who holds it and is denied
\* nothing is let through to each of them for his own tenant.
AdminManages ==
    /\ Plainly("TenantAdmin") /\ AsUser /\ denies = {}
    /\ route \in ManagementRoutes
    /\ route.path = "user" => TenantOf[request.target] = TenantOf[Me]
    => verdict = "handled"

\* A user with no more than the role every new user gets is let through only to
\* what asks for nothing and to what is about himself.
EmployeeOnlySelf ==
    Plainly("Employee") /\ AsUser /\ grants = {} /\ verdict = "handled" =>
        route \in OpenRoutes \/ request.target = Me
=============================================================================
