# Generic-IAM in TLA+

Generic-IAM is a multi-tenant identity and access service: a NestJS application
on PostgreSQL, Redis and Kafka, and an SDK that other services embed. This
directory models the parts of it whose correctness depends on the order in which
things happen, checks them with TLC on small instances, and proves the central
results with TLAPS for every instance. Paths below are relative to the root of
the repository, mostly under `src/` (the IAM service) and
`packages/iam-sdk/src/` (the SDK).

To run it, in this directory: `tlc -config X.cfg M` for a configuration and the
module that `PROJECT.json` names for it, and `tlapm M.tla` for a proof module.

## 1. The system

| Component | State | Operations | Talks to |
|---|---|---|---|
| Authorization check: `authorization.service.ts`, `cache.service.ts` | Redis entries `perms:` (life `redis.ttlMs`), `acl:` and `authz:` (300 s) | `check`, `checkBatch` | Redis at each step; on misses the role, override and ACL services |
| Cache invalidation: `event.consumer.ts`, `cache.service.ts` | none of its own | handlers of PERMISSION_CHANGED, USER_CHANGED, ACL_CHANGED | Kafka in, Redis DEL and SCAN out |
| Event producer: `event.producer.ts` | none | `emit`, which does not wait and only logs an error | Kafka |
| Permission matching: `permission-matcher.util.ts` | none | `hasPermission` | called by `check` and the SDK |
| Role assignments: `assignment.service.ts`, `rbac.scheduler.ts` | `user_roles`, with `expires_at` | `assignToUser`, `updateUserRoles`, `getUserRoles`, the hourly `purgeExpiredRoles` | `RoleService`, producer |
| Roles: `role.service.ts` | `roles` | create, update, `deleteCustomRole` | `user_roles` |
| Role permissions: `permission.service.ts` | `role_permissions` | `updateRolePermissions` | producer |
| Overrides: `override.service.ts` | `user_permission_overrides`, unique by user and permission | `addOverride`, `removeOverride`, `getEffectivePermissions` | producer |
| ACLs: `acl.service.ts` | `resource_acls` | `createAcl`, `deleteAcl`, `check` | Redis, producer |
| Sessions: `auth.service.ts` | `refresh_tokens` | `login`, `refresh`, `logout` | `users`, autocommitted |
| Users: `user.service.ts` | `users` | `createUser`, `updateUser`, `setActivation`, `getHierarchy` | `refresh_tokens`, producer |
| Tenant transaction: `tenant-transaction.interceptor.ts` | a pooled connection, its role and `app.current_tenant_id`, and a transaction for each request | around every handler | PostgreSQL, whose row-level security depends on it |
| Guards: `iam-permission.guard.ts`, `iam-acl.guard.ts`, SDK guards | `request.user` | before the interceptor, on every route | `AuthorizationService`, `AclService`, HTTP |
| Tenants: `tenant.service.ts` | `tenants`, unique by name and by slug | `createTenantWithAdmin`, update, deactivate | `UserService`, `AssignmentService`, producer, in one transaction |
| Seeds: `system-permissions.seed.ts`, `system-roles.seed.ts` | `permissions`, system roles | once | what the guards can find |
| Audit: `audit.consumer.ts`, `audit.service.ts` | a buffer in memory, `audit_logs` | `pushEvent`, `flushBatch`, `queryLogs` | Kafka in, PostgreSQL out |
| SDK: `iam-authz.service.ts`, `iam-client.service.ts` | none | `isAllowed`, `checkAuthorization` | the same Redis, `check` over HTTP |

What is hard here, and what should hold:

- **Caches in front of a database.** A check reads three caches and up to four
  tables in as many awaits, while administrators change the rows, events clear
  the caches and entries run out. The event of a change leaves before the change
  is committed. *Should hold:* no answer is older than the lives of the entries
  it can have come from; the caches do not stay wrong for ever; the events keep
  them right except in circumstances that can be named.
- **Two connections in one request.** `AuthService` and parts of `UserService`
  run on connections of their own, so their statements commit separately and out
  of order with the request's transaction. *Should hold:* rotation of refresh
  tokens neither forks nor loses a session, a revoked session does not return, a
  deactivated user gets nothing, and requests do not wait for each other for ever.
- **Find, then write.** Assignments, ACLs, overrides and permissions of roles are
  looked up in one statement and written in another, most of them without a unique
  constraint, while other requests, the cascade of a role's deletion and the hourly
  purge work on the same rows. *Should hold:* what a request reports is true when it
  commits, unless another one interfered; a tenant comes with its administrator and
  a user with his role, or not at all; an audit event tells of what happened.
- **Connections that carry state.** `SET ROLE` outlives a transaction and row-level
  security goes by it, on connections that serve one request after another. *Should
  hold:* each connection comes back once, and a handler sees the rows of its caller's
  tenant whoever had the connection before.
- **Guards in layers.** Five guards with early returns of their own, decorators that
  exempt from some of them, tests in a few handlers, and a second set of guards in the
  SDK. *Should hold:* a call gets through exactly when its caller is entitled to it.
- **A buffer between Kafka and the audit table.** An event counts as consumed when
  it is in memory, and nobody waits for the insert of its batch. *Should hold:* a
  delivery of an event gives one row, unless it meets a failure that can be named.

`PROJECT.json` lists the single hazards with their lines.

## 2. The modules

### AuthzFacts, AuthzCache

`AuthzFacts` is the database from the point of view of a check of one permission
P and one resource R: for each user a *view* of four facts (role assignment,
role permission, override, ACL), and `Decides`, what the rows decide for each
kind of cache entry. The set of codes under `perms:` is abstracted to whether
`hasPermission` finds P in it; wildcards are the business of `PermissionMatcher`.

`AuthzCache` has one action for each await of `AuthorizationService.check` and of
the services it calls (`GetDecision`, `GetPermissions`, `GetUserRoles`,
`GetRolePermissions`, `GetOverridesForUser`, `SetPermissions`, `GetAcl`,
`CountAcl`, `SetAcl`, `SetDecision`), one for each Redis command of the SDK's
`isAllowed` (`PermsTier`, `DecisionTier`), which goes on to a `check` when the entries
do not help, one for each kind of administrative request
up to its event (`UpdateUserRoles`, `ChangeOverride`, `UpdateRolePermissions`,
`ChangeAcl`, `SetActivation`), two for `deleteCustomRole` (`CountUserRoles` and
`RemoveRole`), the interceptor's `Commit` and `Rollback`, and one
for each Redis command of the event handlers. `LoseEvent` and `Redeliver` are
what Kafka, the unawaited `emit` and a handler that throws can do to an event.
`cache[k]` is an entry with the life it has left; `Tick` is the clock.

| Variable | In the code |
|---|---|
| `db` | the committed rows |
| `cache` | Redis, with `NoEntry` for a key that is not there |
| `pc`, `subject`, `scope`, `seen`, `elapsed`, `answer` | a call of `check` or `isAllowed`: the await it is at, its arguments, local variables and result |
| `tx`, `change` | the transaction of a request and the rows it writes |
| `stage`, `found` | the event of the request, and the keys a running `scanAndDelete` has collected |

A `SCAN` is modelled as one step, `DEL` of what it found as the next. Entries
that are written between two pages of one SCAN behave like entries written before
or after it. The handler of a request up to its `emit` is one action: its writes
are not visible before the commit, and its reads matter only through the rows it
writes, which the transaction's locks order. `deleteCustomRole` is the exception. It
counts the assignments in one statement and removes the role in another, and what
others commit in between goes with the role: its commit takes away the assignment and
the permission (`Writes`), and no event for the caches tells of it. Every other
request writes one kind of row.

### AuthzAges, AuthzStaleness, AuthzContract

`AuthzContract` is what a check promises, without caches or events: an answer is
what rows decide that each were in the database at most `Window` ago.
`AuthzStaleness` adds to `AuthzCache` the history variable `age`, how long ago
each row had which value (`AuthzAges`), and states `EntriesBounded`,
`ChecksBounded` and `KeepsContract`, the refinement
(`INSTANCE AuthzContract WITH ...`, with a call of `check` in progress mapped to a
caller that waits). The window is

    AnswerWindow = CheckTime + max(PermsTTL, DecisionTTL) + CheckTime + DecisionTTL

because a decision may be stored a whole TTL after the permission set it comes
from was, and each is stored by a check that can take `CheckTime`. With the
code's defaults a revoked permission can be granted for about as long as both
TTLs together, even when every event is lost.

### AuthzCoherence

The history variable `hazard` records for each user the circumstances in which
the events cannot do their work: an event was lost, it was consumed before its
request committed (`early`), it was consumed while a check of the user was in
progress (`overlap`), the user's role expired (`expired`), or it was deleted together
with an assignment that `deleteCustomRole` had not counted (`cascaded`). `Coherent`:
without any of the five, once the changes are committed and those that have an event
handled, no entry contradicts the database. That removing a role takes its permissions
along too is no hazard: they decide nothing for a user without the role.

### PermissionMatcher, RouteGuards

In `PermissionMatcher`, `EffectivePermissions` is the set computation
`(roles + grants) - denies`; `TestGlobal`, `TestWildcard` and `TestExact` are the
steps of the loop of `hasPermission`. A code is the sequence of its parts. `Covers`
is the reference definition the loop is compared with. Codes are not empty and have
no empty part.

`RouteGuards` runs that loop as the question that guards ask. A route is the record
of its decorators (`types`, `codes`, `acl`, `self`, `public`), the id in its path and
the test its handler makes; `IamRoutes` are the routes of the service's controllers,
`OtherRoutes` those of services behind the SDK. `SystemRoles` are the roles of the
seed, whose codes are matched against `Catalog` as the seed does it. `JwtAuthGuard`,
`IdentityTypeGuard`, `PermissionGuard` with `PermissionAnswered`, `AclGuard` with
`AclAnswered`, and `Handler` are the stages of a request, in the order in which Nest
runs them; `where` tells whose permission guard it is, since the service's asks for all
codes at once and the SDK's one by one. `Entitled` is what the decorators and handlers
ask, without an order. The caches of `check` are the matter of `AuthzCache`.

### RefreshTokens, RefreshSessions

`RefreshTokens` has one action for each statement of `login` and `refresh` (they
autocommit), `Logout`, and `setActivation` in the transaction of its request,
except for its delete of the tokens (`RevokeTokens`), which runs on another
connection and commits at once. `UpdateUser` is `updateUser` with `is_active` in its
body, which deletes no token. `RefreshSessions` follows the sessions with history variables:
`parent` and `root` of a token, the tokens with which two refreshes `raced`, the
sessions that are `over` (revoked while none of their refreshes was in progress)
or `cut`, the calls that came `late`, after a committed deactivation, and `how` the
user became inactive.
A token stands for the random string, its bcrypt hash and its row.

### RoleAssignment, RoleGuarantees

`RoleAssignment` has one action for each SQL statement of `assignToUser` and
`updateUserRoles`, and of `deleteCustomRole`, for one user and one role. `draft` is what a
transaction has written and not committed; `Sees`, `Locked`, `shares` and
`dropped` are PostgreSQL's READ COMMITTED: statements read what is committed,
writers of one row wait for each other, an INSERT takes a share lock on the role
its foreign key names, and deleting the role waits for that lock and then
cascades. A deadlock of two transactions, which PostgreSQL breaks by an error, is
a `Rollback`. `SaveExisting` is the SELECT that TypeORM's `save` makes before the
UPDATE. `Expire` and `PurgeExpired` are the clock and the hourly job.
`RoleGuarantees` records what went on while a request was in progress (`met`) and
whether two additions ever overlapped (`raced`).

### Directory, DirectoryGuarantees

`Directory` has the requests that find and then write: `createTenantWithAdmin`,
`createUser`, `updateUser`, `updateTenant`, `createCustomRole`, `updateCustomRole`,
`createAcl`, `deleteAcl`, `addOverride`, `removeOverride` and `updateRolePermissions`.
`CreateTenant` ... `RemovePermission` are the `findOne` of each
and what it decides; `Insert`, `Save`, `UpdateRow` and `DeleteRow` are the statements;
`Follow` is what comes after an insert, so that a tenant leads to its administrator and
a user to the role that `FindRole` looks up. `rows` is committed, `draft[r]` written by
the transaction of `r`; `Waits` and `Taken` are a unique index, on which a second
insert waits for the first and fails if that commits; `Locked` is a row lock. `Save` is
TypeORM's: it reads a found entity again and inserts it if it is gone. `deactivateTenant`
is one more update of one column.

`dto[r]` is what a request was asked for. That is one operation, except for
`updateRolePermissions`, which may be asked for any permissions of a role to add and to
remove: `left[r]` are those it has not come to, and `NextPermission` goes on with one of
them, the additions before the removals. `Announce` is the audit event that follows
the last statement of an operation, before the commit; for `updateRolePermissions` this
is in the middle of its loops, so that `sent[r]` may hold events of permissions whose
rows a later statement rolls back. Each event is kept with what it says, the
operation and the id of its row.

`DirectoryGuarantees` records which subjects had two requests at a time (`raced`).
`EventsTrue` compares events with rows at the commit, where the row of an addition or
a change has to be as the event says and that of a removal has to be gone, and says
which requests may end without a commit after they have sent some.

### ConnectionPool

Requests as holders of connections: `Arrive`, `GuardQuery` and `GuardAnswer` are
`IamPermissionGuard`, which reads the database before the interceptor, a
statement at a time (no route asks for more than one permission); `Intercept`,
`SetUp`, `Commit`, `Rollback`, `Finalize` are the interceptor; `OwnQuery` and
`OwnAnswer` are statements of a handler on a second connection, as in
`AuthService`, `AuditService`, `SuperAdminService` and parts of `UserService`.
`Connect` and `Release` are node-postgres: a queue in order of arrival, without a
timeout, as TypeORM configures it here. `SetUpFails` is the path on which `SET
ROLE` throws past `catchError` and `finalize` and the connection is leaked.
`session[c]` is what PostgreSQL keeps for a connection: the role, which a commit leaves
and a rollback resets, the tenant setting, which is local to the transaction, and the
transaction. `Visible` applies the policies of the migration `EnableRLS` to a session;
the application's own role is a superuser in `docker-compose.yml`, so policies bind it
only after `SET ROLE iam_tenant_user`. `caller` is who makes a request.

### AuditPipeline

The topic of audit events (`end` counts what is in it; an event is its position),
one consumer (`offset`, and `committed` for what Kafka counts as consumed) and
`AuditService`: `buffer` is what `bufferTime(1000, null, 100)` holds, `flights`
the batches whose INSERT nobody waits for, `rows` the table. `Deliver` is
`pushEvent`, including the batch that is launched at once when the buffer is
full; `Timer` is the second; `Insert` and `InsertFails` are the two ways
`flushBatch` ends, in any order among batches. `Stop` is `onModuleDestroy`, whose
`complete()` launches what is held. Nest runs that hook before it closes the Kafka
consumer, so a `Deliver` may still come and go nowhere; then come the other hooks
and `Exit`, which is also a crash. `Rejoin` and `Restart` go back to `committed`.
`deliveries` and `faults` are history: how often each event was delivered, and in
which of three ways events have been lost. One instance reads one partition.

### How the modules are put together

`AuthzFacts` <- `AuthzCache` <- `AuthzStaleness` (with `AuthzAges`) <- instance of
`AuthzContract`; `AuthzCache` <- `AuthzCoherence`; `RefreshTokens` <-
`RefreshSessions`; `RoleAssignment` <- `RoleGuarantees`; `Directory` <-
`DirectoryGuarantees`; `PermissionMatcher` <- `RouteGuards`, whose questions are runs of
the matcher. `ConnectionPool` and `AuditPipeline` stand alone. The extending modules
other than `RouteGuards` add only history: their next-state relation is that of the program with the history
variables determined by it. `MC*` modules name initial views and symmetry for TLC.
`*Proofs` modules hold the theorems. Definitions whose comment begins with
"Mutant:" are faulty versions of the definition that follows them; they stand in
for it when a property's power to notice the fault is tested.

## 3. The runs

| Run | Question | Result |
|---|---|---|
| `authz_live` | Do the caches come to agree with rows that stay put, if events may be lost and repeated? (`TypeOK`, `CachesConverge`) | yes |
| `authz_stale` | How old can the rows behind an entry, a check or an answer be? (`EntriesBounded`, `ChecksBounded`, `KeepsContract`) | within the windows above |
| `authz_coherent` | When do events keep the caches right? (`Coherent`) | unless one of the five hazards happened |
| `authz_fresh` | Is `perms:` "always fresh when present"? (`AlwaysFreshWhenPresent`) | **no**: finding 1 |
| `routes` | Do guards, decorators and handlers let through exactly who is entitled, and do the seeded roles open what they should? (`Correct`, `HandledIffEntitled`, `AdminManages`, `EmployeeOnlySelf`) | yes |
| `matcher_deny` | Does DENY always win? (`DenyWins`) | **no**: finding 2 |
| `sessions` | Are sessions kept, ended and continued as they should? (`ForkOnlyByRace`, `RevokedStaysOver`, `SessionKept`, `InactiveGetsNothing`) | yes, with the races they name |
| `sessions_deactivate` | Does deactivation revoke all tokens? (`DeactivationRevokes`) | **no**: finding 3 |
| `assignments` | What can a committed request on an assignment rely on? (`DuplicatesOnlyByRace`, `RevokeRevokes`, `GrantSticks`, `CascadeOnlyRaces`) | its effect, unless the overlap named in the property |
| `pool` | Do connections come back, and are waiting requests served? With what role, tenant and transaction? (`Conserved`, `RightScope`, `RightTransaction`, `StuckOnlyByOwnQueries`, `Served`) | yes, and those of its request; served with room for the second connections |
| `audit` | Does each delivery of an audit event become one row, in the end? (`OneRowPerDelivery`, `EventuallyStored`) | yes, unless it meets one of three failures |
| `directory` | Is provisioning all or nothing, are audit events true, and do removals remove? (`Provisioned`, `EventsTrue`, `DoublesOnlyByRace`, `RemovalRemoves`) | yes, with the races they name |

### Bounds

- *Authorization.* One user; its entries share nothing with those of other users
  except the tenant-wide scan, which treats users alike. Every TTL and
  `CheckTime` is 1 or 2 units of time, so that an entry can be written, survive a
  tick and be used before it expires, and a check can straddle a tick;
  `authz_live` has `PermsTTL = 2`, the smallest life that a faulty renewal can
  prolong. Two checks (`authz_stale`) are what it takes for one to use what the
  other stores while a third party changes rows; two requests of different kinds
  (`authz_coherent`) are what it takes for one invalidation to hide another, and for an
  assignment to be handled between the count and the remove of `deleteCustomRole`.
  `Horizon` must exceed `AnswerWindow`, or old ages would be confused; it is
  stated as an assumption. `authz_stale` and
  `authz_live` have calls through the SDK as well as direct ones (`UsesSdk`); the SDK
  only reads Redis, so the other runs leave it out. `authz_stale` takes away an
  ACL and a role, by a request and by expiry, since each fact goes through the same
  caches in the same way; the proofs cover the rest, additions included.
- *Sessions.* Three tokens allow a login and two exchanges, a fork or a chain;
  two calls race. One administrator at a time, who
  activates or deactivates through either endpoint: a second one would only wait for the
  row.
- *Assignments.* Two requests of any kind and two rows, in all initial states with
  at most one row. `Requests` are reused, so sequences of any length occur.
- *Routes.* All routes of the service, for each seeded role with at most one grant and
  one denial, a colleague and a stranger in the path, and the three kinds of token; for
  the SDK, codes of up to three parts over two names and `*`, at most one code each from
  roles, grants and denies. The theorems have no bounds.
- *Directory.* Two requests at a time and three in all, on one tenant with one user, so
  that a row can be created, taken away by one request while another finds it, and
  created again. Requests that cannot meet in a row or a key do not affect each other.
  Names are chosen to collide: two requests want the tenant Beta, an update wants the
  slug of one of them, two want the user bob, one of them with a role that may not exist.
  The role Employee is seeded or only the tenant's own. Of two permissions of a role one
  is held at the start; a request adds or removes one or removes both, one after the
  other, and the same one may be added and removed. The theorems are about any number of
  permissions in a request.
- *Audit.* Three events in batches of two give a batch that is full and one that
  only the timer or the shutdown launches, and two batches in flight at a time;
  two deliveries of each event give one redelivery, while the first may still be
  in memory.
- *Pool.* Three requests on three connections, one of which may leak; their callers
  are users of two tenants, the super admin and someone without a token. `MaxLeaks`
  bounds the leaks; without it the pool would drain, which is in the model's scope
  but says nothing about waiting.

`Checks`, `Requests`, `Calls`, `Tokens` and `Rows` are interchangeable and used
symmetrically in the invariant runs and in `KeepsContract`, a safety property; the
runs with liveness use no symmetry. `sessions` has a VIEW without what neither a
later step nor its properties depend on: the history variable `how`, the expiry of
deleted tokens, the target of an administrator who writes nothing. `routes` and `matcher_deny` disable the
deadlock check, because they end with the answer, and `directory` because it ends after
its last request. `authz_coherent` has a VIEW without the answers that checks have given and
the rows that closed requests have written, on which nothing later depends.

### Fairness

`AuthzCache`: every await of a check or an `isAllowed` eventually returns or throws
(`CheckStep \/ CheckFails`), and time passes. Requests need not come, commit or
roll back, and no event need be delivered: the TTLs alone make the caches
converge. `ConnectionPool`: a request that does not wait for a connection takes
its next step, because PostgreSQL statements end with a result or an error and
nothing else blocks the handlers. No request need arrive, and nothing is assumed
of the pool but its queue. `AuditPipeline`: a running instance is handed what is in
the topic, its timer fires, and an INSERT ends with a result or an error. It need
not be restarted once it is down, and Kafka need not commit an offset.

## 4. Findings

1. *An invalidation can come too early* (`authz_fresh`). `updateUserRoles` emits
   PERMISSION_CHANGED (`assignment.service.ts:171`) before the interceptor
   commits. The consumer deletes `perms:`, a check reads the old rows and stores
   them again, the request commits, and no further event comes. The SDK relies on
   the entry being "always fresh when present" (`iam-authz.service.ts:51-53`).
2. *A wildcard outlives a denial* (`matcher_deny`). A user whose role holds
   `expense.*` and who is denied `expense.read` is allowed it: the denial removes only
   the code itself from the set (`override.service.ts:175`). The design says
   "Deny wins" (`documentation/IAM_DESIGN_DOCUMENT.md:36`).
3. *A token can survive a deactivation* (`sessions_deactivate`): the tokens are
   deleted before `is_active` is committed (`user.service.ts:132`), and a login in between
   stores one. It is of no use while the user is inactive
   (`InactiveGetsNothing`), but it works again once the user is reactivated.

Things the passing properties are worded around:

- A refresh token can be used twice, by two refreshes that both find its row
  before either deletes it (`auth.service.ts:144`), although
  `documentation/05-strategies.md:131` says "each token is single-use".
  `ForkOnlyByRace` shows that this race is the only way.
- Logins can exhaust the pool for good. The interceptor holds a connection for
  every request, public ones included, and `login` asks the same pool for a second
  one; as many concurrent logins as connections wait for each other without a
  timeout. `StuckOnlyByOwnQueries` shows that this is the only way to get stuck,
  apart from leaks, and the run `pool` therefore leaves room for second connections.
- Audit events are lost in three ways. `handleAuditLog` returns when the event is in
  the buffer (`audit.service.ts:60`), and its offset is committed; a failed INSERT, a
  crash, or a delivery after `complete()` loses it for good.
  `documentation/07-assumptions-tradeoffs.md:26` says "at-least-once".
  `OneRowPerDelivery` shows that there is no fourth way.
- Audit events tell of changes that are rolled back. All leave before the commit, which
  may fail, and `updateRolePermissions` sends one for each permission
  (`permission.service.ts:80`, `:109`) before it looks for the next, where a failure takes
  the rows back and not the events. `EventsTrue` shows that among the operations of
  `Directory` there is no third way, and that the events of a commit that succeeds are
  true unless another request interfered. `updateUserRoles` has such loops too
  (`assignment.service.ts:139`, `:159`): a second role that is not found gives 404 after the
  first has been announced. `RoleAssignment` follows one role and no audit events.
- A cached permission can outlive the role it came from although every event arrives in
  time. An assignment that commits between the count and the remove of
  `deleteCustomRole` (`role.service.ts:157`, `:167`) may be cached by a check before the
  cascade takes it away, and nothing clears the entry before its TTL is over: the hazard
  `cascaded` of `Coherent`.

Differences between documents and code that need no run to see, met while translating:

- `documentation/06-api-reference.md:163-164` gives a tenant administrator `GET` and
  `PATCH /tenants/:id`; the seed gives the role no `tenant.*` code, so only a super admin
  gets through. The same holds for a tenant's audit log and `audit.read`.
  `AdminManages` is about all other routes the reference gives the role.
- `system-roles.seed.ts:39` describes the Auditor as "Read-only"; `expense.*` is among
  its codes.
- The flow chart of `documentation/04-flows.md:181` lets a super admin past every
  check, but `GET` and `PATCH /users/:id` look the user up in the caller's tenant, and a
  super admin has none; and it treats impersonation tokens like those of users, but the
  routes of users and tenants name `USER` and `SUPER_ADMIN` only.
- `tenants.is_active` is written and never read: users of a deactivated tenant go on.
- `createTenantWithAdmin` passes silently over a Tenant Admin role that is not seeded;
  `Provisioned` therefore asks for the administrator's role only where it is.

## 5. The proofs

All theorems hold for every value of the constants that satisfies the named
assumptions, which TLC evaluates in the runs.

- `AuthzCacheProofs!TypeCorrect`: `Spec => []TypeOK`. `TypeOK` is inductive; it
  includes that no check is older than `CheckTime` and no entry has more life
  left than the longest TTL, and is the base of what follows.
- `AuthzStalenessProofs!StalenessBounded`: `ASpec => [](EntriesBounded /\
  ChecksBounded)`. `EntriesBounded` alone is not inductive: an entry is written
  from what a check found earlier. The invariant is `StaleInv`, the conjunction of
  `AgesOK` (a row in the database has age 0), `EntriesBounded` and
  `ChecksBounded` (what a check has found is justified within a window that grows
  with its `elapsed`). An action either leaves a check alone, lets it read an
  entry (its window is the entry's), lets it read rows (age 0), or stores what it
  found under a key whose window is large enough (`WindowFact`, `ElapsedFact`). `Tick`
  shortens the life of an entry by what it adds to the ages.
- `AuthzStalenessProofs!Implements`: `ASpec => KeepsContract`. Initial states map
  to initial states; `GetDecision` on a hit and `SetDecision` map to `AnswerCaller`
  with the window from `ChecksBounded` or `EntriesBounded`, as do the two tiers of
  the SDK on a hit, `CheckFails` to `FailCaller`, commits and expiry to `ChangeRows`,
  `Tick` to `TimePasses`, all else to stuttering. `Unanswered`, that a call in progress has no answer
  yet, is the additional invariant.
- `AuthzCacheProofs!CachesCoherent`: `HSpec => []Coherent`, for any users, checks
  and requests. `Coherent` speaks only of settled users; `CoherenceInv` says, for every
  user without a hazard, what holds on the way there: a stale entry is `Excused`, that
  is, a committed request of the user has a handler that is `Due` to clear it (where
  the handler is, and which keys it has collected, decides which entries those are), and what
  a check has found is what the rows decide unless the entry it will go to is due. An
  open request's event is still unhandled, or it would have been `early`. Steps of
  others keep this (`UndisturbedKeeps`): a handler clears what was due while no check
  of the user runs, or it would have been an `overlap`. The commit of `deleteCustomRole`,
  whose request has no event that could be due, changes nothing that is decided for a user
  without the role, and is a hazard for the others. A check that stores puts what
  the rows decide or what is due (`CheckFinds`, `CheckStores`, with `DueFact`: an event that
  clears the permission set will clear the decisions too).
- `RouteGuardsProofs!MatcherCorrect`: `Spec => []Correct`, for codes of any
  length and any holdings, by the loop invariant `MatcherInv`: `current` is the
  prefix of length `i`, and no wildcard over a shorter prefix is held.
- `RouteGuardsProofs!GuardsRight` and `AnswersRight`: `GuardSpec =>
  []HandledIffEntitled` and `GuardSpec => []Correct`, for any routes, users, roles and
  overrides. `MatcherInv` is kept across questions; the invariant of the guards says for
  each stage which parts of `Entitled` are settled: those of the guards before it, and
  for the permission guard the codes already asked for, with `missing` if one was refused.
- `RouteGuardsProofs!AdminsManage` and `EmployeesOnlySelf`: `GuardSpec =>
  []AdminManages` and `[]EmployeeOnlySelf`, from the invariant of the guards and three
  facts about the program's data: the catalogue and the seed give the administrator the
  wildcards of `user`, `role` and `acl`, and the employee codes of `expense` and `payroll`
  only (`TenantAdminFact`, `EmployeeFact`); a code of a service is covered by codes of that
  service and by the global wildcard (`PairFact`); and what the decorators of the routes ask
  (`ManagedFact`, `ReservedFact`). They need, in `RouteAssumption`, that the star
  is none of the words of the codes.
- `ConnectionPoolProofs!ConnectionsConserved`, `ScopeRight` and `TransactionRight`:
  `Spec => []Conserved`, `[]RightScope`, `[]RightTransaction`, for any number of requests
  and connections and any guards and handlers. None of the three is inductive.
  `OwnersInv` adds which connections a request has at each point (`HoldsInv`) and that
  those who wait are in the queue once (`QueueInv`), so that a released connection is
  handed to someone who has none of the kind. `SessionInv` says that a free connection
  and one just handed over are clean, that from `SetUp` to the end of the transaction
  the session is `Scope(caller)`, and that after it only the role is left, which
  `Finalize` resets before it releases. Leaked connections are never looked at again.
- `ConnectionPoolProofs!TypeCorrect` and `StuckByOwnQueries`: `Spec => []TypeOK` and
  `[]StuckOnlyByOwnQueries`. `LineInv` is added: nobody waits while a connection is
  free, whoever waits is in the queue, and only requests with statements left wait for a
  connection of their own. So in a state in which nobody can go on, every connection is held
  by a request that waits, and a request that waits and holds one waits for its second.
- `AuditPipelineProofs!TypeCorrect` and `RowsMatchDeliveries`: `Spec => []TypeOK` and
  `[]OneRowPerDelivery`, for any numbers of events, deliveries and batches under way, and
  any size of batches. How often an event is in memory is a cardinality of its places in
  the buffer and in `flights`; the lemmas say what an append, a launch and the end of an
  insert do to it (`TimesAppend`, `AboardAppend`, `AboardRemove`). `LeftInv`, that what may be
  delivered again has deliveries left, keeps the types.
- `DirectoryProofs`, for any number of requests, operations, rows and strings. Every action
  is first reduced to what it does to the request that takes it (`Step`), so that the
  invariants are proved over nine kinds of step and not over every service.
  - `TypeCorrect`: `GSpec => []TypeOK`, by `Typed`, which adds that ids are not forgotten
    and, as `LoopInv`, that a request adds before it removes and what a removal plans.
  - `DoublesAreRaces` and `RemovalsRemove`: `GSpec => []DoublesOnlyByRace` and `GSpec =>
    RemovalRemoves`. Rows change and disappear, so `Fits` speaks of a function `f` from ids to
    what each id has been about since it was given. `PermissionsInv` says of a permission no
    two requests raced for that one row gives it and that the request about it, of which
    there is one at most, sees that row: an insert comes when it sees none, a delete is of
    the one it sees. `Doing`, `Gone` and `ClearOf` say how far that request is with the
    permission: it is at it, has removed it, or has not come to it.
  - `EventsAreTrue`: `GSpec => EventsTrue`. `EventsInv` says of each request that what it
    plans is what its operation asks for (`Planning`), that an event has been sent only
    where there can be one (`Sending`), and that each event sent is true of what the
    transaction sees, unless another request raced or a removal of its own comes later
    (`Told`). The commit makes of what the transaction sees the committed rows. That a
    found row is the only one of its permission, so that a later insert or delete of the
    same request does not belie an event, comes from `PermissionsInv`.
  - `ProvisionedWhole`: `GSpec => []Provisioned`. `KeysInv` says that what is committed or
    drafted keeps to the unique indexes, across transactions too; that an insert waits
    for the drafts of others is what keeps it. `Stage` says how far each transaction is: a
    new tenant in its draft has its administrator or is about to insert him, and he has
    his role or is about to be given it. A commit publishes a whole stage.
  The assumptions are that the rows at the start keep to the unique indexes and give no
  permission twice (`StoredAssumption`, `SinglesAssumption`), and that a request is
  about something that exists (`OperationsAssumption`).
- `RefreshSessionsProofs!ForksOnlyByRace`, `RevokedForGood`, `SessionsKept`,
  `NothingForInactive` and `TypeCorrect`: the invariants of the sessions run, for any
  number of tokens, calls and administrators. None of the first three is inductive.
  `SessionsInv` adds that a call at `save` has deleted its token, so a token that was
  exchanged has left `rows` (`CallInv`, `ForkInv`), and that the session of a call in
  progress is not `over` (`RootInv`). `Kinds` sorts the steps by what they do to a
  call and to the tokens; each conjunct is then proved per kind.
- `RoleGuaranteesProofs!TypeCorrect`, `DoubledOnlyByRace`, `RevokesForSure`,
  `GrantsForSure` and `CascadesOnlyInRaces`: all invariants of the assignments run, for
  any number of requests and rows. `RolesInv` adds what a transaction has written when it
  is at a given statement (`OpInv`), that requests in progress at once are in each
  other's `met` (`MetInv`), and what a request has achieved so far (`ProgressInv`): that
  it sees one row at most, that it is the one it has found, that it will have removed it
  or given it. A request's own step advances its `ProgressInv` (`OwnProgress`). The
  step of another, or of the clock, changes a row only in a way that is recorded in
  `met` (`BesideFact`), and then its promise is void or untouched (`BesideProgress`).

Every invariant and action property of a passing run is stated by a theorem. Only
model-checked: the liveness properties `CachesConverge`, `Served` and `EventuallyStored`,
which are out of reach of TLAPS, as ENABLED is. The three properties that the code violates
are refuted by TLC's counterexamples.

## 6. What is left out

- `getHierarchy`, which does not end when managers form a cycle (`updateUser` permits
  one): a matter of one query over static data. `findAll*`, `queryLogs`, `getMe`: reads.
- A super admin's login, which stores no token. Passwords, hashes and the signatures of
  JWTs. That `JwtStrategy` drops `impersonator_id` from what it reads.
- The audit events of sessions, of role assignments and of `deleteCustomRole`; those that
  `Directory` follows are named there.
- Running the migrations and seeds (what they leave behind is modelled),
  configuration, filters, health checks, DTO validation.
- More than one instance on one Kafka partition, and Kafka's own replication.

## 7. Plan

Done: the modules above. What would come next:

1. The refinement by `RefreshSessions` of an abstract specification of sessions, and by
   `AuditPipeline` of one of a log that may lose but never repeats, each with its proof.
2. The safety half of `Served` and `EventuallyStored` (what a request or an event waits for
   is always something that can happen), as invariants with proofs.
