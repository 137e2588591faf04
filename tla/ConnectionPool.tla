---------------------------- MODULE ConnectionPool ----------------------------
(***************************************************************************)
(* The PostgreSQL connections of one instance of Generic-IAM, the HTTP     *)
(* requests that take them, and the role and tenant that each connection   *)
(* is set to, on which row-level security depends.                         *)
(*                                                                         *)
(* TenantTransactionInterceptor takes a connection for every request and   *)
(* keeps it until the response is made.  Before it, IamPermissionGuard may *)
(* read the database on connections of its own; under it, services that    *)
(* do not take the entity manager of the request (AuthService, AuditService*)
(* and SuperAdminService, and for some statements UserService) use a       *)
(* second connection of the pool while the request holds the first.        *)
(***************************************************************************)
EXTENDS Integers, Sequences, FiniteSets

CONSTANTS
    Requests,       \* the HTTP requests that can be in progress at a time
    Conns,          \* the connections of the pool, as many as extra.max
    Tenants,
    SuperAdmin, Public,           \* the callers without a tenant
    System, Nobody,               \* the owners of rows without a tenant
    None,                         \* no connection, no tenant
    Callers,        \* who may make each request
    GuardQueries,   \* the statements of its guards, at most
    OwnQueries,     \* ... of its handler, on connections of their own
    MaxLeaks        \* bound: how many connections a behaviour may leak

ASSUME PoolAssumption ==
    /\ IsFiniteSet(Conns) /\ IsFiniteSet(Requests) /\ MaxLeaks \in Nat
    /\ Callers \in [Requests -> SUBSET (Tenants \cup {SuperAdmin, Public})]
    /\ GuardQueries \in [Requests -> Nat] /\ OwnQueries \in [Requests -> Nat]
    /\ None \notin Conns \cup Tenants
    /\ {SuperAdmin, Public, System, Nobody} \cap Tenants = {}
    /\ SuperAdmin # Public /\ System # Nobody

VARIABLES
    pc,       \* where each request is
    caller,   \* a user of a tenant, a super admin, or someone without a token
    todo,     \* the statements it still has to run on connections of their own
    tx,       \* the connection of its transaction
    own,      \* the connection of such a statement
    free,     \* the connections in the pool that nobody has
    queue,    \* the requests that wait for one, first come first served
    leaked,   \* the connections that nobody has and nobody will give back
    session   \* the state of each connection in PostgreSQL

vars == <<pc, caller, todo, tx, own, free, queue, leaked, session>>

\* role: current_user, in transaction "open" with the role it began with;
\* tenant: app.current_tenant_id, None when it is unset or empty
Session == [role : {"iam_app", "iam_tenant_user", "iam_superadmin"},
            tenant : Tenants \cup {None}, open : BOOLEAN,
            began : {"iam_app", "iam_tenant_user", "iam_superadmin"}]
Fresh   == [role |-> "iam_app", tenant |-> None, open |-> FALSE, began |-> "iam_app"]

Init ==
    /\ pc = [r \in Requests |-> "idle"]
    /\ caller = [r \in Requests |-> Public]
    /\ todo = [r \in Requests |-> 0]
    /\ tx = [r \in Requests |-> None] /\ own = [r \in Requests |-> None]
    /\ free = Conns /\ queue = <<>> /\ leaked = {}
    /\ session = [c \in Conns |-> Fresh]

Waiting == {"awaitGuard", "awaitTx", "awaitOwn"}
InTx    == {"setup", "handler", "awaitOwn", "own", "commit", "rollback", "release"}
OnOwn   == {"guardQuery", "own"}

-----------------------------------------------------------------------------
(* What a statement on a connection reads and writes.  The rows of a table *)
(* are told apart by their owner: a tenant, the system (system roles, their *)
(* permissions, audit records without a tenant), or nobody (a role without *)
(* a tenant that is no system role).                                       *)

Owners == Tenants \cup {System, Nobody}

\* The tables with row-level security, forced on their owner too.
Protected == {"users", "roles", "user_roles", "role_permissions", "resource_acls",
              "user_permission_overrides", "audit_logs"}

\* The policy tenant_isolation of each table, USING and so also WITH CHECK.
Policy(table, t) ==
    {o \in Owners :
        \/ o = t
        \/ table \in {"roles", "role_permissions", "audit_logs"} /\ o = System}

\* iam_app, which POSTGRES_USER makes the superuser of the cluster, and
\* iam_superadmin, which has BYPASSRLS, are not subject to policies.
Visible(c, table) ==
    IF session[c].role = "iam_tenant_user" THEN Policy(table, session[c].tenant) ELSE Owners

\* The connection of a statement of request r: that of the entity manager of the
\* request, once the interceptor has set it and for the services that use it.
RunsOn(r) == IF pc[r] = "handler" THEN tx[r] ELSE own[r]

-----------------------------------------------------------------------------
(* The pool of node-postgres, as TypeORM configures it: connect() does not *)
(* give up waiting, release() hands the connection to who waits longest.   *)

Goto(r, label) == pc' = [pc EXCEPT ![r] = label]
Granted(label) == CASE label = "awaitGuard" -> "guardQuery"
                    [] label = "awaitTx"    -> "setup"
                    [] label = "awaitOwn"   -> "own"

\* Request r gets connection c for what it waits for at label, out of the state
\* of tx and own that releasing has led to.
Hand(r, c, label, tx1, own1) ==
    IF label = "awaitTx" THEN tx' = [tx1 EXCEPT ![r] = c] /\ own' = own1
                         ELSE own' = [own1 EXCEPT ![r] = c] /\ tx' = tx1

Connect(r, label) ==
    /\ UNCHANGED <<caller, leaked, session>>
    /\ \/ /\ \E c \in free : free' = free \ {c} /\ Hand(r, c, label, tx, own)
          /\ Goto(r, Granted(label)) /\ UNCHANGED queue
       \/ free = {} /\ Goto(r, label) /\ queue' = Append(queue, r) /\ UNCHANGED <<free, tx, own>>

\* Request r, which goes on at label with tx1 and own1, gives back connection c.
Release(r, c, label, tx1, own1) ==
    /\ UNCHANGED leaked
    /\ \/ /\ queue = <<>> /\ Goto(r, label) /\ free' = free \cup {c}
          /\ tx' = tx1 /\ own' = own1 /\ UNCHANGED queue
       \/ /\ queue # <<>> /\ queue' = Tail(queue) /\ UNCHANGED free
          /\ pc' = [pc EXCEPT ![r] = label, ![Head(queue)] = Granted(pc[Head(queue)])]
          /\ Hand(Head(queue), c, pc[Head(queue)], tx1, own1)

Keep == UNCHANGED <<caller, tx, own, free, queue, leaked>>

-----------------------------------------------------------------------------
(* IamPermissionGuard, which runs before the interceptor. *)

Arrive(r) ==
    /\ pc[r] = "idle"
    /\ Goto(r, "guards")
    /\ \E who \in Callers[r] : caller' = [caller EXCEPT ![r] = who]
    /\ \E n \in 0 .. GuardQueries[r] : todo' = [todo EXCEPT ![r] = n]   \* 0: cached
    /\ UNCHANGED <<tx, own, free, queue, leaked, session>>

GuardQuery(r) ==
    /\ pc[r] = "guards" /\ todo[r] > 0
    /\ Connect(r, "awaitGuard")
    /\ UNCHANGED todo

\* Statements outside a transaction commit at once and set nothing.
GuardAnswer(r) ==
    /\ pc[r] = "guardQuery"
    /\ Release(r, own[r], "guards", tx, [own EXCEPT ![r] = None])
    /\ todo' = [todo EXCEPT ![r] = @ - 1]
    /\ UNCHANGED <<caller, session>>

\* A guard refuses; or the request is for /health, which the interceptor lets by.
Forbid(r) ==
    /\ pc[r] = "guards" /\ todo[r] = 0
    /\ Goto(r, "idle")
    /\ Keep /\ UNCHANGED <<todo, session>>

-----------------------------------------------------------------------------
(* TenantTransactionInterceptor. *)

Intercept(r) ==
    /\ pc[r] = "guards" /\ todo[r] = 0
    /\ Connect(r, "awaitTx")
    /\ todo' = [todo EXCEPT ![r] = OwnQueries[r]]

Set(c, role, tenant) ==
    session' = [session EXCEPT ![c] =
        [role |-> role, tenant |-> tenant, open |-> TRUE, began |-> session[c].role]]

\* startTransaction; SET ROLE iam_tenant_user and set_config(..., true), local to
\* the transaction, for the user of a tenant; SET ROLE iam_superadmin
SetUp(r) ==
    /\ pc[r] = "setup"
    /\ \/ caller[r] \in Tenants   /\ Set(tx[r], "iam_tenant_user", caller[r])
       \/ caller[r] = SuperAdmin /\ Set(tx[r], "iam_superadmin", session[tx[r]].tenant)
       \/ caller[r] = Public     /\ Set(tx[r], session[tx[r]].role, session[tx[r]].tenant)
    /\ Goto(r, "handler")
    /\ Keep /\ UNCHANGED todo

\* When one of them fails the error leaves the outer pipe, which has neither
\* the catchError nor the finalize of the inner one: no release.
SetUpFails(r) ==
    /\ pc[r] = "setup" /\ Cardinality(leaked) < MaxLeaks
    /\ Goto(r, "idle")
    /\ leaked' = leaked \cup {tx[r]}
    /\ tx' = [tx EXCEPT ![r] = None]
    /\ todo' = [todo EXCEPT ![r] = 0]
    /\ UNCHANGED <<caller, own, free, queue, session>>

\* Mutant: the handler starts its statements without waiting for one another.
OwnQueriesAtOnce(r) ==
    /\ pc[r] \in {"handler", "awaitOwn"} /\ todo[r] > 0
    /\ Connect(r, "awaitOwn")
    /\ UNCHANGED todo

OwnQuery(r) ==
    /\ pc[r] = "handler" /\ todo[r] > 0
    /\ Connect(r, "awaitOwn")
    /\ UNCHANGED todo

OwnAnswer(r) ==
    /\ pc[r] = "own"
    /\ Release(r, own[r], "handler", tx, [own EXCEPT ![r] = None])
    /\ todo' = [todo EXCEPT ![r] = @ - 1]
    /\ UNCHANGED <<caller, session>>

\* Mutant: a handler that returns nothing is not committed.
CommitOrNot(r) ==
    /\ pc[r] = "handler" /\ todo[r] = 0
    /\ \E label \in {"commit", "release"} : Goto(r, label)
    /\ Keep /\ UNCHANGED <<todo, session>>

HandlerReturns(r) ==
    /\ pc[r] = "handler" /\ todo[r] = 0
    /\ Goto(r, "commit")
    /\ Keep /\ UNCHANGED <<todo, session>>

HandlerThrows(r) ==
    /\ pc[r] = "handler"
    /\ Goto(r, "rollback")
    /\ todo' = [todo EXCEPT ![r] = 0]
    /\ Keep /\ UNCHANGED session

\* The end of a transaction takes local settings with it; a SET ROLE stays after
\* a commit and is undone by a rollback.
Ended(c, role) ==
    [session EXCEPT ![c] = [role |-> role, tenant |-> None, open |-> FALSE, began |-> role]]

\* A commit that fails goes through catchError too.
Commit(r) ==
    /\ pc[r] = "commit"
    /\ \/ Goto(r, "release") /\ session' = Ended(tx[r], session[tx[r]].role)
       \/ Goto(r, "rollback") /\ UNCHANGED session
    /\ Keep /\ UNCHANGED todo

\* Mutant: the connection is released only after a commit.
RollbackOnly(r) ==
    /\ pc[r] = "rollback"
    /\ Goto(r, "idle")
    /\ session' = Ended(tx[r], session[tx[r]].began)
    /\ Keep /\ UNCHANGED todo

\* Mutant: the commit is tried again instead.
RetryCommit(r) == pc[r] = "rollback" /\ Goto(r, "commit") /\ Keep /\ UNCHANGED <<todo, session>>

\* A ROLLBACK fails only when the connection is lost.  node-postgres replaces
\* such a connection when it is released.
Rollback(r) ==
    /\ pc[r] = "rollback"
    /\ Goto(r, "release")
    /\ session' = Ended(tx[r], session[tx[r]].began)
    /\ Keep /\ UNCHANGED todo

\* Mutant: a second release, as without the test of isReleased.
FinalizeTwice(r) ==
    /\ pc[r] = "release"
    /\ \/ Release(r, tx[r], "release", tx, own)
       \/ Release(r, tx[r], "idle", [tx EXCEPT ![r] = None], own)
    /\ session' = [session EXCEPT ![tx[r]].role = "iam_app"]
    /\ UNCHANGED <<caller, todo>>

\* Mutant: no RESET ROLE.
FinalizeRole(r) ==
    /\ pc[r] = "release"
    /\ Release(r, tx[r], "idle", [tx EXCEPT ![r] = None], own)
    /\ UNCHANGED <<caller, todo, session>>

\* finalize: RESET ROLE, and release
Finalize(r) ==
    /\ pc[r] = "release"
    /\ Release(r, tx[r], "idle", [tx EXCEPT ![r] = None], own)
    /\ session' = [session EXCEPT ![tx[r]].role = "iam_app"]
    /\ UNCHANGED <<caller, todo>>

-----------------------------------------------------------------------------
Step(r) ==
    \/ GuardQuery(r) \/ GuardAnswer(r) \/ Forbid(r) \/ Intercept(r)
    \/ SetUp(r) \/ SetUpFails(r) \/ OwnQuery(r) \/ OwnAnswer(r)
    \/ HandlerReturns(r) \/ HandlerThrows(r)
    \/ Commit(r) \/ Rollback(r) \/ Finalize(r)

Next == \E r \in Requests : Arrive(r) \/ Step(r)

Spec == Init /\ [][Next]_vars

\* A request that is not waiting for a connection goes on: statements end, with
\* a result or an error.  No request need arrive.
FairSpec == Spec /\ \A r \in Requests : WF_vars(Step(r))

-----------------------------------------------------------------------------
(* Properties *)

Held == {tx[r] : r \in Requests} \cup {own[r] : r \in Requests}

\* Type correctness.  The queue holds each waiting request once, and nobody
\* waits while a connection is free.
TypeOK ==
    /\ pc \in [Requests -> Waiting \cup InTx \cup OnOwn \cup {"idle", "guards"}]
    /\ caller \in [Requests -> Tenants \cup {SuperAdmin, Public}]
    /\ todo \in [Requests -> Nat]
    /\ tx \in [Requests -> Conns \cup {None}] /\ own \in [Requests -> Conns \cup {None}]
    /\ free \subseteq Conns /\ leaked \subseteq Conns
    /\ session \in [Conns -> Session]
    /\ queue \in Seq({r \in Requests : pc[r] \in Waiting})
    /\ \A r \in Requests :
          pc[r] \in Waiting => Cardinality({n \in 1..Len(queue) : queue[n] = r}) = 1
    /\ queue # <<>> => free = {}

\* Every connection is free, in the hands of one request, or leaked: whatever
\* the guards, the handler, the commit and the rollback do, finalize gives each
\* request's connection back exactly once.
Conserved ==
    /\ Conns = free \cup leaked \cup (Held \ {None})
    /\ free \cap leaked = {} /\ (free \cup leaked) \cap Held = {}
    /\ \A q, r \in Requests :
          /\ tx[q] = own[r] => tx[q] = None
          /\ tx[q] = tx[r] /\ q # r => tx[q] = None
          /\ own[q] = own[r] /\ q # r => own[q] = None

\* Row-level security, whatever requests the connection has served before: a
\* handler for a user of a tenant reads and writes the rows of that tenant, all
\* of them, and besides only rows of the system; the handlers of super admins
\* and of public routes, and statements on connections of their own, such as the
\* lookup of a user by a login, see every row.
RightScope == \A r \in Requests, table \in Protected :
    pc[r] \in {"handler"} \cup OnOwn =>
        IF pc[r] = "handler" /\ caller[r] \in Tenants
           THEN Visible(RunsOn(r), table) \in {{caller[r]}, {caller[r], System}}
           ELSE Visible(RunsOn(r), table) = Owners

\* What a handler writes through its entity manager is in the transaction that
\* is committed or rolled back with its response; a statement on a connection of
\* its own is in nobody's transaction.
RightTransaction == \A r \in Requests :
    pc[r] \in {"handler"} \cup OnOwn => (session[RunsOn(r)].open <=> pc[r] = "handler")

\* Nobody can go on only when each connection that has not leaked is held by a
\* handler that waits for a second one.
StuckOnlyByOwnQueries ==
    (\E r \in Requests : pc[r] \in Waiting)
    /\ (\A r \in Requests : pc[r] \in Waiting \cup {"idle"})
    => Cardinality({r \in Requests : pc[r] = "awaitOwn"}) + Cardinality(leaked) = Cardinality(Conns)

\* A request that waits for a connection gets one, if the handlers that take a
\* second one are fewer than the connections that are left.
Served == \A r \in Requests : pc[r] \in Waiting ~> pc[r] \notin Waiting
=============================================================================
