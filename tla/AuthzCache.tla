------------------------------ MODULE AuthzCache ------------------------------
(***************************************************************************)
(* The authorization check of Generic-IAM and the Redis caches behind it:  *)
(* AuthorizationService.check, the part of OverrideService and AclService  *)
(* it reads, CacheService, the administrative operations that change what  *)
(* a check must answer, the Kafka events they emit and the EventConsumer   *)
(* that clears the caches; and IamAuthzService.isAllowed of the SDK, which *)
(* answers other services from the same Redis.                             *)
(*                                                                         *)
(* One permission P and one resource R are fixed (see AuthzFacts); a       *)
(* tenant is the set Users.                                                *)
(* The permission set stored under perms:<tenant>:<user> is abstracted to  *)
(* whether hasPermission finds P in it.                                    *)
(*                                                                         *)
(* An `await` of the code is a step boundary of the model: every Redis     *)
(* command, every SQL statement of a check, and the commit of a request    *)
(* are separate actions, and any number of checks, requests and event      *)
(* handlers interleave.                                                    *)
(***************************************************************************)
EXTENDS Integers, AuthzFacts

CONSTANTS
    Initially,     \* the views of a user the database may start from
    Checks,        \* the calls of check() that can be in progress at a time
    Requests,      \* the administrative HTTP requests of a behaviour
    Operations,    \* which operations those requests may perform
    Temporary,     \* the users whose role assignment carries expires_at
    Scopes,        \* "plain": no resource in the check; "resource": resource R
    UsesSdk,       \* whether other services ask through the SDK as well
    PermsTTL,      \* redis.ttlMs, the life of a perms: entry
    DecisionTTL,   \* the 300 s of the acl: and authz: entries
    CheckTime      \* the longest time one call of check() takes

Max2(a, b) == IF a >= b THEN a ELSE b

ASSUME ConstantsAssumption ==
    /\ Initially \subseteq View
    /\ Operations \subseteq Fact \cup {"active", "delete"}
    /\ Temporary \subseteq Users
    /\ Scopes \subseteq {"plain", "resource"}
    /\ UsesSdk \in BOOLEAN
    /\ PermsTTL \in Nat \ {0}
    /\ DecisionTTL \in Nat \ {0}
    /\ CheckTime \in Nat \ {0}

-----------------------------------------------------------------------------
VARIABLES
    db,        \* db[u][f]: the committed row of fact f of user u
    cache,     \* Redis: cache[k], the entry under key k and its remaining life
    pc,        \* where each check is
    subject,   \* the user_id a check is about
    scope,     \* whether the check names resource R
    seen,      \* what the check has found so far
    elapsed,   \* how long the check has been in progress
    answer,    \* the answer of the check's last call
    tx,        \* the transaction of each request
    change,    \* what the request changes
    stage,     \* how far the event of the request has got
    found      \* the keys scanAndDelete has collected for that event

checkVars == <<pc, subject, scope, seen, elapsed, answer>>
eventVars == <<stage, found>>
vars      == <<db, cache, checkVars, tx, change, eventVars>>

\* The key <<u, "perms">> stands for perms:<tenant>:<u>, <<u, "acl">> for the
\* acl: entry of P on R, <<u, s>> for the authz: entry of P in scope s.
Key == Users \X {"perms", "acl", "plain", "resource"}
\* Mutant: a life already in milliseconds is multiplied again, as set() does.
TTLTimes1000(k) == 1000 * IF k[2] = "perms" THEN PermsTTL ELSE DecisionTTL
TTL(k) == IF k[2] = "perms" THEN PermsTTL ELSE DecisionTTL

NoEntry    == [val |-> FALSE, ttl |-> 0]
Present(k) == cache[k].ttl > 0
Put(k, v)  == cache' = [cache EXCEPT ![k] = [val |-> v, ttl |-> TTL(k)]]
Del(ks)    == cache' = [k \in Key |-> IF k \in ks THEN NoEntry ELSE cache[k]]

-----------------------------------------------------------------------------
Init ==
    /\ db \in [Users -> Initially]
    /\ cache = [k \in Key |-> NoEntry]
    /\ pc = [c \in Checks |-> "idle"]
    /\ subject \in [Checks -> Users]
    /\ scope \in [Checks -> Scopes]
    /\ seen = [c \in Checks |-> FALSE]
    /\ elapsed = [c \in Checks |-> 0]
    /\ answer = [c \in Checks |-> "none"]
    /\ tx = [r \in Requests |-> "idle"]
    /\ change = [r \in Requests |-> [op |-> "active", users |-> {}, row |-> "absent"]]
    /\ stage = [r \in Requests |-> "none"]
    /\ found = [r \in Requests |-> {}]

-----------------------------------------------------------------------------
(* AuthorizationService.check, one action for each await. *)

Goto(c, label) == pc' = [pc EXCEPT ![c] = label]
Found(c, v)    == seen' = [seen EXCEPT ![c] = v]

\* The call returns.  What it has found does not outlive it.
Reply(c, v) ==
    /\ answer' = [answer EXCEPT ![c] = v]
    /\ Goto(c, "idle")
    /\ Found(c, FALSE)
    /\ elapsed' = [elapsed EXCEPT ![c] = 0]

Continue(c, label, v) ==
    /\ Goto(c, label)
    /\ Found(c, v)
    /\ UNCHANGED <<elapsed, answer>>

CheckOnly == UNCHANGED <<subject, scope, db, tx, change, eventVars>>

\* A call about user u in scope s, over HTTP or from a guard.
Begin(c, u, s, label) ==
    /\ pc[c] = "idle"
    /\ Goto(c, label)
    /\ subject' = [subject EXCEPT ![c] = u]
    /\ scope' = [scope EXCEPT ![c] = s]
    /\ answer' = [answer EXCEPT ![c] = "none"]
    /\ UNCHANGED <<seen, elapsed, db, cache, tx, change, eventVars>>

Check(c, u, s) == Begin(c, u, s, "decision")

(* IamAuthzService.isAllowed, which runs in another service: it looks at the *)
(* entries of the same Redis, and asks for a check() when they do not help.  *)
(* It takes a Redis that fails for a miss, and a check() that fails for a    *)
(* denial, which is "none" here as for any other caller.                     *)

IsAllowed(c, u, s) == UsesSdk /\ Begin(c, u, s, "permsTier")

\* Mutant: every hit is an answer, also a denial of a check that names R.
PermsTierAlways(c) ==
    LET k == <<subject[c], "perms">> IN
    /\ pc[c] = "permsTier"
    /\ \/ Present(k) /\ Reply(c, IF cache[k].val THEN "allow" ELSE "deny")
       \/ Continue(c, "decisionTier", FALSE)
    /\ UNCHANGED cache
    /\ CheckOnly

\* The permission set is an answer unless an ACL may allow what it denies.
PermsTier(c) ==
    LET k == <<subject[c], "perms">> IN
    /\ pc[c] = "permsTier"
    /\ \/ /\ Present(k) /\ (cache[k].val \/ scope[c] = "plain")
          /\ Reply(c, IF cache[k].val THEN "allow" ELSE "deny")
       \/ Continue(c, "decisionTier", FALSE)
    /\ UNCHANGED cache
    /\ CheckOnly

DecisionTier(c) ==
    LET k == <<subject[c], scope[c]>> IN
    /\ pc[c] = "decisionTier"
    /\ \/ Present(k) /\ Reply(c, IF cache[k].val THEN "allow" ELSE "deny")
       \/ Continue(c, "decision", FALSE)
    /\ UNCHANGED cache
    /\ CheckOnly

(* check() itself. *)

\* get(authzKey): a cached decision, FALSE included, is the answer.
GetDecision(c) ==
    LET k == <<subject[c], scope[c]>> IN
    /\ pc[c] = "decision"
    /\ IF Present(k) THEN Reply(c, IF cache[k].val THEN "allow" ELSE "deny")
                     ELSE Continue(c, "perms", FALSE)
    /\ UNCHANGED cache
    /\ CheckOnly

\* hasPermission, once the permission set is known: only a denied check that
\* names a resource goes on to the ACLs.
AfterPerms(c, v) == IF v \/ scope[c] = "plain" THEN "setDecision" ELSE "acl"

\* Mutant: a hit renews the life of the permission set.
GetPermissionsSliding(c) ==
    LET k == <<subject[c], "perms">> IN
    /\ pc[c] = "perms"
    /\ IF Present(k)
          THEN Continue(c, AfterPerms(c, cache[k].val), cache[k].val) /\ Put(k, cache[k].val)
          ELSE Continue(c, "roles", FALSE) /\ UNCHANGED cache
    /\ CheckOnly

\* getPermissions: on a miss the set is computed from the database.
GetPermissions(c) ==
    LET k == <<subject[c], "perms">> IN
    /\ pc[c] = "perms"
    /\ IF Present(k) THEN Continue(c, AfterPerms(c, cache[k].val), cache[k].val)
                     ELSE Continue(c, "roles", FALSE)
    /\ UNCHANGED cache
    /\ CheckOnly

\* getUserRoles: without a role the role permissions are not read.
GetUserRoles(c) ==
    LET v == db[subject[c]]["role"] = "present" IN
    /\ pc[c] = "roles"
    /\ Continue(c, IF v THEN "grants" ELSE "overrides", v)
    /\ UNCHANGED cache
    /\ CheckOnly

GetRolePermissions(c) ==
    /\ pc[c] = "grants"
    /\ Continue(c, "overrides", db[subject[c]]["grant"] = "present")
    /\ UNCHANGED cache
    /\ CheckOnly

GetOverridesForUser(c) ==
    /\ pc[c] = "overrides"
    /\ Continue(c, "setPerms", Effective(seen[c], db[subject[c]]["override"]))
    /\ UNCHANGED cache
    /\ CheckOnly

SetPermissions(c) ==
    /\ pc[c] = "setPerms"
    /\ Put(<<subject[c], "perms">>, seen[c])
    /\ Continue(c, AfterPerms(c, seen[c]), seen[c])
    /\ CheckOnly

\* Mutant: a hit goes on to store the cached value again.
GetAclSliding(c) ==
    LET k == <<subject[c], "acl">> IN
    /\ pc[c] = "acl"
    /\ IF Present(k) THEN Continue(c, "setAcl", cache[k].val)
                     ELSE Continue(c, "countAcl", FALSE)
    /\ UNCHANGED cache
    /\ CheckOnly

\* AclService.check: its own cache first, then a count of the rows.
GetAcl(c) ==
    LET k == <<subject[c], "acl">> IN
    /\ pc[c] = "acl"
    /\ IF Present(k) THEN Continue(c, "setDecision", cache[k].val)
                     ELSE Continue(c, "countAcl", FALSE)
    /\ UNCHANGED cache
    /\ CheckOnly

\* Mutant: count >= 0 instead of count > 0.
CountAclAtLeastZero(c) ==
    /\ pc[c] = "countAcl"
    /\ Continue(c, "setAcl", TRUE)
    /\ UNCHANGED cache
    /\ CheckOnly

CountAcl(c) ==
    /\ pc[c] = "countAcl"
    /\ Continue(c, "setAcl", db[subject[c]]["acl"] = "present")
    /\ UNCHANGED cache
    /\ CheckOnly

SetAcl(c) ==
    /\ pc[c] = "setAcl"
    /\ Put(<<subject[c], "acl">>, seen[c])
    /\ Continue(c, "setDecision", seen[c])
    /\ CheckOnly

SetDecision(c) ==
    /\ pc[c] = "setDecision"
    /\ Put(<<subject[c], scope[c]>>, seen[c])
    /\ Reply(c, IF seen[c] THEN "allow" ELSE "deny")
    /\ CheckOnly

\* Redis or PostgreSQL fails, or the instance stops: the call ends without an
\* answer, and what it has already written to Redis stays.
CheckFails(c) ==
    /\ pc[c] # "idle"
    /\ Reply(c, "none")
    /\ UNCHANGED cache
    /\ CheckOnly

CheckStep(c) ==
    \/ PermsTier(c) \/ DecisionTier(c)
    \/ GetDecision(c) \/ GetPermissions(c) \/ GetUserRoles(c)
    \/ GetRolePermissions(c) \/ GetOverridesForUser(c) \/ SetPermissions(c)
    \/ GetAcl(c) \/ CountAcl(c) \/ SetAcl(c) \/ SetDecision(c)

-----------------------------------------------------------------------------
(* The administrative requests.  TenantTransactionInterceptor wraps each in *)
(* a transaction.  The handler saves its rows and emits its event, and only *)
(* afterwards does the interceptor commit: one action for the handler, one  *)
(* for the end of the transaction.  The save waits for another transaction  *)
(* that holds the same row.  deleteCustomRole alone looks at committed rows *)
(* before its last statement, so that it has an action for each of the two. *)

RequestOnly == UNCHANGED <<cache, checkVars, found>>

\* The facts whose rows an operation writes: removing a role cascades to the
\* user_roles and role_permissions that name it.
Writes(op) == IF op = "delete" THEN {"role", "grant"} ELSE {op}

NoWait(op, users) ==
    \A q \in Requests :
        tx[q] = "open" /\ Writes(change[q].op) \cap Writes(op) # {}
        => change[q].users \cap users = {}

\* findOneForTenant finds the role until its removal is committed.
RoleStands == \A q \in Requests : ~(change[q].op = "delete" /\ tx[q] = "committed")

SaveAndEmit(r, op, users, row) ==
    /\ op \in Operations
    /\ tx[r] = "idle"
    /\ NoWait(op, users)
    /\ tx' = [tx EXCEPT ![r] = "open"]
    /\ change' = [change EXCEPT ![r] = [op |-> op, users |-> users, row |-> row]]
    /\ stage' = [stage EXCEPT ![r] = "sent"]
    /\ UNCHANGED db
    /\ RequestOnly

\* assignToUser and updateUserRoles emit PERMISSION_CHANGED for the user even
\* when the assignment is already as requested.
UpdateUserRoles(r) ==
    \E u \in Users, row \in RowsOf("role") :
        /\ row = "present" => RoleStands
        /\ SaveAndEmit(r, "role", {u}, row)

\* addOverride returns early when the override has the requested type, and
\* removeOverride does nothing when there is none.
ChangeOverride(r) ==
    \E u \in Users, row \in RowsOf("override") :
        /\ db[u]["override"] # row
        /\ SaveAndEmit(r, "override", {u}, row)

\* updateRolePermissions emits one PERMISSION_CHANGED without a user_id.
UpdateRolePermissions(r) ==
    /\ RoleStands
    /\ \E row \in RowsOf("grant") : SaveAndEmit(r, "grant", Users, row)

\* createAcl returns an existing row, deleteAcl answers 404 without one.
ChangeAcl(r) ==
    \E u \in Users, row \in RowsOf("acl") :
        /\ db[u]["acl"] # row
        /\ SaveAndEmit(r, "acl", {u}, row)

\* setActivation emits USER_CHANGED; check() does not read is_active.
SetActivation(r) ==
    \E u \in Users : SaveAndEmit(r, "active", {u}, "present")

\* deleteCustomRole refuses when the role is assigned: it counts the rows that are
\* committed.  It counts an expired row as well, until the hourly purge, which
\* changes nothing that a check reads and may come at any time.
CountUserRoles(r) ==
    /\ "delete" \in Operations
    /\ tx[r] = "idle"
    /\ RoleStands
    /\ \A u \in Users : db[u]["role"] = "absent"
    /\ tx' = [tx EXCEPT ![r] = "counted"]
    /\ change' = [change EXCEPT ![r] = [op |-> "delete", users |-> Users, row |-> "absent"]]
    /\ UNCHANGED <<db, stage>>
    /\ RequestOnly

\* Its remove deletes the role with the rows that name it by then, and emits
\* nothing but an audit event.
RemoveRole(r) ==
    /\ tx[r] = "counted"
    /\ NoWait("delete", Users)
    /\ tx' = [tx EXCEPT ![r] = "open"]
    /\ UNCHANGED <<db, change, stage>>
    /\ RequestOnly

Commit(r) ==
    LET ch == change[r] IN
    /\ tx[r] = "open"
    /\ tx' = [tx EXCEPT ![r] = "committed"]
    /\ db' = [u \in Users |-> [f \in Fact |->
                 IF u \in ch.users /\ f \in Writes(ch.op) THEN ch.row ELSE db[u][f]]]
    /\ UNCHANGED <<change, stage>>
    /\ RequestOnly

Rollback(r) ==
    /\ tx[r] \in {"counted", "open"}
    /\ tx' = [tx EXCEPT ![r] = "aborted"]
    /\ UNCHANGED <<db, change, stage>>
    /\ RequestOnly

\* expires_at passes: getUserRoles no longer returns the row.  No event.
RoleExpires(u) ==
    /\ u \in Temporary
    /\ db[u]["role"] = "present"
    /\ db' = [db EXCEPT ![u]["role"] = "absent"]
    /\ UNCHANGED <<tx, change, stage>>
    /\ RequestOnly

-----------------------------------------------------------------------------
(* EventConsumer.  Handlers of different events run at the same time.       *)

HandlerStep(r, from, to) ==
    /\ stage[r] = from
    /\ stage' = [stage EXCEPT ![r] = to]
    /\ UNCHANGED <<db, checkVars, tx, change>>

Collect(r, ks) == found' = [found EXCEPT ![r] = {k \in ks : Present(k)}] /\ UNCHANGED cache
Forget(r)      == found' = [found EXCEPT ![r] = {}]

\* invalidateUserPermissionCache: del perms:<tenant>:<user>, then scan authz:
DelUserPerms(r) ==
    /\ change[r].op \in {"role", "override", "active"}
    /\ HandlerStep(r, "sent", "permsGone")
    /\ Del(change[r].users \X {"perms"})
    /\ UNCHANGED found

\* invalidateTenantPermissionCache: scan perms:, del, then scan authz:, del
ScanPerms(r) ==
    /\ change[r].op = "grant"
    /\ HandlerStep(r, "sent", "permsFound")
    /\ Collect(r, Users \X {"perms"})

\* Mutant: the tenant's authz: entries are forgotten.
DelPermsOnly(r) ==
    /\ HandlerStep(r, "permsFound", "done")
    /\ Del(found[r])
    /\ Forget(r)

DelPerms(r) ==
    /\ HandlerStep(r, "permsFound", "permsGone")
    /\ Del(found[r])
    /\ Forget(r)

ScanAuthz(r) ==
    /\ HandlerStep(r, "permsGone", "authzFound")
    /\ Collect(r, change[r].users \X {"plain", "resource"})

DelAuthz(r) ==
    /\ HandlerStep(r, "authzFound", "done")
    /\ Del(found[r])
    /\ Forget(r)

\* handleAclChanged: invalidateAclCache, then invalidateAuthzDecision
InvalidateAclCache(r) ==
    /\ change[r].op = "acl"
    /\ HandlerStep(r, "sent", "aclGone")
    /\ Del(change[r].users \X {"acl"})
    /\ UNCHANGED found

InvalidateAuthzDecision(r) ==
    /\ HandlerStep(r, "aclGone", "done")
    /\ Del(change[r].users \X {"resource"})
    /\ UNCHANGED found

Handle(r) ==
    \/ DelUserPerms(r) \/ ScanPerms(r) \/ DelPerms(r) \/ ScanAuthz(r)
    \/ DelAuthz(r) \/ InvalidateAclCache(r) \/ InvalidateAuthzDecision(r)

Handling == {"permsFound", "permsGone", "authzFound", "aclGone"}

\* emit() only logs a send that fails, and a handler that throws is not run
\* again: the event, or the rest of its handling, is lost.
LoseEvent(r) ==
    /\ stage[r] \in {"sent"} \cup Handling
    /\ stage' = [stage EXCEPT ![r] = "lost"]
    /\ Forget(r)
    /\ UNCHANGED <<db, cache, checkVars, tx, change>>

\* Kafka delivers at least once: a consumer that stops before its offset is
\* committed gets the event again.
Redeliver(r) ==
    /\ stage[r] \in Handling \cup {"done"}
    /\ stage' = [stage EXCEPT ![r] = "sent"]
    /\ Forget(r)
    /\ UNCHANGED <<db, cache, checkVars, tx, change>>

-----------------------------------------------------------------------------
\* Time passes.  Redis drops an entry when its life is over.  A check is not
\* older than CheckTime: that is what the constant means.
Tick ==
    /\ \A c \in Checks : pc[c] # "idle" => elapsed[c] < CheckTime
    /\ elapsed' = [c \in Checks |-> IF pc[c] = "idle" THEN 0 ELSE elapsed[c] + 1]
    /\ cache' = [k \in Key |-> IF cache[k].ttl > 1
                               THEN [cache[k] EXCEPT !.ttl = @ - 1] ELSE NoEntry]
    /\ UNCHANGED <<db, pc, subject, scope, seen, answer, tx, change, eventVars>>

Request(r) ==
    \/ UpdateUserRoles(r) \/ ChangeOverride(r) \/ UpdateRolePermissions(r)
    \/ ChangeAcl(r) \/ SetActivation(r) \/ CountUserRoles(r) \/ RemoveRole(r)

Step ==
    \/ \E c \in Checks, u \in Users, s \in Scopes : Check(c, u, s) \/ IsAllowed(c, u, s)
    \/ \E c \in Checks : CheckStep(c) \/ CheckFails(c)
    \/ \E r \in Requests : Request(r) \/ Commit(r) \/ Rollback(r)
    \/ \E u \in Users : RoleExpires(u)
    \/ \E r \in Requests : Handle(r) \/ LoseEvent(r) \/ Redeliver(r)

Next == Step \/ Tick

Spec == Init /\ [][Next]_vars

\* Every await of a check ends, with a value or an exception, and time passes.
\* Nothing else is assumed: requests, commits and deliveries need not happen.
Fairness ==
    /\ \A c \in Checks : WF_vars(CheckStep(c) \/ CheckFails(c))
    /\ WF_vars(Tick)

FairSpec == Spec /\ Fairness

-----------------------------------------------------------------------------
(* Properties *)

Label == {"idle", "permsTier", "decisionTier", "decision", "perms", "roles", "grants",
          "overrides", "setPerms", "acl", "countAcl", "setAcl", "setDecision"}
Entry == [val : BOOLEAN, ttl : 0..Max2(PermsTTL, DecisionTTL)]

DbOK    == db \in [Users -> View]
CacheOK == cache \in [Key -> Entry]
ChecksOK ==
    /\ pc \in [Checks -> Label]
    /\ subject \in [Checks -> Users]
    /\ scope \in [Checks -> Scopes]
    /\ seen \in [Checks -> BOOLEAN]
    /\ elapsed \in [Checks -> 0..CheckTime]
    /\ answer \in [Checks -> {"none", "allow", "deny"}]
\* A change names rows its operation can write, of the users it concerns.
Change ==
    {ch \in [op : Fact \cup {"active", "delete"}, users : SUBSET Users, row : Row] :
        /\ ch.op \in Fact => ch.row \in RowsOf(ch.op)
        /\ ch.op = "delete" => ch.row = "absent"}
RequestsOK ==
    /\ tx \in [Requests -> {"idle", "counted", "open", "committed", "aborted"}]
    /\ change \in [Requests -> Change]
    /\ stage \in [Requests -> {"none", "sent", "done", "lost"} \cup Handling]
    /\ found \in [Requests -> SUBSET Key]

\* Type correctness.  In particular a check is never older than CheckTime and an
\* entry never has more of its life left than the longest TTL.
TypeOK == DbOK /\ CacheOK /\ ChecksOK /\ RequestsOK

\* Once what the rows of a user decide lasts, the entries of the user come to
\* say the same: a revoked access is not allowed from the caches for ever, nor
\* a granted one denied, whatever becomes of the events.
CachesConverge ==
    \A k \in Key, v \in BOOLEAN :
        <>[](Decides(k[2], db[k[1]]) = v) => <>[](Present(k) => cache[k].val = v)
=============================================================================
