------------------------------ MODULE Directory ------------------------------
(***************************************************************************)
(* The requests of Generic-IAM that look for a row and then write one:     *)
(* tenants with their administrator, users with their first role, custom   *)
(* roles, ACLs, permission overrides and the permissions of roles.         *)
(*                                                                         *)
(* Each runs in the transaction of TenantTransactionInterceptor, which     *)
(* runInTransaction joins, at PostgreSQL's READ COMMITTED: a statement     *)
(* reads what is committed when it starts and what its own transaction has *)
(* written; a write waits for another transaction's write of the same row  *)
(* or of the same key of a unique index.  A failed statement or an         *)
(* exception of the handler rolls everything back.  Audit events leave at  *)
(* once, before the commit; those of updateRolePermissions, of which there *)
(* is one for each permission, before its next statement.                  *)
(***************************************************************************)
EXTENDS Integers, FiniteSets

CONSTANTS
    Requests,    \* the HTTP requests that can be in progress at a time
    Operations,  \* what they may ask for
    Stored,      \* what the rows may be at the start, by id
    Text,        \* the strings of requests and rows
    MaxCalls,    \* bound: the requests of a behaviour
    None, NoOp

Tables == {"tenants", "users", "user_roles", "roles", "acls", "overrides", "role_permissions"}

\* The services, and the tables of the rows they are about.
Services ==
    {<<"createTenant", "tenants">>, <<"createUser", "users">>, <<"createRole", "roles">>,
     <<"update", "tenants">>, <<"update", "users">>, <<"update", "roles">>,
     <<"createAcl", "acls">>, <<"deleteAcl", "acls">>,
     <<"addOverride", "overrides">>, <<"removeOverride", "overrides">>,
     <<"addPermission", "role_permissions">>, <<"removePermission", "role_permissions">>}
ById == {"update", "deleteAcl", "removeOverride"}   \* on a row the caller names

\* of: the tenant, user or role the row belongs to; key, val: its columns
RowSet == [table : Tables, of : Nat, key : Text, val : Text]

\* id: the row that is named; what it is about, as the columns of a row
Request == {o \in [do : STRING, id : Nat, table : Tables, of : Nat, key : Text, val : Text] :
                <<o.do, o.table>> \in Services}

ASSUME DirectoryAssumption ==
    /\ MaxCalls \in Nat /\ None \notin Nat \cup RowSet /\ NoOp \notin Request
    /\ {"", "admin", "Tenant Admin", "Employee"} \subseteq Text

VARIABLES
    rows,     \* the committed rows, by id; None where a row has been deleted
    nextId,   \* ids are uuids: a new one for every insert
    draft,    \* what each transaction has written, by id
    pc,       \* where each request is
    op,       \* what it does
    dto,      \* all that it was asked for: several permissions, or one operation
    left,     \* what of that it has not come to yet
    row,      \* the row it is about to write
    id,       \* the id of that row, None for a new one
    main,     \* the id its audit event will name
    sent,     \* the audit events of each request in progress
    calls

requestVars == <<pc, op, dto, left, row, id, main, sent>>
vars        == <<rows, nextId, draft, requestVars, calls>>

Row(table, of, key, val) == [table |-> table, of |-> of, key |-> key, val |-> val]

\* Mutant: the schema does not make the names of tenants unique.
SlugsOnly(x) ==
    CASE x.table = "tenants"   -> {<<"slug", 0, x.key>>}
      [] x.table = "users"     -> {<<"email", x.of, x.key>>}
      [] x.table = "overrides" -> {<<"override", x.of, x.key>>}
      [] OTHER                 -> {}

\* The keys of the unique indexes that a row takes.
UniqueKeys(x) ==
    CASE x.table = "tenants"   -> {<<"slug", 0, x.key>>, <<"name", 0, x.val>>}
      [] x.table = "users"     -> {<<"email", x.of, x.key>>}
      [] x.table = "overrides" -> {<<"override", x.of, x.key>>}
      [] OTHER                 -> {}
Keys(x) == IF x = None THEN {} ELSE UniqueKeys(x)

\* The rows at the start have the ids from 1 on and keep to the unique indexes.
ASSUME StoredAssumption == \A s \in Stored :
    /\ IsFiniteSet(DOMAIN s) /\ DOMAIN s = 1 .. Cardinality(DOMAIN s)
    /\ \A i \in DOMAIN s :
          /\ s[i] \in RowSet /\ s[i].of \in {0} \cup DOMAIN s
          /\ \A j \in DOMAIN s \ {i} : Keys(s[i]) \cap Keys(s[j]) = {}

\* A request is about something that exists, the row of its id as Begin finds it:
\* a user is created in a tenant, and only the seed makes roles of no tenant.
ASSUME OperationsAssumption == \A o \in Operations :
    /\ o \in Request /\ o.id = 0
    /\ \A s \in Stored :
          /\ o.of \in {0} \cup DOMAIN s
          /\ o.do = "createUser" => o.of \in DOMAIN s /\ s[o.of].table = "tenants"
    /\ o.do = "createRole" => o.of # 0
    /\ o.do \in ById \ {"update"} => o.key = ""

Init ==
    /\ rows \in Stored /\ nextId = Cardinality(DOMAIN rows) + 1
    /\ draft = [r \in Requests |-> <<>>]
    /\ pc = [r \in Requests |-> "idle"]
    /\ op = [r \in Requests |-> NoOp] /\ row = [r \in Requests |-> None]
    /\ dto = [r \in Requests |-> {}] /\ left = [r \in Requests |-> {}]
    /\ id = [r \in Requests |-> None] /\ main = [r \in Requests |-> None]
    /\ sent = [r \in Requests |-> {}] /\ calls = 0

-----------------------------------------------------------------------------
(* Transactions. *)

Sees(r, i)  == IF i \in DOMAIN draft[r] THEN draft[r][i] ELSE rows[i]
Visible(r)  == {i \in DOMAIN rows \cup DOMAIN draft[r] : Sees(r, i) # None}
Find(r, x)  == {i \in Visible(r) : LET y == Sees(r, i) IN
                    y.table = x.table /\ y.of = x.of /\ y.key = x.key}
Others(r)   == {q \in Requests \ {r} : pc[q] # "idle"}
\* Mutant: a write waits for nobody.
NoLock(r, i) == FALSE

Locked(r, i) == \E q \in Others(r) : i \in DOMAIN draft[q]
Before(i)   == IF i \in DOMAIN rows THEN rows[i] ELSE None

\* Another transaction has taken or given up a key that x would take.
Waits(r, x) ==
    \E q \in Others(r) : \E i \in DOMAIN draft[q] :
        (Keys(draft[q][i]) \cup Keys(Before(i))) \cap Keys(x) # {}
Taken(r, i, x) == \E j \in Visible(r) \ {i} : Keys(Sees(r, j)) \cap Keys(x) # {}

\* The rows after those of a transaction have come over the old ones.
Over(new, old) ==
    [i \in DOMAIN new \cup DOMAIN old |-> IF i \in DOMAIN new THEN new[i] ELSE old[i]]

Close(r) ==
    /\ pc' = [pc EXCEPT ![r] = "idle"] /\ op' = [op EXCEPT ![r] = NoOp]
    /\ dto' = [dto EXCEPT ![r] = {}] /\ left' = [left EXCEPT ![r] = {}]
    /\ row' = [row EXCEPT ![r] = None] /\ id' = [id EXCEPT ![r] = None]
    /\ main' = [main EXCEPT ![r] = None] /\ sent' = [sent EXCEPT ![r] = {}]
    /\ draft' = [draft EXCEPT ![r] = <<>>]
    /\ UNCHANGED <<nextId, calls>>

\* The handler throws or a statement fails.
Fail(r) == Close(r) /\ UNCHANGED rows

\* The connection breaks or the instance stops.
Rollback(r) == pc[r] # "idle" /\ Fail(r)

Commit(r) == pc[r] = "ready" /\ left[r] = {} /\ rows' = Over(draft[r], rows) /\ Close(r)

\* The statement the request runs next, for row x of id i.
Plan(r, label, i, x) ==
    /\ pc' = [pc EXCEPT ![r] = label]
    /\ row' = [row EXCEPT ![r] = x] /\ id' = [id EXCEPT ![r] = i]
    /\ UNCHANGED <<rows, nextId, draft, op, dto, left, main, sent, calls>>
Return(r) == Plan(r, "ready", None, None)   \* there is nothing to write

Looks(r, do) == pc[r] = "look" /\ op[r].do = do
-----------------------------------------------------------------------------
(* The services: a findOne, and what they do with its answer.              *)

\* The permissions that updateRolePermissions may be asked for besides o, which is
\* its first: it adds to a role before it removes.
Besides(o) == {p \in Operations \ {o} :
    /\ o.table = "role_permissions" /\ p.table = "role_permissions" /\ p.of = o.of
    /\ o.do = "removePermission" => p.do = "removePermission"}

\* An operation on a row by its id is on one that the caller has seen.
Begin(r, o) ==
    /\ pc[r] = "idle" /\ calls < MaxCalls
    /\ \/ o.do \notin ById /\ op' = [op EXCEPT ![r] = o]
       \/ /\ o.do \in ById
          /\ \E i \in DOMAIN rows :
                /\ rows[i] # None /\ rows[i].table = o.table
                /\ op' = [op EXCEPT ![r] = [o EXCEPT !.id = i, !.of = rows[i].of,
                                            !.key = IF o.key = "" THEN rows[i].key ELSE o.key]]
    /\ \E more \in SUBSET Besides(o) :
          /\ left' = [left EXCEPT ![r] = more]
          /\ dto' = [dto EXCEPT ![r] = {op'[r]} \cup more]
    /\ pc' = [pc EXCEPT ![r] = "look"]
    /\ calls' = calls + 1
    /\ UNCHANGED <<rows, nextId, draft, row, id, main, sent>>

\* What an operation is about, as a row.
AsRow(o)   == Row(o.table, o.of, o.key, o.val)
Subject(r) == AsRow(op[r])
New(r)     == Plan(r, "insert", None, Subject(r))

CreateTenant(r) ==
    LET same == {i \in Visible(r) : Sees(r, i).table = "tenants"
                     /\ (Sees(r, i).val = op[r].val \/ Sees(r, i).key = op[r].key)}
    IN Looks(r, "createTenant") /\ IF same # {} THEN Fail(r) ELSE New(r)

CreateUser(r) ==
    Looks(r, "createUser") /\ IF Find(r, Subject(r)) # {} THEN Fail(r) ELSE New(r)

\* updateTenant, updateUser and updateCustomRole write the changed row; the
\* roles of the system, which belong to no tenant, are not to be changed.
Update(r) ==
    /\ Looks(r, "update")
    /\ IF op[r].id \notin Visible(r) \/ (op[r].table = "roles" /\ Sees(r, op[r].id).of = 0)
       THEN Fail(r)
       ELSE Plan(r, "save", op[r].id,
                 [Sees(r, op[r].id) EXCEPT !.key = op[r].key, !.val = op[r].val])

\* Nothing keeps a tenant from two roles of one name.
CreateRole(r) == Looks(r, "createRole") /\ New(r)

CreateAcl(r) ==
    Looks(r, "createAcl") /\ IF Find(r, Subject(r)) # {} THEN Return(r) ELSE New(r)

AddOverride(r) ==
    /\ Looks(r, "addOverride")
    /\ IF Find(r, Subject(r)) = {} THEN New(r)
       ELSE \E i \in Find(r, Subject(r)) :
              IF Sees(r, i).val = op[r].val THEN Return(r) ELSE Plan(r, "save", i, Subject(r))

\* Mutant: a permission is added without looking for it.
AddPermissionAlways(r) == Looks(r, "addPermission") /\ New(r)

AddPermission(r) ==
    Looks(r, "addPermission") /\ IF Find(r, Subject(r)) # {} THEN Return(r) ELSE New(r)

DeleteAcl(r) ==
    /\ Looks(r, "deleteAcl")
    /\ IF op[r].id \in Visible(r) THEN Plan(r, "delete", op[r].id, None) ELSE Fail(r)

RemoveOverride(r) ==
    /\ Looks(r, "removeOverride")
    /\ IF op[r].id \in Visible(r) THEN Plan(r, "delete", op[r].id, None) ELSE Return(r)

\* Mutant: the mapping is found, and not removed.
RemoveNothing(r) == Looks(r, "removePermission") /\ Return(r)

RemovePermission(r) ==
    /\ Looks(r, "removePermission")
    /\ IF Find(r, Subject(r)) = {} THEN Return(r)
       ELSE \E i \in Find(r, Subject(r)) : Plan(r, "delete", i, None)

\* The loops of updateRolePermissions go on, in any order, first with the
\* permissions to add, then with those to remove.
NextPermission(r) ==
    /\ pc[r] = "ready"
    /\ \E o \in left[r] :
          /\ o.do = "removePermission" => \A p \in left[r] : p.do = "removePermission"
          /\ op' = [op EXCEPT ![r] = o]
          /\ left' = [left EXCEPT ![r] = left[r] \ {o}]
    /\ pc' = [pc EXCEPT ![r] = "look"]
    /\ row' = [row EXCEPT ![r] = None] /\ id' = [id EXCEPT ![r] = None]
    /\ main' = [main EXCEPT ![r] = None]
    /\ UNCHANGED <<rows, nextId, draft, dto, sent, calls>>

-----------------------------------------------------------------------------
(* The statements that write. *)

Event(r, m)    == [op |-> op[r], id |-> m]
Write(r, i, x) == draft' = [draft EXCEPT ![r] = Over([j \in {i} |-> x], @)]

\* The service emits its audit event after the last statement of the operation,
\* which is the last of the request unless there are more permissions.
Announce(r, m) ==
    /\ pc' = [pc EXCEPT ![r] = "ready"]
    /\ main' = [main EXCEPT ![r] = m]
    /\ sent' = [sent EXCEPT ![r] = sent[r] \cup {Event(r, m)}]
    /\ UNCHANGED <<rows, op, dto, left, row, id, calls>>

\* save() of a found entity reads the row again: it inserts one that is gone and
\* leaves alone one that is already so.
Save(r) ==
    /\ pc[r] = "save"
    /\ \/ id[r] \notin Visible(r) /\ Plan(r, "insert", id[r], row[r])
       \/ /\ id[r] \in Visible(r) /\ Sees(r, id[r]) # row[r]
          /\ Plan(r, "update", id[r], row[r])
       \/ /\ id[r] \in Visible(r) /\ Sees(r, id[r]) = row[r]
          /\ Announce(r, id[r]) /\ UNCHANGED <<nextId, draft>>

UpdateRow(r) ==
    /\ pc[r] = "update" /\ ~Locked(r, id[r]) /\ ~Waits(r, row[r])
    /\ \/ id[r] \in Visible(r) /\ Taken(r, id[r], row[r]) /\ Fail(r)
       \/ /\ id[r] \in Visible(r) /\ ~Taken(r, id[r], row[r])
          /\ Write(r, id[r], row[r]) /\ Announce(r, id[r]) /\ UNCHANGED nextId
       \/ id[r] \notin Visible(r) /\ Announce(r, id[r]) /\ UNCHANGED <<nextId, draft>>

\* Mutant: the service does not wait for remove(), which fails.
DeleteUnnoticed(r) ==
    /\ pc[r] = "delete" /\ ~Locked(r, id[r])
    /\ Announce(r, id[r]) /\ UNCHANGED <<draft, nextId>>

DeleteRow(r) ==
    /\ pc[r] = "delete" /\ ~Locked(r, id[r])
    /\ IF id[r] \in Visible(r) THEN Write(r, id[r], None) ELSE UNCHANGED draft
    /\ Announce(r, id[r]) /\ UNCHANGED nextId

\* What follows the insert of row i: the administrator of a new tenant, the
\* role of a new user, or the event.
Follow(r, i) ==
    CASE row[r].table = "tenants" ->
            /\ row' = [row EXCEPT ![r] = Row("users", i, "admin", "")]
            /\ main' = [main EXCEPT ![r] = i]
            /\ UNCHANGED <<rows, pc, op, dto, left, id, sent, calls>>
      [] row[r].table = "users" ->
            /\ row' = [row EXCEPT ![r] = Row("user_roles", i, "", "")]
            /\ pc' = [pc EXCEPT ![r] = "role"]
            /\ main' = [main EXCEPT ![r] = IF main[r] = None THEN i ELSE main[r]]
            /\ UNCHANGED <<rows, op, dto, left, id, sent, calls>>
      [] OTHER -> Announce(r, IF main[r] = None THEN i ELSE main[r])

Insert(r) ==
    LET i == IF id[r] = None THEN nextId ELSE id[r] IN
    /\ pc[r] = "insert" /\ ~Waits(r, row[r]) /\ ~Locked(r, i)
    /\ \/ (Taken(r, i, row[r]) \/ i \in Visible(r)) /\ Fail(r)
       \/ /\ ~Taken(r, i, row[r]) /\ i \notin Visible(r)
          /\ Write(r, i, row[r])
          /\ nextId' = IF id[r] = None THEN nextId + 1 ELSE nextId
          /\ Follow(r, i)

\* The first role of a user.  A system role that has not been seeded is passed
\* over; a role the caller names has to exist.
FindRole(r) ==
    LET named  == op[r].do = "createUser" /\ op[r].val # ""
        wanted == IF op[r].do = "createTenant" THEN "Tenant Admin"
                  ELSE IF named THEN op[r].val ELSE "Employee"
        found  == \E i \in Visible(r) : LET x == Sees(r, i) IN
                    x.table = "roles" /\ x.key = wanted /\ x.of \in {0, IF named THEN op[r].of ELSE 0}
    IN /\ pc[r] = "role"
       /\ \/ found /\ Plan(r, "insert", None, [row[r] EXCEPT !.key = wanted])
          \/ ~found /\ named /\ Fail(r)
          \/ ~found /\ ~named /\ Announce(r, main[r]) /\ UNCHANGED <<nextId, draft>>

Next == \E r \in Requests :
    \/ \E o \in Operations : Begin(r, o)
    \/ CreateTenant(r) \/ CreateUser(r) \/ Update(r) \/ CreateRole(r)
    \/ CreateAcl(r) \/ AddOverride(r) \/ AddPermission(r)
    \/ DeleteAcl(r) \/ RemoveOverride(r) \/ RemovePermission(r) \/ NextPermission(r)
    \/ Save(r) \/ UpdateRow(r) \/ DeleteRow(r) \/ Insert(r) \/ FindRole(r)
    \/ Commit(r) \/ Rollback(r)

Spec == Init /\ [][Next]_vars
=============================================================================
