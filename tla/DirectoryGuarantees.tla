-------------------------- MODULE DirectoryGuarantees --------------------------
(***************************************************************************)
(* What the committed rows and the audit events of Directory say of each   *)
(* other, given which requests overlapped: a history variable follows it.  *)
(***************************************************************************)
EXTENDS Directory

VARIABLE raced   \* history: what two requests in progress at a time were about

About(x)  == <<x.table, x.of, x.key>>   \* of a row, and of an operation on one
Topic(o)  == IF o.do = "update" THEN <<o.table, o.id>> ELSE About(o)
Topics(r) == {Topic(o) : o \in dto[r]}

\* The tables whose rows give or take permissions.
Granting == {"acls", "overrides", "role_permissions"}

\* At the start, no permission is given twice.
ASSUME SinglesAssumption == \A s \in Stored : \A i \in DOMAIN s : \A j \in DOMAIN s \ {i} :
    s[i].table \in Granting => About(s[i]) # About(s[j])

\* Pairs of requests.
Distinct == {p \in Requests \X Requests : p[1] # p[2]}

GInit == Init /\ raced = {}
GNext ==
    /\ Next
    /\ raced' = raced \cup UNION {Topics(p[1])' \cap Topics(p[2])' : p \in Distinct}
GSpec == GInit /\ [][GNext]_<<vars, raced>>

-----------------------------------------------------------------------------
Stands(i)   == rows[i] # None
In(table)   == {i \in DOMAIN rows : Stands(i) /\ rows[i].table = table}
Made(table) == In(table) \ UNION {DOMAIN s : s \in Stored}
Seeded(name) == Row("roles", 0, name, "") \in {rows[i] : i \in In("roles")}

\* Type correctness.  Two transactions never hold a write of the same row, and
\* what a transaction has written or planned fits the place it has come to.
Ids      == 1 .. nextId - 1
IsRow(x) == x \in RowSet /\ x.of \in {0} \cup Ids

RequestOK(r) ==
    /\ DOMAIN draft[r] \subseteq Ids
    /\ \A i \in DOMAIN draft[r] : draft[r][i] = None \/ IsRow(draft[r][i])
    /\ pc[r] \in {"idle", "look", "insert", "save", "update", "delete", "role", "ready"}
    /\ IF pc[r] = "idle" THEN op[r] = NoOp /\ dto[r] = {} /\ draft[r] = <<>>
                         ELSE op[r] \in dto[r] \ left[r]
    /\ \A o \in dto[r] : o \in Request /\ o.id \in {0} \cup Ids /\ o.of \in {0} \cup Ids
    /\ left[r] \subseteq dto[r] /\ \A e \in sent[r] : e.op \in dto[r] \ left[r] /\ e.id \in Ids
    /\ pc[r] \in {"insert", "save", "update", "role"} => IsRow(row[r])
    /\ pc[r] \in {"save", "update", "delete"} => id[r] \in Ids
    /\ pc[r] = "insert" => id[r] = None \/ id[r] \in Ids
    /\ main[r] = None \/ main[r] \in Ids
    /\ draft[r] # <<>> /\ op[r].table # "role_permissions" =>
          pc[r] \in {"insert", "role", "ready"} /\ main[r] # None
    /\ pc[r] = "role" => draft[r] # <<>> /\ main[r] # None

TypeOK ==
    /\ nextId \in Nat \ {0} /\ calls \in 0 .. MaxCalls
    /\ DOMAIN rows \subseteq Ids /\ \A i \in DOMAIN rows : rows[i] = None \/ IsRow(rows[i])
    /\ \A r \in Requests :
        /\ RequestOK(r)
        /\ \A q \in Requests \ {r} : DOMAIN draft[r] \cap DOMAIN draft[q] = {}

\* createTenantWithAdmin and createUser are all or nothing, also when requests
\* take the same name, slug or e-mail at a time or fail half-way: tenants differ
\* in name and slug, users of a tenant in e-mail; each new tenant has an
\* administrator, with his role if that is seeded, and each new user, who is
\* given one system role or the other, has a role if both are.
Provisioned ==
    /\ \A i, j \in In("tenants") :
          i # j => rows[i].key # rows[j].key /\ rows[i].val # rows[j].val
    /\ \A i, j \in In("users") : i # j => rows[i].of # rows[j].of \/ rows[i].key # rows[j].key
    /\ \A t \in Made("tenants") : \E u \in In("users") :
          /\ rows[u].of = t
          /\ Seeded("Tenant Admin") =>
                \E a \in In("user_roles") : rows[a].of = u /\ rows[a].key = "Tenant Admin"
    /\ \A u \in Made("users") :
          /\ rows[u].of \in In("tenants")
          /\ Seeded("Employee") /\ Seeded("Tenant Admin") =>
                \E a \in In("user_roles") : rows[a].of = u
    /\ \A a \in Made("user_roles") : rows[a].of \in In("users")

\* The tables of ACLs and of the permissions of roles have no unique index: what
\* is granted is granted by one row unless two requests about it overlapped.
DoublesOnlyByRace ==
    \A table \in {"acls", "role_permissions"} : \A i, j \in In(table) :
        i # j /\ About(rows[i]) = About(rows[j]) => About(rows[i]) \in raced

\* A request that takes away an ACL, an override or permissions of a role has
\* taken each away when it commits, unless another about the same thing overlapped
\* with it or left a second row.
Removals == {"deleteAcl", "removeOverride", "removePermission"}
RemovalRemoves == [][\A r \in Requests : \A o \in dto[r] :
    Commit(r) /\ o.do \in Removals /\ About(o) \notin raced =>
        \A i \in DOMAIN rows' : rows'[i] # None => About(rows'[i]) # About(o)
    ]_<<vars, raced>>

\* Events leave before the commit.  When the commit succeeds, each of the request's
\* is true of the rows it leaves, also where save() found nothing to write, unless
\* another request about the same thing overlapped or the request itself went on to
\* remove the permission it had added.  A request that ends otherwise has announced
\* nothing, unless its commit failed or it is an updateRolePermissions that got stuck
\* between two permissions: whoever is refused has left no event.
True(e) == IF e.op.do \in Removals THEN rows[e.id] = None ELSE rows[e.id] = AsRow(e.op)
Undoes(o, e) ==
    o.do = "removePermission" /\ e.op.do = "addPermission" /\ About(o) = About(e.op)
EventsTrue == [][\A r \in Requests :
    /\ Commit(r) => \A e \in sent[r] :
          Topic(e.op) \in raced \/ True(e)' \/ \E o \in dto[r] : Undoes(o, e)
    /\ pc'[r] = "idle" /\ sent[r] # {} => pc[r] = "ready" \/ op[r].table = "role_permissions"
    ]_<<vars, raced>>
=============================================================================
