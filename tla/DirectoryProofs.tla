--------------------------- MODULE DirectoryProofs ---------------------------
(***************************************************************************)
(* The guarantees of DirectoryGuarantees for any requests, operations and  *)
(* rows: types, the permissions that are given once and taken away, the    *)
(* audit events, and the provisioning of tenants and users.                *)
(*                                                                         *)
(* Every action is first reduced to what it does to one request (Step).    *)
(* Typed adds to the types how far the loops of a request have come        *)
(* (LoopInv).  Each guarantee then has its inductive invariant over Typed: *)
(* PermissionsInv, on the subject f[id] an id stands for; EventsInv, over  *)
(* PermissionsInv; KeysInv, on the unique indexes; and ProvisionInv, on    *)
(* how far each transaction is.                                            *)
(***************************************************************************)
EXTENDS DirectoryGuarantees, FiniteSetTheorems, TLAPS

FunctionsInv ==
    /\ pc = [q \in Requests |-> pc[q]] /\ op = [q \in Requests |-> op[q]]
    /\ row = [q \in Requests |-> row[q]] /\ id = [q \in Requests |-> id[q]]
    /\ main = [q \in Requests |-> main[q]] /\ draft = [q \in Requests |-> draft[q]]
    /\ dto = [q \in Requests |-> dto[q]] /\ left = [q \in Requests |-> left[q]]
    /\ sent = [q \in Requests |-> sent[q]]

\* No id of a row is forgotten.
Rooted == \E s \in Stored : DOMAIN s \subseteq DOMAIN rows

\* Only updateRolePermissions is about several things, and it adds before it
\* removes; what takes permissions away writes no row.
LoopInv(r) ==
    /\ \A o \in dto[r] \ {op[r]} : o.table = "role_permissions" /\ op[r].table = "role_permissions"
    /\ op[r].do = "removePermission" => \A o \in left[r] : o.do = "removePermission"
    /\ \A o \in dto[r] \ left[r] : o.do = "removePermission" => op[r].do = "removePermission"
    /\ pc[r] \in {"insert", "save", "update", "role"} => op[r].do \notin Removals
    /\ pc[r] \in {"save", "update"} => op[r].do \in {"update", "addOverride"}
    /\ pc[r] = "insert" /\ id[r] # None => op[r].do \in {"update", "addOverride"}

Typed == FunctionsInv /\ TypeOK /\ Rooted /\ \A r \in Requests : LoopInv(r)

\* A row, column by column.
LEMMA ColumnsFact ==
  ASSUME NEW x, IsRow(x)
  PROVE  /\ x \in RowSet /\ x # None
         /\ x.table \in Tables /\ x.of \in Nat /\ x.of \in {0} \cup Ids
         /\ x.key \in Text /\ x.val \in Text
  BY DirectoryAssumption DEF IsRow, RowSet

LEMMA RowFact ==
  ASSUME TypeOK, NEW i \in DOMAIN rows, rows[i] # None
  PROVE  /\ i \in Ids /\ i \in Nat /\ IsRow(rows[i]) /\ rows[i] \in RowSet
         /\ rows[i].table \in Tables /\ rows[i].of \in Nat /\ rows[i].of \in {0} \cup Ids
         /\ rows[i].key \in Text /\ rows[i].val \in Text
  <1>1. i \in Ids /\ IsRow(rows[i]) /\ nextId \in Nat
    BY DEF TypeOK
  <1>2. i \in Nat
    BY <1>1 DEF Ids
  <1> QED
    BY <1>1, <1>2, ColumnsFact

-----------------------------------------------------------------------------
(* What the actions do, request by request *)

\* A step of r leaves the others where they are.
Aside(r) ==
    /\ FunctionsInv'
    /\ \A q \in Requests \ {r} : /\ pc'[q] = pc[q] /\ op'[q] = op[q] /\ row'[q] = row[q]
                                /\ id'[q] = id[q] /\ main'[q] = main[q] /\ draft'[q] = draft[q]
                                /\ dto'[q] = dto[q] /\ left'[q] = left[q] /\ sent'[q] = sent[q]

\* What r was asked for, and what it has begun of it, is as before.
Stays(r) == op'[r] = op[r] /\ dto'[r] = dto[r] /\ left'[r] = left[r]

Planned(r, label, i, x) ==
    /\ Aside(r) /\ Stays(r)
    /\ pc'[r] = label /\ row'[r] = x /\ id'[r] = i
    /\ main'[r] = main[r] /\ draft'[r] = draft[r] /\ sent'[r] = sent[r]
    /\ UNCHANGED <<rows, nextId, calls>>

Closed(r) ==
    /\ Aside(r)
    /\ pc'[r] = "idle" /\ op'[r] = NoOp /\ row'[r] = None /\ id'[r] = None /\ main'[r] = None
    /\ draft'[r] = <<>> /\ dto'[r] = {} /\ left'[r] = {} /\ sent'[r] = {}
    /\ UNCHANGED <<nextId, calls>>

\* Row i of the transaction of r becomes x.
Wrote(r, i, x) ==
    /\ DOMAIN draft'[r] = DOMAIN draft[r] \cup {i}
    /\ draft'[r][i] = x
    /\ \A j \in DOMAIN draft[r] \ {i} : draft'[r][j] = draft[r][j]

Announced(r, m) ==
    /\ Aside(r) /\ Stays(r)
    /\ pc'[r] = "ready" /\ main'[r] = m
    /\ row'[r] = row[r] /\ id'[r] = id[r]
    /\ sent'[r] = sent[r] \cup {Event(r, m)} /\ UNCHANGED <<rows, calls>>

\* After the insert of a tenant or a user, of which the event will name m.
Followed(r, label, x, m) ==
    /\ Aside(r) /\ Stays(r)
    /\ pc'[r] = label /\ row'[r] = x /\ main'[r] = m
    /\ id'[r] = id[r] /\ sent'[r] = sent[r]
    /\ UNCHANGED <<rows, calls>>

\* The next permission of updateRolePermissions.
Advanced(r) ==
    /\ Aside(r) /\ pc[r] = "ready" /\ pc'[r] = "look"
    /\ op'[r] \in left[r] /\ left'[r] = left[r] \ {op'[r]} /\ dto'[r] = dto[r]
    /\ op'[r].do = "removePermission" => \A o \in left[r] : o.do = "removePermission"
    /\ row'[r] = None /\ id'[r] = None /\ main'[r] = None
    /\ draft'[r] = draft[r] /\ sent'[r] = sent[r] /\ UNCHANGED <<rows, nextId, calls>>

LEMMA PlanFact ==
  ASSUME FunctionsInv, NEW r \in Requests, NEW label, NEW i, NEW x, Plan(r, label, i, x)
  PROVE  Planned(r, label, i, x)
  BY DEF FunctionsInv, Plan, Planned, Aside, Stays

LEMMA CloseFact ==
  ASSUME FunctionsInv, NEW r \in Requests, Close(r)
  PROVE  Closed(r)
  BY DEF FunctionsInv, Close, Closed, Aside

LEMMA AdvanceFact ==
  ASSUME FunctionsInv, NEW r \in Requests, NextPermission(r)
  PROVE  Advanced(r)
  <1>1. PICK o \in left[r] :
          /\ o.do = "removePermission" => \A p \in left[r] : p.do = "removePermission"
          /\ op' = [op EXCEPT ![r] = o]
          /\ left' = [left EXCEPT ![r] = left[r] \ {o}]
    BY DEF NextPermission
  <1>2. /\ pc[r] = "ready" /\ pc' = [pc EXCEPT ![r] = "look"]
        /\ row' = [row EXCEPT ![r] = None] /\ id' = [id EXCEPT ![r] = None]
        /\ main' = [main EXCEPT ![r] = None]
        /\ UNCHANGED <<rows, nextId, draft, dto, sent, calls>>
    BY DEF NextPermission
  <1>3. op'[r] = o /\ left'[r] = left[r] \ {o}
    BY <1>1 DEF FunctionsInv
  <1> QED
    BY <1>1, <1>2, <1>3 DEF FunctionsInv, Advanced, Aside

LEMMA WriteFact ==
  ASSUME FunctionsInv, NEW r \in Requests, NEW i, NEW x, Write(r, i, x)
  PROVE  /\ draft' = [q \in Requests |-> draft'[q]]
         /\ Wrote(r, i, x)
         /\ \A q \in Requests \ {r} : draft'[q] = draft[q]
  <1> DEFINE d == Over([j \in {i} |-> x], draft[r])
  <1>1. /\ draft' = [draft EXCEPT ![r] = d]
        /\ draft = [q \in Requests |-> draft[q]]
    BY DEF FunctionsInv, Write
  <1>2. DOMAIN d = DOMAIN draft[r] \cup {i} /\ d[i] = x /\ \A j \in DOMAIN draft[r] \ {i} : d[j] = draft[r][j]
    BY DEF Over
  <1> HIDE DEF d
  <1>3. draft'[r] = d
    BY <1>1
  <1> QED
    BY <1>1, <1>2, <1>3 DEF Wrote

LEMMA AnnounceFact ==
  ASSUME FunctionsInv, NEW r \in Requests, NEW m, Announce(r, m),
         UNCHANGED draft \/ \E i, x : Write(r, i, x)
  PROVE  Announced(r, m)
  <1>1. draft' = [q \in Requests |-> draft'[q]] /\ \A q \in Requests \ {r} : draft'[q] = draft[q]
    BY WriteFact DEF FunctionsInv
  <1> QED
    BY <1>1 DEF FunctionsInv, Announce, Announced, Aside, Stays

\* What a request is about once it has begun.
Begun(r, o) ==
    /\ Aside(r) /\ pc[r] = "idle" /\ pc'[r] = "look" /\ calls < MaxCalls /\ calls' = calls + 1
    /\ row'[r] = row[r] /\ id'[r] = id[r] /\ main'[r] = main[r] /\ draft'[r] = draft[r]
    /\ sent'[r] = sent[r] /\ UNCHANGED <<rows, nextId>>
    /\ dto'[r] = {op'[r]} \cup left'[r] /\ left'[r] \subseteq Operations \ {op'[r]}
    /\ \A p \in left'[r] : /\ p.table = "role_permissions" /\ op'[r].table = "role_permissions"
                           /\ op'[r].do = "removePermission" => p.do = "removePermission"
    /\ \/ o.do \notin ById /\ op'[r] = o
       \/ /\ o.do \in ById
          /\ \E i \in DOMAIN rows :
                /\ rows[i] # None /\ rows[i].table = o.table
                /\ op'[r].do = o.do /\ op'[r].id = i /\ op'[r].table = o.table
                /\ op'[r].of = rows[i].of /\ op'[r].val = o.val
                /\ op'[r].key = IF o.key = "" THEN rows[i].key ELSE o.key

RawRequest == [do : STRING, id : Nat, table : Tables, of : Nat, key : Text, val : Text]

\* Which service is about which table.
LEMMA ServiceFact ==
  ASSUME NEW o \in Request
  PROVE  /\ o.do \in STRING /\ o.id \in Nat /\ o.table \in Tables /\ o.of \in Nat
         /\ o.key \in Text /\ o.val \in Text
         /\ <<o.do, o.table>> \in Services
  BY DEF Request

LEMMA BeginFact ==
  ASSUME Typed, NEW r \in Requests, NEW o \in Operations, Begin(r, o)
  PROVE  Begun(r, o) /\ op'[r] \in Request
  <1>1. /\ pc[r] = "idle" /\ calls < MaxCalls /\ calls' = calls + 1
        /\ pc' = [pc EXCEPT ![r] = "look"]
        /\ UNCHANGED <<rows, nextId, draft, row, id, main, sent>>
        /\ \E more \in SUBSET Besides(o) : /\ left' = [left EXCEPT ![r] = more]
                                         /\ dto' = [dto EXCEPT ![r] = {op'[r]} \cup more]
    BY DEF Begin
  <1>2. /\ left'[r] \subseteq Besides(o) /\ dto'[r] = {op'[r]} \cup left'[r]
        /\ left' = [q \in Requests |-> left'[q]] /\ dto' = [q \in Requests |-> dto'[q]]
        /\ \A q \in Requests \ {r} : left'[q] = left[q] /\ dto'[q] = dto[q]
    BY <1>1 DEF FunctionsInv, Typed
  <1>3. ASSUME o.do \in ById PROVE left'[r] = {}
    <2>1. o.table # "role_permissions"
      <3>1. <<o.do, o.table>> \in Services
        BY OperationsAssumption, ServiceFact
      <3> QED
        BY <1>3, <3>1 DEF Services, ById
    <2> QED
      BY <1>2, <2>1 DEF Besides
  <1>4. ASSUME NEW p, op' = [op EXCEPT ![r] = p] PROVE op'[r] = p /\ Aside(r)
    BY <1>1, <1>4, <1>2 DEF FunctionsInv, Aside, Typed
  <1>5. pc'[r] = "look"
    BY <1>1 DEF FunctionsInv, Typed
  <1>6. CASE o.do \notin ById /\ op' = [op EXCEPT ![r] = o]
    <2>1. op'[r] = o /\ Aside(r) /\ o \in Request
      BY <1>4, <1>6, OperationsAssumption
    <2>2. /\ left'[r] \subseteq Operations \ {o}
          /\ \A p \in left'[r] : /\ p.table = "role_permissions" /\ o.table = "role_permissions"
                                 /\ o.do = "removePermission" => p.do = "removePermission"
      BY <1>2 DEF Besides
    <2> QED
      BY <1>1, <1>5, <1>6, <1>2, <2>1, <2>2 DEF Begun
  <1>7. CASE o.do \in ById
    <2>1. PICK i \in DOMAIN rows :
            /\ rows[i] # None /\ rows[i].table = o.table
            /\ op' = [op EXCEPT ![r] = [o EXCEPT !.id = i, !.of = rows[i].of,
                                        !.key = IF o.key = "" THEN rows[i].key ELSE o.key]]
      BY <1>7 DEF Begin
    <2>2. o \in Request /\ o.key \in Text
      BY OperationsAssumption DEF Request
    <2>3. TypeOK
      BY DEF Typed
    <2>4. i \in Nat /\ rows[i].of \in Nat /\ rows[i].key \in Text
      BY <2>1, <2>3, RowFact
    <2> DEFINE g == rows[i].of
               k == IF o.key = "" THEN rows[i].key ELSE o.key
               p == [o EXCEPT !.id = i, !.of = g, !.key = k]
    <2>5. g \in Nat /\ k \in Text /\ o \in RawRequest
      BY <2>2, <2>4 DEF Request, RawRequest
    <2>6. op' = [op EXCEPT ![r] = p] /\ k = IF o.key = "" THEN rows[i].key ELSE o.key
      BY <2>1
    <2>7. g = rows[i].of
      OBVIOUS
    <2> HIDE DEF g, k
    <2>8. /\ p \in RawRequest
          /\ p.do = o.do /\ p.id = i /\ p.table = o.table
          /\ p.of = g /\ p.key = k /\ p.val = o.val
      BY <2>4, <2>5 DEF RawRequest
    <2> HIDE DEF p
    <2>9. p \in Request
      BY <2>2, <2>8 DEF Request, RawRequest
    <2>10. op'[r] = p /\ Aside(r)
      BY <1>4, <2>6
    <2>11. /\ rows[i] # None /\ rows[i].table = o.table
           /\ op'[r].do = o.do /\ op'[r].id = i /\ op'[r].table = o.table
           /\ op'[r].of = rows[i].of /\ op'[r].val = o.val
           /\ op'[r].key = IF o.key = "" THEN rows[i].key ELSE o.key
      BY <2>1, <2>6, <2>7, <2>8, <2>10
    <2>12. left'[r] = {} /\ dto'[r] = {op'[r]} \cup left'[r] /\ sent'[r] = sent[r]
      BY <1>1, <1>2, <1>3, <1>7
    <2> QED
      BY <1>1, <1>5, <1>7, <2>9, <2>10, <2>11, <2>12 DEF Begun
  <1> QED
    BY <1>6, <1>7 DEF Begin

-----------------------------------------------------------------------------
(* The steps of a request *)

\* A failure leaves no row behind, and a commit all of them.
Ended(r) ==
    /\ pc[r] # "idle" /\ Closed(r)
    /\ \/ rows' = rows
       \/ pc[r] = "ready" /\ left[r] = {} /\ rows' = Over(draft[r], rows)

\* What the findOne of a service makes of its answer, other than a failure.
Looked(r) ==
    /\ pc[r] = "look"
    /\ \/ /\ Planned(r, "insert", None, Subject(r))
          /\ op[r].do \notin ById \cup Removals
          /\ op[r].table \in Granting => Find(r, Subject(r)) = {}
       \/ /\ Planned(r, "ready", None, None)
          /\ op[r].do \in Removals =>
                IF op[r].do \in ById THEN op[r].id \notin Visible(r) ELSE Find(r, Subject(r)) = {}
       \/ /\ op[r].do = "update" /\ op[r].id \in Visible(r)
          /\ op[r].table = "roles" => Sees(r, op[r].id).of # 0
          /\ Planned(r, "save", op[r].id, [Sees(r, op[r].id) EXCEPT !.key = op[r].key, !.val = op[r].val])
       \/ /\ op[r].do = "addOverride"
          /\ \E i \in Find(r, Subject(r)) : Planned(r, "save", i, Subject(r))
       \/ /\ op[r].do \in Removals
          /\ \E i \in IF op[r].do \in ById THEN Visible(r) \cap {op[r].id} ELSE Find(r, Subject(r)) :
                Planned(r, "delete", i, None)

Saved(r) ==
    /\ pc[r] = "save"
    /\ \/ id[r] \notin Visible(r) /\ Planned(r, "insert", id[r], row[r])
       \/ id[r] \in Visible(r) /\ Planned(r, "update", id[r], row[r])
       \/ id[r] \in Visible(r) /\ Sees(r, id[r]) = row[r] /\ Announced(r, id[r]) /\ UNCHANGED <<nextId, draft>>

Updated(r) ==
    /\ pc[r] = "update" /\ ~Locked(r, id[r]) /\ ~Waits(r, row[r])
    /\ Announced(r, id[r]) /\ UNCHANGED nextId
    /\ \/ id[r] \in Visible(r) /\ ~Taken(r, id[r], row[r]) /\ Wrote(r, id[r], row[r])
       \/ id[r] \notin Visible(r) /\ UNCHANGED draft

Deleted(r) ==
    /\ pc[r] = "delete" /\ ~Locked(r, id[r])
    /\ Announced(r, id[r]) /\ UNCHANGED nextId
    /\ \/ id[r] \in Visible(r) /\ Wrote(r, id[r], None)
       \/ id[r] \notin Visible(r) /\ UNCHANGED draft

First(r, i) == IF main[r] = None THEN i ELSE main[r]

Inserted(r, i) ==
    /\ pc[r] = "insert"
    /\ \/ id[r] = None /\ i = nextId /\ nextId' = nextId + 1
       \/ id[r] # None /\ i = id[r] /\ nextId' = nextId
    /\ ~Waits(r, row[r]) /\ ~Locked(r, i) /\ ~Taken(r, i, row[r]) /\ i \notin Visible(r)
    /\ Wrote(r, i, row[r])
    /\ \/ row[r].table = "tenants" /\ Followed(r, "insert", Row("users", i, "admin", ""), i)
       \/ row[r].table = "users" /\ Followed(r, "role", Row("user_roles", i, "", ""), First(r, i))
       \/ row[r].table \notin {"tenants", "users"} /\ Announced(r, First(r, i))

\* The role that goes with a request that names none.
Default(r) == IF op[r].do = "createTenant" THEN "Tenant Admin" ELSE "Employee"

RoleFound(r) ==
    /\ pc[r] = "role"
    /\ \/ \E key \in Text :
            /\ op[r].do = "createTenant" => key = "Tenant Admin"
            /\ Planned(r, "insert", None, [row[r] EXCEPT !.key = key])
       \/ /\ \A i \in Visible(r) : Sees(r, i) # Row("roles", 0, Default(r), "")
          /\ Announced(r, main[r]) /\ UNCHANGED <<nextId, draft>>

Step(r) ==
    \/ \E o \in Operations : Begun(r, o) /\ op'[r] \in Request
    \/ Ended(r) \/ Advanced(r) \/ Looked(r) \/ Saved(r) \/ Updated(r) \/ Deleted(r)
    \/ (\E i : Inserted(r, i)) \/ RoleFound(r)

LEMMA LookedFact ==
  ASSUME Typed, NEW r \in Requests,
         \/ CreateTenant(r) \/ CreateUser(r) \/ Update(r) \/ CreateRole(r)
         \/ CreateAcl(r) \/ AddOverride(r) \/ AddPermission(r)
         \/ DeleteAcl(r) \/ RemoveOverride(r) \/ RemovePermission(r)
  PROVE  Ended(r) \/ Looked(r)
  <1>1. pc[r] = "look"
    BY DEF CreateTenant, CreateUser, Update, CreateRole, CreateAcl, AddOverride, AddPermission,
           DeleteAcl, RemoveOverride, RemovePermission, Looks
  <1>2. TypeOK /\ FunctionsInv
    BY DEF Typed
  <1>3. <<op[r].do, op[r].table>> \in Services
    <2>1. op[r] \in Request
      BY <1>1, <1>2 DEF TypeOK, RequestOK
    <2> QED
      BY <2>1, ServiceFact
  <1>4. ASSUME Fail(r) PROVE Ended(r)
    <2>1. Closed(r) /\ rows' = rows
      BY <1>2, <1>4, CloseFact DEF Fail
    <2> QED
      BY <1>1, <2>1 DEF Ended
  <1>5. \A label, i, x : Plan(r, label, i, x) => Planned(r, label, i, x)
    BY <1>2, PlanFact
  <1>6. CASE CreateTenant(r) \/ CreateUser(r) \/ CreateRole(r)
    <2>1. op[r].table \notin Granting /\ op[r].do \notin ById \cup Removals
      BY <1>3, <1>6 DEF CreateTenant, CreateUser, CreateRole, Looks, Services, Granting, ById, Removals
    <2>2. Fail(r) \/ New(r)
      BY <1>6 DEF CreateTenant, CreateUser, CreateRole
    <2> QED
      BY <1>1, <1>4, <1>5, <2>1, <2>2 DEF New, Looked
  <1>7. CASE CreateAcl(r) \/ AddPermission(r)
    <2>1. op[r].do \notin ById \cup Removals
      BY <1>7 DEF CreateAcl, AddPermission, Looks, ById, Removals
    <2>2. IF Find(r, Subject(r)) # {} THEN Return(r) ELSE New(r)
      BY <1>7 DEF CreateAcl, AddPermission
    <2> QED
      BY <1>1, <1>5, <2>1, <2>2 DEF New, Return, Looked
  <1>8. CASE Update(r)
    <2>1. op[r].do = "update"
      BY <1>8 DEF Update, Looks
    <2> QED
      BY <1>1, <1>4, <1>5, <1>8, <2>1 DEF Update, Looked
  <1>9. CASE AddOverride(r)
    <2>1. op[r].do = "addOverride" /\ op[r].do \notin ById \cup Removals
      BY <1>9 DEF AddOverride, Looks, ById, Removals
    <2> QED
      BY <1>1, <1>5, <1>9, <2>1 DEF AddOverride, New, Return, Looked
  <1>10. CASE DeleteAcl(r) \/ RemoveOverride(r)
    <2>1. op[r].do \in ById /\ op[r].do \in Removals
      BY <1>10 DEF DeleteAcl, RemoveOverride, Looks, ById, Removals
    <2>2. CASE DeleteAcl(r)
      BY <1>1, <1>4, <1>5, <2>1, <2>2 DEF DeleteAcl, Looked
    <2>3. CASE RemoveOverride(r)
      BY <1>1, <1>5, <2>1, <2>3 DEF RemoveOverride, Return, Looked
    <2> QED
      BY <1>10, <2>2, <2>3
  <1>11. CASE RemovePermission(r)
    <2>1. op[r].do \notin ById /\ op[r].do \in Removals
      BY <1>11 DEF RemovePermission, Looks, ById, Removals
    <2>2. \/ Find(r, Subject(r)) = {} /\ Return(r)
          \/ \E i \in Find(r, Subject(r)) : Plan(r, "delete", i, None)
      BY <1>11 DEF RemovePermission
    <2> QED
      BY <1>1, <1>5, <2>1, <2>2 DEF Return, Looked
  <1> QED
    BY <1>6, <1>7, <1>8, <1>9, <1>10, <1>11

LEMMA WritesFact ==
  ASSUME Typed, NEW r \in Requests, Save(r) \/ UpdateRow(r) \/ DeleteRow(r)
  PROVE  Ended(r) \/ Saved(r) \/ Updated(r) \/ Deleted(r)
  <1>1. FunctionsInv
    BY DEF Typed
  <1>2. ASSUME Fail(r), pc[r] # "idle" PROVE Ended(r)
    <2>1. Closed(r) /\ rows' = rows
      BY <1>1, <1>2, CloseFact DEF Fail
    <2> QED
      BY <1>2, <2>1 DEF Ended
  <1>3. ASSUME NEW m, Announce(r, m), UNCHANGED draft PROVE Announced(r, m)
    BY <1>1, <1>3, AnnounceFact
  <1>4. ASSUME NEW m, NEW i, NEW x, Announce(r, m), Write(r, i, x)
        PROVE  Announced(r, m) /\ Wrote(r, i, x)
    BY <1>1, <1>4, AnnounceFact, WriteFact
  <1>5. CASE Save(r)
    <2>1. \A label, i, x : Plan(r, label, i, x) => Planned(r, label, i, x)
      BY <1>1, PlanFact
    <2> QED
      BY <1>3, <1>5, <2>1 DEF Save, Saved
  <1>6. CASE UpdateRow(r)
    BY <1>2, <1>3, <1>4, <1>6 DEF UpdateRow, Updated
  <1>7. CASE DeleteRow(r)
    BY <1>3, <1>4, <1>7 DEF DeleteRow, Deleted
  <1> QED
    BY <1>5, <1>6, <1>7

LEMMA FollowFact ==
  ASSUME FunctionsInv, NEW r \in Requests, pc[r] = "insert", NEW i, NEW x, Write(r, i, x), Follow(r, i)
  PROVE  \/ row[r].table = "tenants" /\ Followed(r, "insert", Row("users", i, "admin", ""), i)
         \/ row[r].table = "users" /\ Followed(r, "role", Row("user_roles", i, "", ""), First(r, i))
         \/ row[r].table \notin {"tenants", "users"} /\ Announced(r, First(r, i))
  <1>1. draft' = [q \in Requests |-> draft'[q]] /\ \A q \in Requests \ {r} : draft'[q] = draft[q]
    BY WriteFact
  <1>2. CASE row[r].table = "tenants"
    <2>1. /\ row' = [row EXCEPT ![r] = Row("users", i, "admin", "")]
          /\ main' = [main EXCEPT ![r] = i]
          /\ UNCHANGED <<rows, pc, op, dto, left, id, sent, calls>>
      BY <1>2 DEF Follow
    <2> QED
      BY <1>1, <1>2, <2>1 DEF FunctionsInv, Followed, Aside, Stays
  <1>3. CASE row[r].table = "users"
    <2>1. /\ row' = [row EXCEPT ![r] = Row("user_roles", i, "", "")]
          /\ pc' = [pc EXCEPT ![r] = "role"]
          /\ main' = [main EXCEPT ![r] = First(r, i)]
          /\ UNCHANGED <<rows, op, dto, left, id, sent, calls>>
      BY <1>3 DEF Follow, First
    <2> QED
      BY <1>1, <1>3, <2>1 DEF FunctionsInv, Followed, Aside, Stays
  <1>4. CASE row[r].table \notin {"tenants", "users"}
    <2>1. Announce(r, First(r, i))
      BY <1>4 DEF Follow, First
    <2> QED
      BY <1>4, <2>1, AnnounceFact
  <1> QED
    BY <1>2, <1>3, <1>4

LEMMA InsertFact ==
  ASSUME Typed, NEW r \in Requests, Insert(r)
  PROVE  Ended(r) \/ \E i : Inserted(r, i)
  <1> DEFINE i == IF id[r] = None THEN nextId ELSE id[r]
  <1>1. FunctionsInv /\ pc[r] = "insert" /\ ~Waits(r, row[r]) /\ ~Locked(r, i)
    BY DEF Typed, Insert
  <1>2. CASE Fail(r)
    <2>1. Closed(r) /\ rows' = rows
      BY <1>1, <1>2, CloseFact DEF Fail
    <2> QED
      BY <1>1, <2>1 DEF Ended
  <1>3. CASE ~Fail(r)
    <2>1. /\ ~Taken(r, i, row[r]) /\ i \notin Visible(r) /\ Write(r, i, row[r])
          /\ nextId' = (IF id[r] = None THEN nextId + 1 ELSE nextId)
          /\ Follow(r, i)
      BY <1>3 DEF Insert
    <2>2. \/ id[r] = None /\ i = nextId /\ nextId' = nextId + 1
          \/ id[r] # None /\ i = id[r] /\ nextId' = nextId
      BY <2>1
    <2> HIDE DEF i
    <2>3. Wrote(r, i, row[r])
      BY <1>1, <2>1, WriteFact
    <2> QED
      BY <1>1, <2>1, <2>2, <2>3, FollowFact DEF Inserted
  <1> QED
    BY <1>2, <1>3

LEMMA FindRoleFact ==
  ASSUME Typed, NEW r \in Requests, FindRole(r)
  PROVE  Ended(r) \/ RoleFound(r)
  <1> DEFINE named  == op[r].do = "createUser" /\ op[r].val # ""
             wanted == IF op[r].do = "createTenant" THEN "Tenant Admin"
                       ELSE IF named THEN op[r].val ELSE "Employee"
             found  == \E i \in Visible(r) : LET x == Sees(r, i) IN
                         x.table = "roles" /\ x.key = wanted /\ x.of \in {0, IF named THEN op[r].of ELSE 0}
  <1>1. /\ FunctionsInv /\ pc[r] = "role"
        /\ \/ Plan(r, "insert", None, [row[r] EXCEPT !.key = wanted])
           \/ Fail(r)
           \/ ~found /\ ~named /\ Announce(r, main[r]) /\ UNCHANGED <<nextId, draft>>
    BY DEF FindRole, Typed
  <1>2. CASE Fail(r)
    <2>1. Closed(r) /\ rows' = rows
      BY <1>1, <1>2, CloseFact DEF Fail
    <2> QED
      BY <1>1, <2>1 DEF Ended
  <1>3. CASE Plan(r, "insert", None, [row[r] EXCEPT !.key = wanted])
    <2>1. wanted \in Text /\ (op[r].do = "createTenant" => wanted = "Tenant Admin")
      <3>1. op[r] \in Request
        BY <1>1 DEF Typed, TypeOK, RequestOK
      <3>2. op[r].val \in Text
        BY <3>1, ServiceFact
      <3>3. wanted \in {"Tenant Admin", "Employee", op[r].val}
        OBVIOUS
      <3>4. op[r].do = "createTenant" => wanted = "Tenant Admin"
        OBVIOUS
      <3> HIDE DEF wanted
      <3>5. "Tenant Admin" \in Text /\ "Employee" \in Text
        BY DirectoryAssumption
      <3> QED
        BY <3>2, <3>3, <3>4, <3>5
    <2> HIDE DEF wanted
    <2>2. Planned(r, "insert", None, [row[r] EXCEPT !.key = wanted])
      BY <1>1, <1>3, PlanFact
    <2> QED
      BY <1>1, <2>1, <2>2 DEF RoleFound
  <1>4. CASE ~found /\ ~named /\ Announce(r, main[r]) /\ UNCHANGED <<nextId, draft>>
    <2>1. wanted = Default(r)
      BY <1>4 DEF Default
    <2>2. \A i \in Visible(r) : Sees(r, i) # Row("roles", 0, Default(r), "")
      <3> SUFFICES ASSUME NEW i \in Visible(r), Sees(r, i) = Row("roles", 0, Default(r), "")
                   PROVE  found
        BY <1>4
      <3> HIDE DEF wanted, named, found
      <3>1. PICK x : x = Row("roles", 0, Default(r), "")
        OBVIOUS
      <3>2. x.table = "roles" /\ x.key = Default(r) /\ x.of = 0
        BY <3>1 DEF Row
      <3> QED
        BY <2>1, <3>1, <3>2 DEF found
    <2>3. Announced(r, main[r])
      BY <1>1, <1>4, AnnounceFact
    <2> QED
      BY <1>1, <1>4, <2>2, <2>3 DEF RoleFound
  <1> QED
    BY <1>1, <1>2, <1>3, <1>4

\* Every step is one of a request, as described above.
LEMMA StepFact ==
  ASSUME Typed, Next
  PROVE  \E r \in Requests : Step(r)
  <1>1. PICK r \in Requests :
            \/ \E o \in Operations : Begin(r, o)
            \/ CreateTenant(r) \/ CreateUser(r) \/ Update(r) \/ CreateRole(r)
            \/ CreateAcl(r) \/ AddOverride(r) \/ AddPermission(r)
            \/ DeleteAcl(r) \/ RemoveOverride(r) \/ RemovePermission(r) \/ NextPermission(r)
            \/ Save(r) \/ UpdateRow(r) \/ DeleteRow(r) \/ Insert(r) \/ FindRole(r)
            \/ Commit(r) \/ Rollback(r)
    BY DEF Next
  <1>2. CASE Commit(r) \/ Rollback(r)
    <2>1. Closed(r)
      BY <1>2, CloseFact DEF Commit, Rollback, Fail, Typed
    <2> QED
      BY <1>2, <2>1 DEF Commit, Rollback, Fail, Ended, Step
  <1>3. CASE \E o \in Operations : Begin(r, o)
    BY <1>3, BeginFact DEF Step
  <1>4. CASE NextPermission(r)
    BY <1>4, AdvanceFact DEF Step, Typed
  <1> QED
    BY <1>1, <1>2, <1>3, <1>4, LookedFact, WritesFact, InsertFact, FindRoleFact DEF Step

-----------------------------------------------------------------------------
(* Types *)

LEMMA MadeRowFact ==
  ASSUME NEW table \in Tables, NEW n \in Nat, NEW key \in Text, NEW val \in Text,
         NEW x, x = Row(table, n, key, val)
  PROVE  x \in RowSet /\ x.table = table /\ x.of = n /\ x.key = key /\ x.val = val
  BY DEF Row, RowSet

LEMMA KeyedRowFact ==
  ASSUME NEW y \in RowSet, NEW key \in Text, NEW x, x = [y EXCEPT !.key = key]
  PROVE  x \in RowSet /\ x.table = y.table /\ x.of = y.of /\ x.key = key /\ x.val = y.val
  BY DEF RowSet

\* What a request is about, in any of its places.
LEMMA OpFact ==
  ASSUME Typed, NEW r \in Requests, pc[r] # "idle"
  PROVE  /\ op[r] \in Request /\ op[r].id \in {0} \cup Ids /\ op[r].of \in {0} \cup Ids
         /\ op[r].table \in Tables /\ op[r].of \in Nat /\ op[r].key \in Text /\ op[r].val \in Text
         /\ <<op[r].do, op[r].table>> \in Services
         /\ op[r] \in dto[r] \ left[r]
  <1>1. /\ op[r] \in dto[r] \ left[r]
        /\ op[r] \in Request /\ op[r].id \in {0} \cup Ids /\ op[r].of \in {0} \cup Ids
    BY DEF Typed, TypeOK, RequestOK
  <1> QED
    BY <1>1, ServiceFact

LEMMA SubjectFact ==
  ASSUME Typed, NEW r \in Requests, pc[r] # "idle", NEW x, x = Subject(r)
  PROVE  /\ IsRow(x) /\ x.table = op[r].table /\ x.of = op[r].of
         /\ x.key = op[r].key /\ x.val = op[r].val
  <1>1. /\ x \in RowSet /\ x.table = op[r].table /\ x.of = op[r].of
        /\ x.key = op[r].key /\ x.val = op[r].val
    <2>1. op[r].table \in Tables /\ op[r].of \in Nat /\ op[r].key \in Text /\ op[r].val \in Text
      BY OpFact
    <2>2. x = Row(op[r].table, op[r].of, op[r].key, op[r].val)
      BY DEF Subject, AsRow
    <2> QED
      BY <2>1, <2>2, MadeRowFact
  <1> QED
    BY <1>1, OpFact DEF IsRow

LEMMA SeesFact ==
  ASSUME Typed, NEW r \in Requests, NEW i \in Visible(r)
  PROVE  i \in Ids /\ i \in Nat /\ IsRow(Sees(r, i)) /\ Sees(r, i) \in RowSet
  <1>1. i \in Ids /\ IsRow(Sees(r, i)) /\ nextId \in Nat
    BY DEF Typed, TypeOK, RequestOK, Visible, Sees
  <1> QED
    BY <1>1 DEF Ids, IsRow

LEMMA GrowFact ==
  ASSUME NEW m \in Nat, NEW n \in Nat, n = m \/ n = m + 1
  PROVE  1 .. m - 1 \subseteq 1 .. n - 1
  OBVIOUS

LEMMA CountFact ==
  ASSUME NEW m, m \in 0 .. MaxCalls, m < MaxCalls
  PROVE  m + 1 \in 0 .. MaxCalls
  <1>1. MaxCalls \in Nat
    BY DirectoryAssumption
  <1> QED
    BY <1>1

\* No row has the id None.
LEMMA NoneFact ==
  ASSUME NEW n \in Nat, NEW i \in 1 .. n - 1
  PROVE  i # None /\ i \in Nat
  <1>1. None \notin Nat
    BY DirectoryAssumption
  <1> QED
    BY <1>1

RowsOK == DOMAIN rows \subseteq Ids /\ \A i \in DOMAIN rows : rows[i] = None \/ IsRow(rows[i])

\* A step of r disturbs the types only where it changes something.
LEMMA TypedKeeps ==
  ASSUME Typed, NEW r \in Requests, Aside(r),
         nextId' = nextId \/ nextId' = nextId + 1, calls' \in 0 .. MaxCalls,
         DOMAIN rows \subseteq DOMAIN rows', RowsOK', RequestOK(r)',
         \A q \in Requests \ {r} : DOMAIN draft'[r] \cap DOMAIN draft[q] = {}, LoopInv(r)'
  PROVE  Typed'
  <1>1. nextId \in Nat \ {0} /\ nextId' \in Nat \ {0}
    BY DEF Typed, TypeOK
  <1>2. Ids \subseteq Ids'
    BY <1>1, GrowFact DEF Ids
  <1>3. \A x : IsRow(x) => x \in RowSet /\ x.of \in {0} \cup Ids'
    BY <1>2 DEF IsRow
  <1>4. ASSUME NEW q \in Requests \ {r} PROVE RequestOK(q)'
    BY <1>2, <1>3 DEF Typed, TypeOK, RequestOK, Aside, IsRow
  <1>5. ASSUME NEW p \in Requests, NEW q \in Requests \ {p}
        PROVE  DOMAIN draft'[p] \cap DOMAIN draft'[q] = {}
    <2>1. DOMAIN draft[p] \cap DOMAIN draft[q] = {}
      BY DEF Typed, TypeOK
    <2> QED
      BY <2>1 DEF Aside
  <1>6. TypeOK'
    BY <1>1, <1>4, <1>5 DEF TypeOK, RowsOK
  <1>7. Rooted' /\ \A q \in Requests : LoopInv(q)'
    BY DEF Typed, Rooted, LoopInv, Aside
  <1> QED
    BY <1>6, <1>7 DEF Typed, Aside

\* The same where neither rows nor ids have changed.
LEMMA TypedStays ==
  ASSUME Typed, NEW r \in Requests, Aside(r),
         UNCHANGED <<rows, nextId>>, calls' \in 0 .. MaxCalls, draft'[r] = draft[r],
         RequestOK(r)', LoopInv(r)'
  PROVE  Typed'
  <1>1. RowsOK'
    BY DEF Typed, TypeOK, RowsOK, Ids, IsRow
  <1>2. \A q \in Requests \ {r} : DOMAIN draft'[r] \cap DOMAIN draft[q] = {}
    BY DEF Typed, TypeOK
  <1> QED
    BY <1>1, <1>2, TypedKeeps

LEMMA TypedBegun ==
  ASSUME Typed, NEW r \in Requests, NEW o \in Operations, Begun(r, o), op'[r] \in Request
  PROVE  Typed'
  <1>1. /\ UNCHANGED <<rows, nextId>> /\ Aside(r) /\ draft'[r] = draft[r] /\ sent'[r] = sent[r]
        /\ pc'[r] = "look" /\ pc[r] = "idle" /\ calls < MaxCalls /\ calls' = calls + 1
        /\ main'[r] = main[r]
        /\ dto'[r] = {op'[r]} \cup left'[r] /\ left'[r] \subseteq Operations \ {op'[r]}
    BY DEF Begun
  <1>2. calls' \in 0 .. MaxCalls
    BY <1>1, CountFact DEF Typed, TypeOK
  <1>3. Ids' = Ids
    BY <1>1 DEF Ids
  <1>4. /\ DOMAIN draft[r] \subseteq Ids /\ draft[r] = <<>> /\ (main[r] = None \/ main[r] \in Ids)
        /\ sent[r] = {}
    BY <1>1 DEF Typed, TypeOK, RequestOK
  <1>5. \A p \in Operations : p \in Request /\ p.id \in {0} \cup Ids /\ p.of \in {0} \cup Ids
    BY OperationsAssumption DEF Typed, TypeOK, Rooted
  <1>6. op'[r].id \in {0} \cup Ids /\ op'[r].of \in {0} \cup Ids
    <2>1. CASE op'[r] = o
      BY <1>5, <2>1
    <2>2. CASE \E i \in DOMAIN rows : rows[i] # None /\ op'[r].id = i /\ op'[r].of = rows[i].of
      BY <2>2, RowFact DEF Typed
    <2> QED
      BY <2>1, <2>2 DEF Begun
  <1>7. RequestOK(r)'
    <2>1. /\ op'[r] \in dto'[r] \ left'[r] /\ left'[r] \subseteq dto'[r] /\ sent'[r] = {}
          /\ \A p \in dto'[r] : p \in Request /\ p.id \in {0} \cup Ids /\ p.of \in {0} \cup Ids
      BY <1>1, <1>4, <1>5, <1>6
    <2>2. draft'[r] = <<>> /\ DOMAIN draft'[r] = {}
      <3>1. DOMAIN <<>> = {}
        OBVIOUS
      <3> QED
        BY <1>1, <1>4, <3>1
    <2> QED
      BY <1>1, <1>3, <1>4, <2>1, <2>2 DEF RequestOK
  <1>8. LoopInv(r)'
    <2>1. \A p \in left'[r] : /\ p.table = "role_permissions" /\ op'[r].table = "role_permissions"
                              /\ op'[r].do = "removePermission" => p.do = "removePermission"
      BY DEF Begun
    <2>2. dto'[r] \ {op'[r]} = left'[r] /\ dto'[r] \ left'[r] = {op'[r]}
      BY <1>1
    <2> QED
      BY <1>1, <2>1, <2>2 DEF LoopInv
  <1> QED
    BY <1>1, <1>2, <1>7, <1>8, TypedStays

LEMMA TypedEnded ==
  ASSUME Typed, NEW r \in Requests, Ended(r)
  PROVE  Typed'
  <1>1. /\ Aside(r) /\ UNCHANGED <<nextId, calls>> /\ Ids' = Ids
        /\ pc'[r] = "idle" /\ op'[r] = NoOp /\ draft'[r] = <<>> /\ DOMAIN draft'[r] = {}
        /\ main'[r] = None /\ dto'[r] = {} /\ left'[r] = {} /\ sent'[r] = {}
    <2>1. DOMAIN <<>> = {}
      OBVIOUS
    <2> QED
      BY <2>1 DEF Ended, Closed, Ids
  <1>2. DOMAIN rows \subseteq DOMAIN rows' /\ RowsOK'
    <2>1. CASE rows' = rows
      BY <1>1, <2>1 DEF Typed, TypeOK, RowsOK, IsRow
    <2>2. CASE rows' = Over(draft[r], rows)
      <3>1. /\ DOMAIN rows \subseteq Ids /\ \A i \in DOMAIN rows : rows[i] = None \/ IsRow(rows[i])
            /\ DOMAIN draft[r] \subseteq Ids
            /\ \A i \in DOMAIN draft[r] : draft[r][i] = None \/ IsRow(draft[r][i])
        BY DEF Typed, TypeOK, RequestOK
      <3>2. /\ DOMAIN rows' = DOMAIN rows \cup DOMAIN draft[r]
            /\ \A i \in DOMAIN rows' : rows'[i] \in {rows[i], draft[r][i]}
            /\ \A i \in DOMAIN rows' : rows'[i] = IF i \in DOMAIN draft[r] THEN draft[r][i] ELSE rows[i]
        BY <2>2 DEF Over
      <3> QED
        BY <1>1, <3>1, <3>2 DEF RowsOK, IsRow
    <2> QED
      BY <2>1, <2>2 DEF Ended
  <1>3. RequestOK(r)' /\ LoopInv(r)'
    BY <1>1 DEF RequestOK, LoopInv
  <1>4. calls' \in 0 .. MaxCalls
    BY <1>1 DEF Typed, TypeOK
  <1> QED
    BY <1>1, <1>2, <1>3, <1>4, TypedKeeps

\* The next permission is another of the same request.
LEMMA TypedAdvanced ==
  ASSUME Typed, NEW r \in Requests, Advanced(r)
  PROVE  Typed'
  <1>1. /\ Aside(r) /\ UNCHANGED <<rows, nextId, calls>> /\ Ids' = Ids
        /\ pc[r] = "ready" /\ pc'[r] = "look" /\ main'[r] = None
        /\ draft'[r] = draft[r] /\ dto'[r] = dto[r] /\ sent'[r] = sent[r]
        /\ op'[r] \in left[r] /\ left'[r] = left[r] \ {op'[r]}
        /\ op'[r].do = "removePermission" => \A o \in left[r] : o.do = "removePermission"
    BY DEF Advanced, Ids
  <1>2. RequestOK(r) /\ LoopInv(r) /\ op[r] \in dto[r] \ left[r] /\ left[r] \subseteq dto[r]
    BY <1>1 DEF Typed, TypeOK, RequestOK
  <1>3. /\ op'[r] \in dto[r] /\ op'[r] # op[r] /\ op'[r].table = "role_permissions"
        /\ op[r].table = "role_permissions"
    BY <1>1, <1>2 DEF LoopInv
  <1>4. RequestOK(r)'
    BY <1>1, <1>2, <1>3 DEF RequestOK, IsRow
  <1>5. LoopInv(r)'
    <2>1. \A o \in dto[r] : o.table = "role_permissions"
      BY <1>2, <1>3 DEF LoopInv
    <2>2. ASSUME NEW o \in dto[r] \ left'[r], o.do = "removePermission"
          PROVE  op'[r].do = "removePermission"
      <3>1. CASE o = op'[r]
        BY <2>2, <3>1
      <3>2. CASE o \in dto[r] \ left[r]
        BY <1>1, <1>2, <2>2, <3>2 DEF LoopInv
      <3> QED
        BY <1>1, <3>1, <3>2
    <2> QED
      BY <1>1, <1>3, <2>1, <2>2 DEF LoopInv
  <1>6. calls' \in 0 .. MaxCalls
    BY <1>1 DEF Typed, TypeOK
  <1> QED
    BY <1>1, <1>4, <1>5, <1>6, TypedStays

\* The next statement is about a row, of an id there is.
LEMMA TypedPlanned ==
  ASSUME Typed, NEW r \in Requests, NEW label, NEW i, NEW x, Planned(r, label, i, x), pc[r] # "idle",
         \/ label = "ready"
         \/ /\ label = "insert" /\ IsRow(x) /\ (i = None \/ i \in Ids) /\ op[r].do \notin Removals
            /\ i # None => op[r].do \in {"update", "addOverride"}
         \/ /\ label \in {"save", "update"} /\ IsRow(x) /\ i \in Ids /\ pc[r] \in {"look", "save"}
            /\ op[r].do \in {"update", "addOverride"}
         \/ label = "delete" /\ i \in Ids /\ pc[r] = "look"
  PROVE  Typed'
  <1>1. /\ Aside(r) /\ UNCHANGED <<rows, nextId, calls>> /\ Ids' = Ids
        /\ pc'[r] = label /\ row'[r] = x /\ id'[r] = i /\ main'[r] = main[r]
        /\ draft'[r] = draft[r] /\ sent'[r] = sent[r]
        /\ op'[r] = op[r] /\ dto'[r] = dto[r] /\ left'[r] = left[r]
    BY DEF Planned, Stays, Ids
  <1>2. RequestOK(r) /\ LoopInv(r)
    BY DEF Typed, TypeOK
  <1>3. RequestOK(r)'
    BY <1>1, <1>2 DEF RequestOK, IsRow
  <1>4. LoopInv(r)'
    <2>1. op[r].do \in {"update", "addOverride"} => op[r].do \notin Removals
      BY DEF Removals
    <2> QED
      BY <1>1, <1>2, <2>1 DEF LoopInv
  <1>5. calls' \in 0 .. MaxCalls
    BY <1>1 DEF Typed, TypeOK
  <1> QED
    BY <1>1, <1>3, <1>4, <1>5, TypedStays

LEMMA TypedLooked ==
  ASSUME Typed, NEW r \in Requests, Looked(r)
  PROVE  Typed'
  <1>1. pc[r] = "look" /\ pc[r] # "idle"
    BY DEF Looked
  <1>2. \A i \in Visible(r) : i \in Ids /\ IsRow(Sees(r, i)) /\ Sees(r, i) \in RowSet
    BY SeesFact
  <1>3. Find(r, Subject(r)) \subseteq Visible(r)
    BY DEF Find
  <1>4. IsRow(Subject(r))
    BY <1>1, SubjectFact
  <1>5. CASE \/ Planned(r, "insert", None, Subject(r)) /\ op[r].do \notin Removals
             \/ Planned(r, "ready", None, None)
    BY <1>1, <1>4, <1>5, TypedPlanned
  <1>6. CASE \E i \in Visible(r) : \/ op[r].do = "addOverride" /\ Planned(r, "save", i, Subject(r))
                                  \/ Planned(r, "delete", i, None)
    BY <1>1, <1>2, <1>4, <1>6, TypedPlanned
  <1>7. ASSUME NEW x, op[r].id \in Visible(r), op[r].do = "update",
               x = [Sees(r, op[r].id) EXCEPT !.key = op[r].key, !.val = op[r].val],
               Planned(r, "save", op[r].id, x)
        PROVE  Typed'
    <2>1. IsRow(x)
      <3> DEFINE y == Sees(r, op[r].id)
      <3>1. op[r].key \in Text /\ op[r].val \in Text /\ y \in RowSet /\ IsRow(y)
        BY <1>1, <1>2, <1>7, OpFact
      <3>2. x = [y EXCEPT !.key = op[r].key, !.val = op[r].val]
        BY <1>7
      <3> HIDE DEF y
      <3>3. x \in RowSet /\ x.of = y.of
        BY <3>1, <3>2 DEF RowSet
      <3> QED
        BY <3>1, <3>3 DEF IsRow
    <2> QED
      BY <1>1, <1>2, <1>7, <2>1, TypedPlanned
  <1> QED
    BY <1>3, <1>5, <1>6, <1>7 DEF Looked

LEMMA UnlockedFact ==
  ASSUME Typed, NEW r \in Requests, NEW i, ~Locked(r, i)
  PROVE  \A q \in Requests \ {r} : i \notin DOMAIN draft[q]
  <1> SUFFICES ASSUME NEW q \in Requests \ {r} PROVE i \notin DOMAIN draft[q]
    OBVIOUS
  <1>1. CASE pc[q] # "idle"
    BY <1>1 DEF Locked, Others
  <1>2. CASE pc[q] = "idle"
    <2>1. DOMAIN <<>> = {}
      OBVIOUS
    <2>2. draft[q] = <<>>
      BY <1>2 DEF Typed, TypeOK, RequestOK
    <2> QED
      BY <2>1, <2>2
  <1> QED
    BY <1>1, <1>2

\* What a transaction has written is still its own, after one more write.
LEMMA TypedDraft ==
  ASSUME Typed, NEW r \in Requests, Aside(r), nextId' = nextId \/ nextId' = nextId + 1,
         \/ UNCHANGED draft
         \/ \E i \in Ids' : \E x : Wrote(r, i, x) /\ ~Locked(r, i) /\ (x = None \/ IsRow(x))
  PROVE  /\ Ids \subseteq Ids'
         /\ DOMAIN draft'[r] \subseteq Ids'
         /\ \A i \in DOMAIN draft'[r] : draft'[r][i] = None \/ IsRow(draft'[r][i])
         /\ \A q \in Requests \ {r} : DOMAIN draft'[r] \cap DOMAIN draft[q] = {}
  <1>1. Ids \subseteq Ids'
    <2>1. nextId \in Nat \ {0} /\ nextId' \in Nat \ {0}
      BY DEF Typed, TypeOK
    <2> QED
      BY <2>1, GrowFact DEF Ids
  <1>2. /\ DOMAIN draft[r] \subseteq Ids
        /\ \A i \in DOMAIN draft[r] : draft[r][i] = None \/ IsRow(draft[r][i])
        /\ \A q \in Requests \ {r} : DOMAIN draft[r] \cap DOMAIN draft[q] = {}
    BY DEF Typed, TypeOK, RequestOK
  <1>3. CASE UNCHANGED draft
    BY <1>1, <1>2, <1>3
  <1>4. CASE \E i \in Ids' : \E x : Wrote(r, i, x) /\ ~Locked(r, i) /\ (x = None \/ IsRow(x))
    <2>1. PICK i \in Ids' : \E x : Wrote(r, i, x) /\ ~Locked(r, i) /\ (x = None \/ IsRow(x))
      BY <1>4
    <2>2. \A q \in Requests \ {r} : i \notin DOMAIN draft[q]
      BY <2>1, UnlockedFact
    <2> QED
      BY <1>1, <1>2, <2>1, <2>2 DEF Wrote
  <1> QED
    BY <1>3, <1>4

LEMMA TypedRows ==
  ASSUME Typed, UNCHANGED rows, Ids \subseteq Ids'
  PROVE  RowsOK' /\ DOMAIN rows \subseteq DOMAIN rows'
  BY DEF Typed, TypeOK, RowsOK, IsRow

LEMMA TypedAnnounced ==
  ASSUME Typed, NEW r \in Requests, NEW m, m \in Ids', Announced(r, m), pc[r] # "idle",
         nextId' = nextId \/ nextId' = nextId + 1,
         \/ UNCHANGED draft
         \/ \E i \in Ids' : \E x : Wrote(r, i, x) /\ ~Locked(r, i) /\ (x = None \/ IsRow(x))
  PROVE  Typed'
  <1>1. /\ Aside(r) /\ UNCHANGED <<rows, calls>>
        /\ pc'[r] = "ready" /\ main'[r] = m
        /\ op'[r] = op[r] /\ dto'[r] = dto[r] /\ left'[r] = left[r]
        /\ sent'[r] = sent[r] \cup {Event(r, m)}
    BY DEF Announced, Stays
  <1>2. /\ Ids \subseteq Ids' /\ DOMAIN draft'[r] \subseteq Ids'
        /\ \A i \in DOMAIN draft'[r] : draft'[r][i] = None \/ IsRow(draft'[r][i])
        /\ \A q \in Requests \ {r} : DOMAIN draft'[r] \cap DOMAIN draft[q] = {}
    BY <1>1, TypedDraft
  <1>3. RequestOK(r)'
    <2>1. RequestOK(r) /\ op[r] \in dto[r] \ left[r]
      BY OpFact DEF Typed, TypeOK
    <2>2. m # None
      <3>1. nextId' \in Nat
        BY DEF Typed, TypeOK
      <3> QED
        BY <3>1, NoneFact DEF Ids
    <2>3. Event(r, m).id = m /\ Event(r, m).op = op[r]
      BY DEF Event
    <2>4. \A e \in sent'[r] : e.op \in dto'[r] \ left'[r] /\ e.id \in Ids'
      BY <1>1, <1>2, <2>1, <2>3 DEF RequestOK
    <2> QED
      BY <1>1, <1>2, <2>1, <2>2, <2>4 DEF RequestOK, IsRow
  <1>4. RowsOK' /\ DOMAIN rows \subseteq DOMAIN rows'
    BY <1>1, <1>2, TypedRows
  <1>5. LoopInv(r)'
    BY <1>1 DEF Typed, LoopInv
  <1>6. calls' \in 0 .. MaxCalls
    BY <1>1 DEF Typed, TypeOK
  <1> QED
    BY <1>1, <1>2, <1>3, <1>4, <1>5, <1>6, TypedKeeps

LEMMA TypedWritten ==
  ASSUME Typed, NEW r \in Requests, Saved(r) \/ Updated(r) \/ Deleted(r)
  PROVE  Typed'
  <1>1. pc[r] \in {"save", "update", "delete"} /\ id[r] \in Ids /\ (pc[r] # "delete" => IsRow(row[r]))
    BY DEF Saved, Updated, Deleted, Typed, TypeOK, RequestOK
  <1>2. CASE /\ pc[r] = "save"
             /\ Planned(r, "insert", id[r], row[r]) \/ Planned(r, "update", id[r], row[r])
    <2>1. op[r].do \in {"update", "addOverride"} /\ op[r].do \notin Removals
      BY <1>2 DEF Typed, LoopInv
    <2> QED
      BY <1>1, <1>2, <2>1, TypedPlanned
  <1>3. ASSUME Announced(r, id[r]), UNCHANGED nextId,
               UNCHANGED draft \/ \E x : Wrote(r, id[r], x) /\ ~Locked(r, id[r]) /\ (x = None \/ IsRow(x))
        PROVE  Typed'
    <2>1. id[r] \in Ids'
      BY <1>1, <1>3 DEF Ids
    <2> QED
      BY <1>1, <1>3, <2>1, TypedAnnounced
  <1>4. CASE Saved(r)
    BY <1>2, <1>3, <1>4 DEF Saved
  <1>5. CASE Updated(r)
    BY <1>1, <1>3, <1>5 DEF Updated
  <1>6. CASE Deleted(r)
    BY <1>3, <1>6 DEF Deleted
  <1> QED
    BY <1>4, <1>5, <1>6

LEMMA TypedInserted ==
  ASSUME Typed, NEW r \in Requests, NEW i, Inserted(r, i)
  PROVE  Typed'
  <1>1. /\ pc[r] = "insert" /\ ~Locked(r, i) /\ Wrote(r, i, row[r])
        /\ IsRow(row[r]) /\ nextId \in Nat \ {0}
        /\ main[r] = None \/ main[r] \in Ids
        /\ \/ i = nextId /\ nextId' = nextId + 1
           \/ i \in Ids /\ nextId' = nextId
    BY DEF Typed, TypeOK, RequestOK, Inserted
  <1>2. /\ Ids \subseteq Ids' /\ i \in Ids' /\ i \in Nat /\ First(r, i) \in Ids'
        /\ nextId' = nextId \/ nextId' = nextId + 1
    <2>1. i \in Ids' /\ i \in Nat
      BY <1>1 DEF Ids
    <2>2. Ids \subseteq Ids'
      <3>1. nextId' \in Nat
        BY <1>1
      <3> QED
        BY <1>1, <3>1, GrowFact DEF Ids
    <2> QED
      BY <1>1, <2>1, <2>2 DEF First
  <1>3. CASE Announced(r, First(r, i))
    BY <1>1, <1>2, <1>3, TypedAnnounced
  <1>4. ASSUME NEW label \in {"insert", "role"}, NEW x, NEW m, Followed(r, label, x, m),
               x \in RowSet, x.of = i, m \in Ids', label = "insert" => id[r] = None \/ id[r] \in Ids'
        PROVE  Typed'
    <2>1. /\ Aside(r) /\ UNCHANGED <<rows, calls>>
          /\ pc'[r] = label /\ row'[r] = x /\ id'[r] = id[r] /\ main'[r] = m
          /\ op'[r] = op[r] /\ dto'[r] = dto[r] /\ left'[r] = left[r] /\ sent'[r] = sent[r]
      BY <1>4 DEF Followed, Stays
    <2>2. /\ DOMAIN draft'[r] \subseteq Ids'
          /\ \A j \in DOMAIN draft'[r] : draft'[r][j] = None \/ IsRow(draft'[r][j])
          /\ \A q \in Requests \ {r} : DOMAIN draft'[r] \cap DOMAIN draft[q] = {}
      BY <1>1, <1>2, <2>1, TypedDraft
    <2>3. RequestOK(r)'
      <3>1. RequestOK(r)
        BY DEF Typed, TypeOK
      <3>2. m # None
        BY <1>1, <1>2, <1>4, NoneFact DEF Ids
      <3>3. draft'[r] # <<>>
        <4>1. i \in DOMAIN draft'[r] /\ DOMAIN <<>> = {}
          BY <1>1 DEF Wrote
        <4> QED
          BY <4>1
      <3>4. /\ op'[r] \in dto'[r] \ left'[r] /\ left'[r] \subseteq dto'[r]
            /\ \A e \in sent'[r] : e.op \in dto'[r] \ left'[r] /\ e.id \in Ids'
            /\ \A o \in dto'[r] : o \in Request /\ o.id \in {0} \cup Ids' /\ o.of \in {0} \cup Ids'
        BY <1>1, <1>2, <2>1, <3>1 DEF RequestOK
      <3> QED
        BY <1>2, <1>4, <2>1, <2>2, <3>2, <3>3, <3>4 DEF RequestOK, IsRow
    <2>4. RowsOK' /\ DOMAIN rows \subseteq DOMAIN rows'
      BY <1>2, <2>1, TypedRows
    <2>5. LoopInv(r)' /\ calls' \in 0 .. MaxCalls
      BY <1>1, <1>4, <2>1 DEF Typed, TypeOK, LoopInv
    <2> QED
      BY <1>2, <2>1, <2>2, <2>3, <2>4, <2>5, TypedKeeps
  <1>7. /\ "users" \in Tables /\ "user_roles" \in Tables /\ "" \in Text /\ "admin" \in Text
    BY DirectoryAssumption DEF Tables
  <1>5. CASE Followed(r, "insert", Row("users", i, "admin", ""), i)
    <2>1. Row("users", i, "admin", "") \in RowSet /\ Row("users", i, "admin", "").of = i
      BY <1>2, <1>7 DEF Row, RowSet
    <2> QED
      BY <1>1, <1>2, <1>4, <1>5, <2>1 DEF Inserted
  <1>6. CASE Followed(r, "role", Row("user_roles", i, "", ""), First(r, i))
    <2>1. Row("user_roles", i, "", "") \in RowSet /\ Row("user_roles", i, "", "").of = i
      BY <1>2, <1>7 DEF Row, RowSet
    <2> QED
      BY <1>2, <1>4, <1>6, <2>1
  <1> QED
    BY <1>3, <1>5, <1>6 DEF Inserted

LEMMA TypedRoleFound ==
  ASSUME Typed, NEW r \in Requests, RoleFound(r)
  PROVE  Typed'
  <1>1. pc[r] = "role" /\ IsRow(row[r]) /\ row[r] \in RowSet /\ main[r] \in Ids
    BY DEF RoleFound, Typed, TypeOK, RequestOK, IsRow
  <1>2. ASSUME NEW key \in Text, NEW x, x = [row[r] EXCEPT !.key = key], Planned(r, "insert", None, x)
        PROVE  Typed'
    <2>1. IsRow(x)
      BY <1>1, <1>2, KeyedRowFact DEF IsRow
    <2>2. op[r].do \notin Removals
      BY <1>1 DEF Typed, LoopInv
    <2> QED
      BY <1>1, <1>2, <2>1, <2>2, TypedPlanned
  <1>3. CASE Announced(r, main[r]) /\ UNCHANGED <<nextId, draft>>
    <2>1. main[r] \in Ids'
      BY <1>1, <1>3 DEF Ids
    <2> QED
      BY <1>1, <1>3, <2>1, TypedAnnounced
  <1> QED
    BY <1>2, <1>3 DEF RoleFound

LEMMA TypedStep ==
  ASSUME Typed, NEW r \in Requests, Step(r)
  PROVE  Typed'
  BY TypedBegun, TypedEnded, TypedAdvanced, TypedLooked, TypedWritten, TypedInserted, TypedRoleFound DEF Step

LEMMA InitTyped == GInit => Typed
  <1> SUFFICES ASSUME GInit PROVE Typed
    OBVIOUS
  <1>1. /\ rows \in Stored /\ IsFiniteSet(DOMAIN rows) /\ DOMAIN rows = 1 .. Cardinality(DOMAIN rows)
        /\ \A i \in DOMAIN rows : rows[i] \in RowSet /\ rows[i].of \in {0} \cup DOMAIN rows
    BY StoredAssumption DEF GInit, Init
  <1>2. Cardinality(DOMAIN rows) \in Nat /\ nextId = Cardinality(DOMAIN rows) + 1
    BY <1>1, FS_CardinalityType DEF GInit, Init
  <1>3. Ids = DOMAIN rows /\ nextId \in Nat \ {0}
    BY <1>1, <1>2 DEF Ids
  <1>4. calls \in 0 .. MaxCalls
    <2>1. MaxCalls \in Nat
      BY DirectoryAssumption
    <2> QED
      BY <2>1 DEF GInit, Init
  <1>5. DOMAIN <<>> = {}
    OBVIOUS
  <1>6. ASSUME NEW r \in Requests
        PROVE  /\ RequestOK(r)
               /\ \A q \in Requests \ {r} : DOMAIN draft[r] \cap DOMAIN draft[q] = {}
    BY <1>5 DEF GInit, Init, RequestOK
  <1>7. FunctionsInv /\ Rooted /\ \A r \in Requests : LoopInv(r)
    BY <1>1 DEF GInit, Init, FunctionsInv, Rooted, LoopInv
  <1>8. TypeOK
    BY <1>1, <1>3, <1>4, <1>6 DEF GInit, Init, TypeOK, IsRow
  <1> QED
    BY <1>7, <1>8 DEF Typed

LEMMA StepTyped == Typed /\ [GNext]_<<vars, raced>> => Typed'
  <1>1. ASSUME Typed, GNext PROVE Typed'
    <2>1. PICK r \in Requests : Step(r)
      BY <1>1, StepFact DEF GNext
    <2> QED
      BY <1>1, <2>1, TypedStep
  <1>2. ASSUME Typed, UNCHANGED <<vars, raced>> PROVE Typed'
    BY <1>2 DEF vars, requestVars, Typed, FunctionsInv, TypeOK, RequestOK, IsRow, Ids, Rooted, LoopInv
  <1> QED
    BY <1>1, <1>2

\* Transactions never hold a write of the same row, and what they have planned,
\* written or announced is about rows there are.
THEOREM TypeCorrect == GSpec => []TypeOK
  <1>1. Typed => TypeOK
    BY DEF Typed
  <1> QED
    BY <1>1, InitTyped, StepTyped, PTL DEF GSpec

-----------------------------------------------------------------------------
(* What a row is about *)

\* The rows there are for a transaction, and those that have been there.
Known(r) == DOMAIN rows \cup DOMAIN draft[r]

\* The rows of a request that has written nothing are the committed ones.
LEMMA FreshFact ==
  ASSUME Typed, NEW r \in Requests,
         \/ pc[r] = "idle"
         \/ pc[r] \notin {"insert", "role", "ready"} /\ op[r].table # "role_permissions"
  PROVE  /\ draft[r] = <<>> /\ DOMAIN draft[r] = {}
         /\ Visible(r) = {i \in DOMAIN rows : rows[i] # None}
         /\ \A i : Sees(r, i) = rows[i]
  <1>1. draft[r] = <<>> /\ DOMAIN <<>> = {}
    BY DEF Typed, TypeOK, RequestOK
  <1> QED
    BY <1>1 DEF Visible, Sees

\* The rows after a step.
LEMMA RowsFact ==
  ASSUME NEW r \in Requests, Step(r)
  PROVE  /\ Aside(r)
         /\ Known(r) \subseteq Known(r)' \/ Ended(r)
         /\ \/ rows' = rows
            \/ /\ pc[r] = "ready" /\ left[r] = {} /\ Ended(r) /\ rows' = Over(draft[r], rows)
               /\ DOMAIN rows' = DOMAIN rows \cup DOMAIN draft[r]
               /\ \A i \in DOMAIN draft[r] : rows'[i] = draft[r][i]
               /\ \A i \in DOMAIN rows \ DOMAIN draft[r] : rows'[i] = rows[i]
  <1>1. CASE Ended(r)
    <2>1. CASE rows' = rows
      BY <1>1, <2>1 DEF Ended, Closed
    <2>2. CASE pc[r] = "ready" /\ left[r] = {} /\ rows' = Over(draft[r], rows)
      BY <1>1, <2>2 DEF Ended, Closed, Over
    <2> QED
      BY <1>1, <2>1, <2>2 DEF Ended
  <1>2. CASE ~Ended(r)
    <2>1. Aside(r) /\ rows' = rows
      BY <1>2 DEF Step, Begun, Advanced, Looked, Saved, Updated, Deleted, Inserted, RoleFound,
                  Planned, Announced, Followed
    <2>2. DOMAIN draft[r] \subseteq DOMAIN draft'[r]
      BY <1>2 DEF Step, Begun, Advanced, Looked, Saved, Updated, Deleted, Inserted, RoleFound,
                  Planned, Wrote
    <2> QED
      BY <2>1, <2>2 DEF Known
  <1> QED
    BY <1>1, <1>2

\* What no update of a row changes: a name, a slug or an e-mail may.
Fixed(x) == <<x.table, x.of, IF x.table \in {"tenants", "users", "roles"} THEN "" ELSE x.key>>

LEMMA FixedFact ==
  ASSUME NEW x
  PROVE  /\ Fixed(x)[1] = x.table /\ Fixed(x)[2] = x.of
         /\ x.table \in Granting => Fixed(x) = About(x)
  BY DEF Fixed, About, Granting

LEMMA FixedSame ==
  ASSUME NEW x, NEW y, x.table = y.table, x.of = y.of,
         x.key = y.key \/ x.table \in {"tenants", "users", "roles"}
  PROVE  Fixed(x) = Fixed(y)
  BY DEF Fixed

(* An id stands for one subject f[id] for good: in the rows, also once they    *)
(* are deleted, in what a transaction has written, and in what a request has   *)
(* found and is about to write.  Only rows that give permissions are deleted.  *)
Fit(f, i, x) == IF x = None THEN f[i][1] \in Granting ELSE f[i] = Fixed(x)

DraftFits(f, r) == \A i \in DOMAIN draft[r] :
    /\ Fit(f, i, draft[r][i])
    /\ IF op[r].table \in Granting THEN \E o \in dto[r] : f[i] = Fixed(o) ELSE f[i][1] \notin Granting

Here(f, r, i) == i \in Known(r) /\ f[i] = Fixed(op[r])

PlanFits(f, r) ==
    /\ op[r].do \in ById => Here(f, r, op[r].id)
    /\ pc[r] \in {"save", "update", "delete"} => Here(f, r, id[r])
    /\ pc[r] = "insert" /\ id[r] # None => Here(f, r, id[r]) /\ Fixed(row[r]) = Fixed(op[r])
    /\ pc[r] \in {"save", "update"} => Fixed(row[r]) = Fixed(op[r])
    /\ pc[r] = "insert" =>
          IF op[r].table \in Granting THEN Fixed(row[r]) = Fixed(op[r]) ELSE row[r].table \notin Granting
    /\ pc[r] = "role" => op[r].table \notin Granting /\ row[r].table \notin Granting
    /\ pc[r] = "delete" => op[r].table \in Granting

RequestFits(f, r) == DraftFits(f, r) /\ (pc[r] # "idle" => PlanFits(f, r))
RowsFit(f) == \A i \in DOMAIN rows : Fit(f, i, rows[i])
Fits(f) == RowsFit(f) /\ \A r \in Requests : RequestFits(f, r)

\* The subjects of ids not used yet do not matter.
LEMMA FitsExtends ==
  ASSUME Typed, NEW f, Fits(f), NEW g, \A i \in Ids : g[i] = f[i]
  PROVE  Fits(g)
  <1>1. DOMAIN rows \subseteq Ids /\ \A r \in Requests : DOMAIN draft[r] \subseteq Ids
    BY DEF Typed, TypeOK, RequestOK
  <1>2. \A r \in Requests : Known(r) \subseteq Ids
    BY <1>1 DEF Known
  <1> QED
    BY <1>1, <1>2 DEF Fits, RowsFit, RequestFits, DraftFits, PlanFits, Here, Fit

\* What a transaction sees of an id is about the subject of the id.
LEMMA SeenFact ==
  ASSUME NEW f, Fits(f), NEW r \in Requests, NEW i \in Visible(r)
  PROVE  i \in Known(r) /\ f[i] = Fixed(Sees(r, i))
  BY DEF Visible, Sees, Known, Fits, RowsFit, RequestFits, DraftFits, Fit

LEMMA FitsKeeps ==
  ASSUME NEW f, Fits(f), NEW r \in Requests, Aside(r), RequestFits(f, r)',
         DOMAIN rows \subseteq DOMAIN rows', RowsFit(f)'
  PROVE  Fits(f)'
  <1>1. ASSUME NEW q \in Requests \ {r} PROVE RequestFits(f, q)'
    BY DEF Fits, RequestFits, DraftFits, PlanFits, Here, Known, Aside
  <1> QED
    BY <1>1 DEF Fits

\* The rows fit after every step: a commit leaves what fitted in the draft.
LEMMA RowsFitStep ==
  ASSUME NEW f, Fits(f), NEW r \in Requests, Step(r)
  PROVE  RowsFit(f)' /\ DOMAIN rows \subseteq DOMAIN rows' /\ Aside(r)
  <1>1. CASE rows' = rows
    BY <1>1, RowsFact DEF Fits, RowsFit
  <1>2. CASE /\ DOMAIN rows' = DOMAIN rows \cup DOMAIN draft[r]
             /\ \A i \in DOMAIN draft[r] : rows'[i] = draft[r][i]
             /\ \A i \in DOMAIN rows \ DOMAIN draft[r] : rows'[i] = rows[i]
    <2>1. \A i \in DOMAIN draft[r] : Fit(f, i, draft[r][i])
      BY DEF Fits, RequestFits, DraftFits
    <2> QED
      BY <1>2, <2>1, RowsFact DEF Fits, RowsFit
  <1> QED
    BY <1>1, <1>2, RowsFact

LEMMA FitsBegun ==
  ASSUME Typed, NEW f, Fits(f), NEW r \in Requests, NEW o \in Operations, Begun(r, o),
         op'[r] \in Request
  PROVE  RequestFits(f, r)'
  <1>1. /\ pc[r] = "idle" /\ pc'[r] = "look" /\ UNCHANGED rows /\ draft'[r] = draft[r]
        /\ DOMAIN draft[r] = {}
    BY FreshFact DEF Begun
  <1>2. ASSUME op'[r].do \in ById PROVE Here(f, r, op[r].id)'
    <2>1. PICK i \in DOMAIN rows :
            /\ rows[i] # None /\ rows[i].table = o.table
            /\ op'[r].do = o.do /\ op'[r].id = i /\ op'[r].table = o.table
            /\ op'[r].of = rows[i].of
            /\ op'[r].key = IF o.key = "" THEN rows[i].key ELSE o.key
      BY <1>2 DEF Begun
    <2>2. op'[r].key = rows[i].key \/ op'[r].table \in {"tenants", "users", "roles"}
      <3>1. CASE o.do = "update"
        <4>1. <<op'[r].do, op'[r].table>> \in Services
          BY ServiceFact
        <4> QED
          BY <2>1, <3>1, <4>1 DEF Services
      <3>2. CASE o.do # "update"
        BY <1>2, <2>1, <3>2, OperationsAssumption
      <3> QED
        BY <3>1, <3>2
    <2>3. Fixed(op'[r]) = Fixed(rows[i])
      BY <2>1, <2>2, FixedSame
    <2>4. f[i] = Fixed(rows[i])
      BY <2>1 DEF Fits, RowsFit, Fit
    <2> QED
      BY <1>1, <2>1, <2>3, <2>4 DEF Here, Known
  <1> QED
    BY <1>1, <1>2 DEF RequestFits, DraftFits, PlanFits

LEMMA FitsAdvanced ==
  ASSUME Typed, NEW f, Fits(f), NEW r \in Requests, Advanced(r)
  PROVE  RequestFits(f, r)'
  <1>1. /\ pc[r] = "ready" /\ pc'[r] = "look" /\ UNCHANGED rows
        /\ draft'[r] = draft[r] /\ dto'[r] = dto[r] /\ op'[r] \in left[r]
    BY DEF Advanced
  <1>2. /\ op[r] \in dto[r] \ left[r] /\ op'[r] \in dto[r]
        /\ op[r].table = "role_permissions" /\ op'[r].table = "role_permissions"
    <2>1. op[r] \in dto[r] \ left[r] /\ left[r] \subseteq dto[r]
      BY <1>1 DEF Typed, TypeOK, RequestOK
    <2> QED
      BY <1>1, <2>1 DEF Typed, LoopInv
  <1>3. op'[r].do \notin ById
    <2>1. <<op'[r].do, op'[r].table>> \in Services
      <3>1. op'[r] \in Request
        BY <1>2 DEF Typed, TypeOK, RequestOK
      <3> QED
        BY <3>1, ServiceFact
    <2> QED
      BY <1>2, <2>1 DEF Services, ById
  <1>4. DraftFits(f, r)'
    <2>1. op[r].table \in Granting /\ op'[r].table \in Granting
      BY <1>2 DEF Granting
    <2> QED
      BY <1>1, <2>1 DEF Fits, RequestFits, DraftFits
  <1> QED
    BY <1>1, <1>3, <1>4 DEF RequestFits, PlanFits

LEMMA FitsEnded ==
  ASSUME NEW f, NEW r \in Requests, Ended(r)
  PROVE  RequestFits(f, r)'
  <1>1. pc'[r] = "idle" /\ DOMAIN <<>> = {} /\ draft'[r] = <<>>
    BY DEF Ended, Closed
  <1> QED
    BY <1>1 DEF RequestFits, DraftFits

\* A row that is found by its subject, or named by its id, is about the subject.
LEMMA FoundFact ==
  ASSUME Typed, NEW f, Fits(f), NEW r \in Requests, pc[r] # "idle",
         NEW i \in Find(r, Subject(r))
  PROVE  i \in Visible(r) /\ Fixed(Sees(r, i)) = Fixed(op[r])
  <1>1. /\ i \in Visible(r) /\ Sees(r, i).table = Subject(r).table
        /\ Sees(r, i).of = Subject(r).of /\ Sees(r, i).key = Subject(r).key
    BY DEF Find
  <1>2. /\ Subject(r).table = op[r].table /\ Subject(r).of = op[r].of /\ Subject(r).key = op[r].key
    BY SubjectFact
  <1> QED
    BY <1>1, <1>2, FixedSame

LEMMA FitsLooked ==
  ASSUME Typed, NEW f, Fits(f), NEW r \in Requests, Looked(r)
  PROVE  RequestFits(f, r)'
  <1>1. pc[r] = "look" /\ DraftFits(f, r) /\ PlanFits(f, r)
    BY DEF Looked, Fits, RequestFits
  <1>2. Fixed(Subject(r)) = Fixed(op[r]) /\ Subject(r).table = op[r].table
    <2>1. /\ Subject(r).table = op[r].table /\ Subject(r).of = op[r].of
          /\ Subject(r).key = op[r].key
      BY <1>1, SubjectFact
    <2> QED
      BY <2>1, FixedSame
  <1>3. ASSUME NEW i \in Find(r, Subject(r)) PROVE Here(f, r, i)
    BY <1>1, FoundFact, SeenFact DEF Here
  <1>4. <<op[r].do, op[r].table>> \in Services
    BY <1>1, OpFact
  <1>5. op[r].do \in Removals => op[r].table \in Granting
    BY <1>4 DEF Services, Removals, Granting
  <1>6. ASSUME NEW label \in {"insert", "ready", "save", "delete"}, NEW i, NEW x,
               Planned(r, label, i, x),
               label \in {"save", "delete"} => Here(f, r, i),
               label = "insert" => i = None,
               label \in {"insert", "save"} => Fixed(x) = Fixed(op[r]) /\ x.table = op[r].table,
               label = "delete" => op[r].table \in Granting
        PROVE  RequestFits(f, r)'
    BY <1>1, <1>6 DEF Planned, Stays, RequestFits, DraftFits, PlanFits, Here, Known
  <1>7. CASE Planned(r, "insert", None, Subject(r)) \/ Planned(r, "ready", None, None)
    BY <1>2, <1>6, <1>7
  <1>8. ASSUME NEW i \in Find(r, Subject(r)), Planned(r, "save", i, Subject(r)) PROVE RequestFits(f, r)'
    BY <1>2, <1>3, <1>6, <1>8
  <1>9. ASSUME op[r].do \in Removals,
               NEW i \in IF op[r].do \in ById THEN Visible(r) \cap {op[r].id} ELSE Find(r, Subject(r)),
               Planned(r, "delete", i, None)
        PROVE  RequestFits(f, r)'
    <2>1. Here(f, r, i)
      BY <1>1, <1>3, <1>9 DEF PlanFits
    <2> QED
      BY <1>5, <1>6, <1>9, <2>1
  <1>10. ASSUME NEW x, op[r].do = "update", op[r].id \in Visible(r),
                x = [Sees(r, op[r].id) EXCEPT !.key = op[r].key, !.val = op[r].val],
                Planned(r, "save", op[r].id, x)
         PROVE  RequestFits(f, r)'
    <2>1. PICK y : y = Sees(r, op[r].id)
      OBVIOUS
    <2>2. y \in RowSet
      BY <1>10, <2>1, SeesFact
    <2>3. op[r].key \in Text /\ op[r].val \in Text
      BY <1>1, OpFact
    <2>4. x.table = y.table /\ x.of = y.of
      BY <1>10, <2>1, <2>2, <2>3 DEF RowSet
    <2>5. Here(f, r, op[r].id) /\ f[op[r].id] = Fixed(y)
      BY <1>1, <1>10, <2>1, SeenFact DEF PlanFits, ById
    <2>6. y.table = op[r].table /\ y.table \in {"tenants", "users", "roles"}
      <3>1. Fixed(y) = Fixed(op[r])
        BY <2>5 DEF Here
      <3>2. op[r].table \in {"tenants", "users", "roles"}
        BY <1>4, <1>10 DEF Services
      <3> QED
        BY <3>1, <3>2, FixedFact
    <2>7. Fixed(x) = Fixed(y)
      BY <2>4, <2>6, FixedSame
    <2> QED
      BY <1>6, <1>10, <2>4, <2>5, <2>6, <2>7 DEF Here
  <1> QED
    BY <1>7, <1>8, <1>9, <1>10 DEF Looked

LEMMA FitsWritten ==
  ASSUME Typed, NEW f, Fits(f), NEW r \in Requests, Saved(r) \/ Updated(r) \/ Deleted(r)
  PROVE  RequestFits(f, r)'
  <1>1. /\ pc[r] \in {"save", "update", "delete"} /\ DraftFits(f, r)
        /\ PlanFits(f, r) /\ Here(f, r, id[r])
        /\ rows' = rows /\ op'[r] = op[r] /\ dto'[r] = dto[r]
    BY DEF Saved, Updated, Deleted, Planned, Announced, Stays, Fits, RequestFits, PlanFits
  <1>7. op[r] \in dto[r]
    BY <1>1, OpFact
  <1>8. Known(r) \subseteq Known(r)'
    BY <1>1 DEF Known, Saved, Updated, Deleted, Planned, Wrote
  <1>2. CASE Saved(r) /\ pc'[r] # "ready"
    <2>1. /\ pc[r] = "save" /\ pc'[r] \in {"insert", "update"} /\ draft'[r] = draft[r]
          /\ row'[r] = row[r] /\ id'[r] = id[r]
      BY <1>2 DEF Saved, Planned, Announced
    <2>2. Fixed(row[r]) = Fixed(op[r]) /\ row[r].table = op[r].table
      <3>1. Fixed(row[r]) = Fixed(op[r])
        BY <1>1, <2>1 DEF PlanFits
      <3> QED
        BY <3>1, FixedFact
    <2> QED
      BY <1>1, <1>8, <2>1, <2>2 DEF RequestFits, DraftFits, PlanFits, Here
  <1>3. CASE pc'[r] = "ready" /\ \/ draft'[r] = draft[r]
                                 \/ pc[r] = "update" /\ Wrote(r, id[r], row[r])
                                 \/ pc[r] = "delete" /\ Wrote(r, id[r], None)
    <2>1. PlanFits(f, r)'
      BY <1>1, <1>3, <1>8 DEF PlanFits, Here
    <2>2. DraftFits(f, r)'
      <3>1. CASE draft'[r] = draft[r]
        BY <1>1, <3>1 DEF DraftFits
      <3>2. f[id[r]] = Fixed(op[r]) /\ f[id[r]][1] = op[r].table
        BY <1>1, FixedFact DEF Here
      <3>3. CASE pc[r] = "update" /\ Wrote(r, id[r], row[r])
        <4>1. Fixed(row[r]) = Fixed(op[r]) /\ row[r] # None
          <5>1. IsRow(row[r])
            BY <3>3 DEF Typed, TypeOK, RequestOK
          <5> QED
            BY <1>1, <3>3, <5>1, ColumnsFact DEF PlanFits
        <4> QED
          BY <1>1, <1>7, <3>2, <3>3, <4>1 DEF DraftFits, Wrote, Fit
      <3>4. CASE pc[r] = "delete" /\ Wrote(r, id[r], None)
        <4>1. op[r].table \in Granting
          BY <1>1, <3>4 DEF PlanFits
        <4> QED
          BY <1>1, <1>7, <3>2, <3>4, <4>1 DEF DraftFits, Wrote, Fit
      <3> QED
        BY <1>3, <3>1, <3>3, <3>4
    <2> QED
      BY <2>1, <2>2 DEF RequestFits
  <1>4. CASE Saved(r)
    BY <1>2, <1>3, <1>4 DEF Saved, Planned, Announced
  <1>5. CASE Updated(r)
    BY <1>3, <1>5 DEF Updated, Announced
  <1>6. CASE Deleted(r)
    BY <1>3, <1>6 DEF Deleted, Announced
  <1> QED
    BY <1>4, <1>5, <1>6

\* An id that is not seen any more was that of a permission.
LEMMA GoneFact ==
  ASSUME NEW f, Fits(f), NEW r \in Requests, NEW i \in Known(r), i \notin Visible(r)
  PROVE  f[i][1] \in Granting
  BY DEF Known, Visible, Sees, Fits, RowsFit, RequestFits, DraftFits, Fit

LEMMA FitsInserted ==
  ASSUME Typed, NEW f, Fits(f), NEW r \in Requests, NEW i, Inserted(r, i), f[i] = Fixed(row[r])
  PROVE  RequestFits(f, r)'
  <1>1. /\ pc[r] = "insert" /\ Wrote(r, i, row[r]) /\ DraftFits(f, r) /\ PlanFits(f, r)
        /\ rows' = rows /\ op'[r] = op[r] /\ dto'[r] = dto[r] /\ op[r] \in dto[r] /\ row[r] # None
    <2>1. IsRow(row[r])
      BY DEF Inserted, Typed, TypeOK, RequestOK
    <2>2. op[r] \in dto[r]
      BY OpFact DEF Inserted
    <2> QED
      BY <2>1, <2>2, ColumnsFact DEF Inserted, Announced, Followed, Stays, Fits, RequestFits
  <1>6. Known(r) \subseteq Known(r)'
    BY <1>1 DEF Known, Wrote
  <1>2. IF op[r].table \in Granting THEN Fixed(row[r]) = Fixed(op[r]) ELSE f[i][1] \notin Granting
    BY <1>1, FixedFact DEF PlanFits
  <1>3. DraftFits(f, r)'
    BY <1>1, <1>2 DEF DraftFits, Wrote, Fit
  <1>4. CASE row[r].table \in {"tenants", "users"}
    <2>1. op[r].table \notin Granting
      <3>1. row[r].table \notin Granting
        BY <1>4 DEF Granting
      <3> QED
        BY <1>1, <3>1, FixedFact DEF PlanFits
    <2>2. id[r] = None
      <3>1. SUFFICES ASSUME id[r] # None PROVE FALSE
        OBVIOUS
      <3>2. i \in Known(r) /\ i \notin Visible(r)
        BY <1>1, <3>1 DEF Inserted, PlanFits, Here
      <3>3. row[r].table \in Granting
        BY <3>2, GoneFact, FixedFact
      <3> QED
        BY <1>4, <3>3 DEF Granting
    <2>3. /\ pc'[r] \in {"insert", "role"} /\ id'[r] = None
          /\ row'[r] \in {Row("users", i, "admin", ""), Row("user_roles", i, "", "")}
      BY <1>4, <2>2 DEF Inserted, Followed
    <2>4. row'[r].table \notin Granting
      <3>1. /\ Row("users", i, "admin", "").table = "users"
            /\ Row("user_roles", i, "", "").table = "user_roles"
        BY DEF Row
      <3> QED
        BY <2>3, <3>1 DEF Granting
    <2> QED
      BY <1>1, <1>3, <1>6, <2>1, <2>3, <2>4 DEF RequestFits, PlanFits, Here
  <1>5. CASE row[r].table \notin {"tenants", "users"}
    <2>1. pc'[r] = "ready"
      BY <1>5 DEF Inserted, Announced
    <2> QED
      BY <1>1, <1>3, <1>6, <2>1 DEF RequestFits, PlanFits, Here
  <1> QED
    BY <1>4, <1>5

LEMMA FitsRoleFound ==
  ASSUME Typed, NEW f, Fits(f), NEW r \in Requests, RoleFound(r)
  PROVE  RequestFits(f, r)'
  <1>1. /\ pc[r] = "role" /\ DraftFits(f, r) /\ PlanFits(f, r) /\ draft'[r] = draft[r]
        /\ rows' = rows /\ op'[r] = op[r] /\ dto'[r] = dto[r] /\ IsRow(row[r]) /\ row[r] \in RowSet
    BY DEF RoleFound, Planned, Announced, Stays, Fits, RequestFits, Typed, TypeOK, RequestOK, IsRow
  <1>2. ASSUME NEW key \in Text, NEW x, x = [row[r] EXCEPT !.key = key], Planned(r, "insert", None, x)
        PROVE  RequestFits(f, r)'
    <2>1. x.table = row[r].table
      BY <1>1, <1>2 DEF RowSet
    <2> QED
      BY <1>1, <1>2, <2>1 DEF Planned, RequestFits, DraftFits, PlanFits, Here, Known
  <1>3. CASE Announced(r, main[r])
    BY <1>1, <1>3 DEF Announced, RequestFits, DraftFits, PlanFits, Here, Known
  <1> QED
    BY <1>2, <1>3 DEF RoleFound

LEMMA FitsStep ==
  ASSUME Typed, NEW f, Fits(f), NEW r \in Requests, Step(r)
  PROVE  \E g : Fits(g)'
  <1>1. ASSUME NEW g, Fits(g), RequestFits(g, r)' PROVE Fits(g)'
    BY <1>1, RowsFitStep, FitsKeeps
  <1>2. CASE \E i : Inserted(r, i)
    <2>1. PICK i : Inserted(r, i)
      BY <1>2
    <2>2. CASE id[r] = None
      <3>1. i = nextId /\ i \notin Ids
        <4>1. nextId \in Nat
          BY DEF Typed, TypeOK
        <4>2. nextId \notin 1 .. nextId - 1
          BY <4>1
        <4> QED
          BY <2>1, <2>2, <4>2 DEF Inserted, Ids
      <3>2. PICK g : g = [j \in Ids \cup {i} |-> IF j \in Ids THEN f[j] ELSE Fixed(row[r])]
        OBVIOUS
      <3>3. g[i] = Fixed(row[r]) /\ \A j \in Ids : g[j] = f[j]
        BY <3>1, <3>2
      <3>4. Fits(g)
        BY <3>3, FitsExtends
      <3>5. RequestFits(g, r)'
        BY <2>1, <3>3, <3>4, FitsInserted
      <3> QED
        BY <1>1, <3>4, <3>5
    <2>3. CASE id[r] # None
      <3>1. i = id[r] /\ f[i] = Fixed(row[r])
        BY <2>1, <2>3 DEF Inserted, Fits, RequestFits, PlanFits, Here
      <3> QED
        BY <1>1, <2>1, <3>1, FitsInserted
    <2> QED
      BY <2>2, <2>3
  <1>3. CASE ~ \E i : Inserted(r, i)
    <2>1. RequestFits(f, r)'
      BY <1>3, FitsBegun, FitsEnded, FitsAdvanced, FitsLooked, FitsWritten, FitsRoleFound DEF Step
    <2> QED
      BY <1>1, <2>1
  <1> QED
    BY <1>2, <1>3

LEMMA InitFits == GInit => \E f : Fits(f)
  <1> SUFFICES ASSUME GInit PROVE \E f : Fits(f)
    OBVIOUS
  <1> DEFINE f == [i \in DOMAIN rows |-> Fixed(rows[i])]
  <1>1. RowsFit(f)
    <2>1. \A i \in DOMAIN rows : rows[i] # None
      BY StoredAssumption, DirectoryAssumption DEF GInit, Init
    <2> QED
      BY <2>1 DEF RowsFit, Fit
  <1>2. DOMAIN <<>> = {}
    OBVIOUS
  <1>3. ASSUME NEW r \in Requests PROVE RequestFits(f, r)
    BY <1>2 DEF GInit, Init, RequestFits, DraftFits
  <1> HIDE DEF f
  <1> QED
    BY <1>1, <1>3 DEF Fits

-----------------------------------------------------------------------------
(* Permissions *)

\* What two requests in progress are both about has raced.
Alone == \A r \in Requests : \A q \in Requests \ {r} : Topics(r) \cap Topics(q) \subseteq raced

LEMMA RacedFact ==
  ASSUME GNext
  PROVE  raced \subseteq raced' /\ Alone'
  <1>1. raced' = raced \cup UNION {Topics(p[1])' \cap Topics(p[2])' : p \in Distinct}
    BY DEF GNext
  <1>2. ASSUME NEW r \in Requests, NEW q \in Requests \ {r}
        PROVE  Topics(r)' \cap Topics(q)' \subseteq raced'
    <2>1. <<r, q>> \in Distinct /\ <<r, q>>[1] = r /\ <<r, q>>[2] = q
      BY DEF Distinct
    <2> QED
      BY <1>1, <2>1
  <1> QED
    BY <1>1, <1>2 DEF Alone

\* The rows about k, and those that r would see.
Holds(k)    == {i \in DOMAIN rows : rows[i] # None /\ Fixed(rows[i]) = k}
Shows(r, k) == {i \in Visible(r) : Fixed(Sees(r, i)) = k}
Single(S)   == \A i, j \in S : i = j

\* Where a request about k has come to, if no other is in progress: k is what it
\* is doing now, or what it has taken away.
Doing(r, k) ==
    /\ pc[r] = "look" /\ op[r].do \in ById => op[r].id \in Shows(r, k)
    /\ pc[r] = "insert" => Shows(r, k) = {}
    /\ pc[r] \in {"save", "update", "delete"} => id[r] \in Shows(r, k)
Gone(r, k) ==
    \A o \in dto[r] \ left[r] :
        o.do \in Removals /\ Fixed(o) = k /\ (o # op[r] \/ pc[r] = "ready") => Shows(r, k) = {}
ClearOf(r, k) == Single(Shows(r, k)) /\ (Fixed(op[r]) = k => Doing(r, k)) /\ Gone(r, k)

Concerns(r, k) == \E o \in dto[r] : Fixed(o) = k

Clear(k) == Single(Holds(k)) /\ \A r \in Requests : Concerns(r, k) => ClearOf(r, k)

Given(k) == k[1] \in Granting /\ k \notin raced

PermissionsInv ==
    /\ Typed /\ (\E f : Fits(f)) /\ Alone
    /\ \A k : Given(k) => Clear(k)

\* An operation on a permission is about what its row is about.
LEMMA TopicFact ==
  ASSUME Typed, NEW r \in Requests, NEW o \in dto[r], o.table \in Granting
  PROVE  Topic(o) = Fixed(o) /\ Topic(o) = About(o) /\ Topic(o) \in Topics(r)
  <1>1. o \in Request
    BY DEF Typed, TypeOK, RequestOK
  <1>2. o.do # "update"
    BY <1>1, ServiceFact DEF Services, Granting
  <1> QED
    BY <1>2, FixedFact DEF Topic, Topics

LEMMA AloneFact ==
  ASSUME Typed, Alone, NEW k, Given(k), NEW r \in Requests, Concerns(r, k)
  PROVE  \A q \in Requests \ {r} : ~Concerns(q, k)
  <1> SUFFICES ASSUME NEW q \in Requests \ {r}, Concerns(q, k) PROVE FALSE
    OBVIOUS
  <1>1. ASSUME NEW p \in Requests, Concerns(p, k) PROVE k \in Topics(p)
    <2>1. PICK o \in dto[p] : Fixed(o) = k
      BY <1>1 DEF Concerns
    <2>2. o.table \in Granting
      BY <2>1, FixedFact DEF Given
    <2> QED
      BY <2>1, <2>2, TopicFact
  <1> QED
    BY <1>1 DEF Alone, Given

\* A request about other things changes no row about k.
LEMMA ElsewhereFact ==
  ASSUME NEW f, Fits(f), NEW r \in Requests, NEW k, k[1] \in Granting, ~Concerns(r, k)
  PROVE  \A i \in DOMAIN draft[r] : /\ f[i] # k
                                    /\ draft[r][i] = None \/ Fixed(draft[r][i]) # k
                                    /\ i \in DOMAIN rows => rows[i] = None \/ Fixed(rows[i]) # k
  <1> SUFFICES ASSUME NEW i \in DOMAIN draft[r]
               PROVE  /\ f[i] # k
                      /\ draft[r][i] = None \/ Fixed(draft[r][i]) # k
                      /\ i \in DOMAIN rows => rows[i] = None \/ Fixed(rows[i]) # k
    OBVIOUS
  <1>1. f[i] # k
    BY DEF Concerns, Fits, RequestFits, DraftFits
  <1> QED
    BY <1>1 DEF Fits, RowsFit, RequestFits, DraftFits, Fit

LEMMA ElsewhereRows ==
  ASSUME NEW f, Fits(f), NEW r \in Requests, Step(r), NEW k, k[1] \in Granting, ~Concerns(r, k)
  PROVE  \A i : \/ i \in DOMAIN rows /\ i \in DOMAIN rows' /\ rows'[i] = rows[i]
                \/ /\ i \in DOMAIN rows => rows[i] = None \/ Fixed(rows[i]) # k
                   /\ i \in DOMAIN rows' => rows'[i] = None \/ Fixed(rows'[i]) # k
  <1>1. CASE rows' = rows
    BY <1>1
  <1>2. CASE /\ DOMAIN rows' = DOMAIN rows \cup DOMAIN draft[r]
             /\ \A i \in DOMAIN draft[r] : rows'[i] = draft[r][i]
             /\ \A i \in DOMAIN rows \ DOMAIN draft[r] : rows'[i] = rows[i]
    BY <1>2, ElsewhereFact
  <1> QED
    BY <1>1, <1>2, RowsFact

LEMMA ElsewhereStep ==
  ASSUME Typed, NEW f, Fits(f), NEW r \in Requests, Step(r), NEW k, k[1] \in Granting, ~Concerns(r, k),
         Clear(k)
  PROVE  Clear(k)'
  <1>1. \A i : \/ i \in DOMAIN rows /\ i \in DOMAIN rows' /\ rows'[i] = rows[i]
               \/ /\ i \in DOMAIN rows => rows[i] = None \/ Fixed(rows[i]) # k
                  /\ i \in DOMAIN rows' => rows'[i] = None \/ Fixed(rows'[i]) # k
    BY ElsewhereRows
  <1>2. Holds(k)' = Holds(k)
    BY <1>1 DEF Holds
  <1>3. Aside(r)
    BY RowsFact
  <1>4. ASSUME NEW q \in Requests \ {r}, Concerns(q, k)' PROVE ClearOf(q, k)'
    <2>1. /\ pc'[q] = pc[q] /\ op'[q] = op[q] /\ id'[q] = id[q] /\ draft'[q] = draft[q]
          /\ dto'[q] = dto[q] /\ left'[q] = left[q]
          /\ Concerns(q, k) /\ ClearOf(q, k)
      BY <1>3, <1>4 DEF Aside, Concerns, Clear
    <2>2. Shows(q, k)' = Shows(q, k)
      BY <1>1, <2>1 DEF Shows, Visible, Sees
    <2> QED
      BY <2>1, <2>2 DEF ClearOf, Doing, Gone
  <1>5. ASSUME Concerns(r, k)' PROVE ClearOf(r, k)'
    <2>1. PICK o \in Operations : Begun(r, o) /\ op'[r] \in Request
      BY <1>5 DEF Concerns, Step, Ended, Closed, Advanced, Looked, Saved, Updated, Deleted, Inserted,
                  RoleFound, Planned, Announced, Followed, Stays
    <2>2. /\ pc'[r] = "look" /\ rows' = rows /\ DOMAIN draft'[r] = {}
          /\ dto'[r] = {op'[r]} \cup left'[r]
      BY <2>1, FreshFact DEF Begun
    <2>3. Shows(r, k)' = Holds(k)
      BY <2>2 DEF Shows, Holds, Visible, Sees
    <2>4. ASSUME op'[r].do \in ById, Fixed(op'[r]) = k PROVE op'[r].id \in Holds(k)
      <3>1. RequestFits(f, r)'
        BY <2>1, FitsBegun
      <3>2. Here(f, r, op[r].id)'
        BY <2>2, <2>4, <3>1 DEF RequestFits, PlanFits
      <3>3. PICK i \in DOMAIN rows : rows[i] # None /\ op'[r].id = i
        BY <2>1, <2>4, OperationsAssumption DEF Begun
      <3>4. f[i] = k
        BY <2>4, <3>2, <3>3 DEF Here
      <3> QED
        BY <3>3, <3>4 DEF Holds, Fits, RowsFit, Fit
    <2>5. Doing(r, k)' \/ Fixed(op'[r]) # k
      BY <2>2, <2>3, <2>4 DEF Doing
    <2>6. Gone(r, k)'
      BY <2>2 DEF Gone
    <2> QED
      BY <2>3, <2>5, <2>6 DEF ClearOf, Clear
  <1> QED
    BY <1>2, <1>4, <1>5 DEF Clear

\* A commit leaves of k what the transaction saw of it.
LEMMA CommitFact ==
  ASSUME NEW r \in Requests, rows' = Over(draft[r], rows), NEW k
  PROVE  Holds(k)' = Shows(r, k)
  <1>1. /\ DOMAIN rows' = DOMAIN rows \cup DOMAIN draft[r]
        /\ \A i \in DOMAIN rows' : rows'[i] = Sees(r, i)
    BY DEF Over, Sees
  <1> QED
    BY <1>1 DEF Holds, Shows, Visible

\* What a write that is not about k leaves of k.
LEMMA WroteElsewhere ==
  ASSUME NEW r \in Requests, NEW i, NEW x, Wrote(r, i, x), rows' = rows, NEW k,
         i \notin Shows(r, k), x = None \/ Fixed(x) # k
  PROVE  Shows(r, k)' = Shows(r, k)
  BY DEF Wrote, Shows, Visible, Sees

\* What a request does while it is about something else.
LEMMA OtherStep ==
  ASSUME Typed, NEW f, Fits(f), NEW r \in Requests, Step(r), NEW k, k[1] \in Granting,
         ClearOf(r, k), Stays(r), pc[r] # "idle", pc'[r] # "idle", Fixed(op[r]) # k
  PROVE  ClearOf(r, k)'
  <1>1. /\ op'[r] = op[r] /\ dto'[r] = dto[r] /\ left'[r] = left[r] /\ PlanFits(f, r)
    BY DEF Stays, Fits, RequestFits
  <1>2. rows' = rows
    BY RowsFact DEF Ended, Closed
  <1>3. ASSUME NEW i \in Visible(r), f[i] = Fixed(op[r]) PROVE i \notin Shows(r, k)
    BY <1>3, SeenFact DEF Shows
  <1>4. ASSUME draft'[r] = draft[r] PROVE Shows(r, k)' = Shows(r, k)
    BY <1>2, <1>4 DEF Shows, Visible, Sees
  <1>5. ASSUME Updated(r) \/ Deleted(r) PROVE Shows(r, k)' = Shows(r, k)
    <2>1. Here(f, r, id[r])
      BY <1>1, <1>5 DEF Updated, Deleted, PlanFits
    <2>2. id[r] \notin Shows(r, k)
      BY <1>3, <2>1 DEF Here, Shows
    <2>3. pc[r] = "update" => Fixed(row[r]) # k
      BY <1>1 DEF PlanFits
    <2>4. CASE Updated(r) /\ Wrote(r, id[r], row[r])
      BY <1>2, <2>2, <2>3, <2>4, WroteElsewhere DEF Updated
    <2>5. CASE Deleted(r) /\ Wrote(r, id[r], None)
      BY <1>2, <2>2, <2>5, WroteElsewhere
    <2> QED
      BY <1>4, <1>5, <2>4, <2>5 DEF Updated, Deleted
  <1>6. ASSUME NEW i, Inserted(r, i) PROVE Shows(r, k)' = Shows(r, k)
    <2>1. Fixed(row[r]) # k
      BY <1>1, <1>6, FixedFact DEF Inserted, PlanFits
    <2>2. i \notin Shows(r, k) /\ Wrote(r, i, row[r])
      BY <1>6 DEF Inserted, Shows
    <2> QED
      BY <1>2, <2>1, <2>2, WroteElsewhere
  <1>7. Shows(r, k)' = Shows(r, k)
    <2>1. CASE Looked(r) \/ Saved(r) \/ RoleFound(r) \/ Advanced(r) \/ \E o \in Operations : Begun(r, o)
      BY <1>4, <2>1 DEF Looked, Saved, RoleFound, Planned, Advanced, Begun
    <2>2. ~Ended(r)
      BY DEF Ended, Closed
    <2> QED
      BY <1>4, <1>5, <1>6, <2>1, <2>2 DEF Step
  <1>8. Gone(r, k)'
    BY <1>1, <1>7 DEF ClearOf, Gone
  <1> QED
    BY <1>1, <1>7, <1>8 DEF ClearOf

\* What it does to the rows about k while it is about k.
LEMMA OwnStep ==
  ASSUME Typed, NEW f, Fits(f), NEW r \in Requests, Step(r), NEW k, k[1] \in Granting,
         ClearOf(r, k), Stays(r), pc[r] # "idle", pc'[r] # "idle", Fixed(op[r]) = k
  PROVE  ClearOf(r, k)'
  <1>1. /\ op[r].table \in Granting /\ PlanFits(f, r)
        /\ <<op[r].do, op[r].table>> \in Services
        /\ op'[r] = op[r] /\ dto'[r] = dto[r] /\ left'[r] = left[r]
        /\ Single(Shows(r, k)) /\ Doing(r, k) /\ Gone(r, k)
    BY OpFact, FixedFact DEF Fits, RequestFits, Stays, ClearOf
  <1>2. rows' = rows
    BY RowsFact DEF Ended, Closed
  <1>3. ASSUME draft'[r] = draft[r] PROVE Shows(r, k)' = Shows(r, k)
    BY <1>2, <1>3 DEF Shows, Visible, Sees
  <1>4. ASSUME Shows(r, k)' = Shows(r, k), Doing(r, k)',
               pc'[r] = "ready" => op[r].do \notin Removals \/ Shows(r, k) = {}
        PROVE  ClearOf(r, k)'
    <2>1. Gone(r, k)'
      BY <1>1, <1>4 DEF Gone
    <2> QED
      BY <1>1, <1>4, <2>1 DEF ClearOf
  <1>5. LoopInv(r)
    BY DEF Typed
  <1>6. CASE Looked(r)
    <2>1. pc[r] = "look" /\ draft'[r] = draft[r] /\ Shows(r, k)' = Shows(r, k)
      BY <1>3, <1>6 DEF Looked, Planned
    <2>2. Find(r, Subject(r)) = Shows(r, k)
      <3>1. Find(r, Subject(r)) \subseteq Shows(r, k)
        BY <2>1, FoundFact DEF Shows
      <3>2. ASSUME NEW i \in Shows(r, k) PROVE i \in Find(r, Subject(r))
        <4>1. About(Sees(r, i)) = About(op[r])
          BY <1>1, FixedFact DEF Shows
        <4>2. /\ Subject(r).table = op[r].table /\ Subject(r).of = op[r].of
              /\ Subject(r).key = op[r].key
          BY SubjectFact
        <4> QED
          BY <3>2, <4>1, <4>2 DEF About, Find, Shows
      <3> QED
        BY <3>1, <3>2
    <2>3. op[r].do # "update"
      BY <1>1 DEF Services, Granting
    <2>4. op[r].do \in ById => op[r].id \in Shows(r, k) /\ op[r].id \in Visible(r)
      BY <1>1, <2>1 DEF Doing, Shows
    <2>5. CASE Planned(r, "insert", None, Subject(r)) \/ Planned(r, "ready", None, None)
      <3>1. Doing(r, k)'
        BY <1>1, <1>6, <2>1, <2>2, <2>5 DEF Looked, Planned, Doing
      <3>2. pc'[r] = "ready" => op[r].do \notin Removals \/ Shows(r, k) = {}
        BY <1>6, <2>2, <2>4, <2>5 DEF Looked, Planned
      <3> QED
        BY <1>4, <2>1, <3>1, <3>2
    <2>6. CASE \E i \in Find(r, Subject(r)) : op[r].do = "addOverride" /\ Planned(r, "save", i, Subject(r))
      BY <1>4, <2>1, <2>2, <2>6 DEF Planned, Doing
    <2>7. CASE \E i \in IF op[r].do \in ById THEN Visible(r) \cap {op[r].id} ELSE Find(r, Subject(r)) :
                 Planned(r, "delete", i, None)
      BY <1>4, <2>1, <2>2, <2>4, <2>7 DEF Planned, Doing
    <2> QED
      BY <1>6, <2>3, <2>5, <2>6, <2>7 DEF Looked
  <1>7. CASE Saved(r)
    <2>1. /\ pc[r] = "save" /\ draft'[r] = draft[r] /\ op[r].do \notin Removals
          /\ id[r] \in Visible(r) /\ pc'[r] \in {"update", "ready"} /\ id'[r] = id[r]
      BY <1>1, <1>5, <1>7 DEF Saved, Planned, Announced, Doing, Shows, LoopInv
    <2>2. Doing(r, k)'
      BY <1>1, <1>3, <2>1 DEF Doing
    <2> QED
      BY <1>3, <1>4, <2>1, <2>2
  <1>8. CASE Updated(r)
    <2>1. /\ pc[r] = "update" /\ id[r] \in Shows(r, k) /\ id[r] \in Visible(r)
          /\ Wrote(r, id[r], row[r]) /\ pc'[r] = "ready" /\ op[r].do \notin Removals
      BY <1>1, <1>5, <1>8 DEF Updated, Announced, Doing, Shows, LoopInv
    <2>2. Fixed(row[r]) = k /\ row[r] # None
      <3>1. IsRow(row[r])
        BY <2>1 DEF Typed, TypeOK, RequestOK
      <3> QED
        BY <1>1, <2>1, <3>1, ColumnsFact DEF PlanFits
    <2>3. Shows(r, k)' = Shows(r, k)
      BY <1>2, <2>1, <2>2 DEF Shows, Visible, Sees, Wrote
    <2>4. Doing(r, k)'
      BY <2>1 DEF Doing
    <2> QED
      BY <1>4, <2>1, <2>3, <2>4
  <1>9. CASE Deleted(r)
    <2>1. /\ pc[r] = "delete" /\ id[r] \in Shows(r, k) /\ id[r] \in Visible(r)
          /\ Wrote(r, id[r], None) /\ pc'[r] = "ready"
      BY <1>1, <1>9 DEF Deleted, Announced, Doing, Shows
    <2>2. Shows(r, k)' = {}
      <3>1. \A i \in Shows(r, k) : i = id[r]
        BY <1>1, <2>1 DEF Single
      <3> QED
        BY <1>2, <2>1, <3>1 DEF Shows, Visible, Sees, Wrote
    <2> QED
      BY <2>1, <2>2 DEF ClearOf, Single, Doing, Gone
  <1>10. ASSUME NEW i, Inserted(r, i) PROVE ClearOf(r, k)'
    <2>1. Fixed(row[r]) = k /\ row[r].table = op[r].table
      BY <1>1, <1>10, FixedFact DEF Inserted, PlanFits
    <2>2. /\ pc[r] = "insert" /\ Wrote(r, i, row[r]) /\ pc'[r] = "ready"
          /\ Shows(r, k) = {} /\ op[r].do \notin Removals
      BY <1>1, <1>5, <1>10, <2>1 DEF Inserted, Announced, Granting, Doing, LoopInv
    <2>3. \A j \in Shows(r, k)' : j = i
      BY <1>2, <2>2 DEF Shows, Visible, Sees, Wrote
    <2>4. ASSUME NEW o \in dto[r] \ left[r] PROVE o.do \notin Removals
      <3>1. SUFFICES ASSUME o.do \in Removals, o # op[r] PROVE FALSE
        BY <2>2
      <3>2. o.table = "role_permissions" /\ o \in Request
        BY <1>5, <3>1 DEF LoopInv, Typed, TypeOK, RequestOK
      <3>3. o.do = "removePermission"
        BY <3>1, <3>2, ServiceFact DEF Services, Removals
      <3> QED
        BY <1>5, <2>2, <3>3 DEF LoopInv, Removals
    <2> QED
      BY <1>1, <2>2, <2>3, <2>4 DEF ClearOf, Single, Doing, Gone
  <1>11. ~RoleFound(r)
    BY <1>1 DEF RoleFound, PlanFits
  <1>12. ~Ended(r) /\ ~Advanced(r) /\ \A o \in Operations : ~Begun(r, o)
    <2>1. ~Advanced(r)
      BY <1>1 DEF Advanced
    <2> QED
      BY <2>1 DEF Ended, Closed, Begun
  <1> QED
    BY <1>6, <1>7, <1>8, <1>9, <1>10, <1>11, <1>12 DEF Step

\* Another permission of the same request.
LEMMA AnotherStep ==
  ASSUME Typed, NEW r \in Requests, Advanced(r), NEW k, ClearOf(r, k)
  PROVE  ClearOf(r, k)'
  <1>1. /\ pc[r] = "ready" /\ pc'[r] = "look" /\ op'[r] \in left[r]
        /\ left'[r] = left[r] \ {op'[r]} /\ dto'[r] = dto[r]
        /\ op[r] \in dto[r] \ left[r] /\ op'[r] \in dto[r] /\ op'[r] # op[r]
    <2>1. pc[r] = "ready" /\ op'[r] \in left[r] /\ left[r] \subseteq dto[r] /\ op[r] \in dto[r] \ left[r]
      BY DEF Advanced, Typed, TypeOK, RequestOK
    <2> QED
      BY <2>1 DEF Advanced
  <1>2. Shows(r, k)' = Shows(r, k)
    BY DEF Advanced, Shows, Visible, Sees
  <1>3. op'[r].do \notin ById
    <2>1. op'[r].table = "role_permissions" /\ op'[r] \in Request
      BY <1>1 DEF Typed, LoopInv, TypeOK, RequestOK
    <2> QED
      BY <2>1, ServiceFact DEF Services, ById
  <1>4. Doing(r, k)'
    BY <1>1, <1>3 DEF Doing
  <1>5. Gone(r, k)'
    BY <1>1, <1>2 DEF Gone, ClearOf
  <1> QED
    BY <1>2, <1>4, <1>5 DEF ClearOf

LEMMA ClearStep ==
  ASSUME Typed, NEW f, Fits(f), Alone, NEW r \in Requests, Step(r), NEW k, Given(k), Clear(k)
  PROVE  Clear(k)'
  <1>1. k[1] \in Granting /\ Aside(r)
    BY RowsFact DEF Given
  <1>2. CASE ~Concerns(r, k)
    BY <1>1, <1>2, ElsewhereStep
  <1>3. CASE Concerns(r, k)
    <2>1. \A q \in Requests \ {r} : ~Concerns(q, k)
      BY <1>3, AloneFact
    <2>2. \A q \in Requests \ {r} : ~Concerns(q, k)'
      BY <1>1, <2>1 DEF Aside, Concerns
    <2>3. ClearOf(r, k) /\ Single(Holds(k)) /\ pc[r] # "idle"
      BY <1>3 DEF Clear, Concerns, Typed, TypeOK, RequestOK
    <2>4. CASE pc'[r] # "idle"
      <3>1. rows' = rows
        BY <2>4, RowsFact DEF Ended, Closed
      <3>2. ClearOf(r, k)'
        <4>1. Advanced(r) \/ Stays(r)
          BY <2>3, <2>4 DEF Step, Begun, Ended, Closed, Looked, Saved, Updated, Deleted, Inserted,
                            RoleFound, Planned, Announced, Followed
        <4> QED
          BY <1>1, <2>3, <2>4, <4>1, OtherStep, OwnStep, AnotherStep
      <3>3. Holds(k)' = Holds(k)
        BY <3>1 DEF Holds
      <3> QED
        BY <2>2, <2>3, <3>2, <3>3 DEF Clear
    <2>5. CASE pc'[r] = "idle"
      <3>1. Holds(k)' = Holds(k) \/ Holds(k)' = Shows(r, k)
        <4>1. CASE rows' = rows
          BY <4>1 DEF Holds
        <4>2. CASE rows' = Over(draft[r], rows)
          BY <4>2, CommitFact
        <4> QED
          BY <4>1, <4>2, RowsFact
      <3>2. ~Concerns(r, k)'
        <4>1. Ended(r)
          BY <2>5 DEF Step, Begun, Advanced, Looked, Saved, Updated, Deleted, Inserted, RoleFound,
                      Planned, Announced, Followed
        <4> QED
          BY <4>1 DEF Ended, Closed, Concerns
      <3> QED
        BY <2>2, <2>3, <3>1, <3>2 DEF Clear, ClearOf
    <2> QED
      BY <2>4, <2>5
  <1> QED
    BY <1>2, <1>3

LEMMA InitPermissions == GInit => PermissionsInv
  <1> SUFFICES ASSUME GInit PROVE PermissionsInv
    OBVIOUS
  <1>1. \A r \in Requests : dto[r] = {}
    BY DEF GInit, Init
  <1>2. ASSUME NEW k, Given(k) PROVE Clear(k)
    <2>1. \A i, j \in Holds(k) : i = j
      <3> SUFFICES ASSUME NEW i \in Holds(k), NEW j \in Holds(k), i # j PROVE FALSE
        OBVIOUS
      <3>1. Fixed(rows[i]) = k /\ Fixed(rows[j]) = k /\ i \in DOMAIN rows /\ j \in DOMAIN rows
        BY DEF Holds
      <3>2. rows[i].table \in Granting /\ About(rows[i]) = About(rows[j])
        BY <1>2, <3>1, FixedFact DEF Given
      <3> QED
        BY <3>1, <3>2, SinglesAssumption DEF GInit, Init
    <2> QED
      BY <1>1, <2>1 DEF Clear, Single, Concerns
  <1> QED
    BY <1>1, <1>2, InitTyped, InitFits DEF PermissionsInv, Alone, Topics

LEMMA StepPermissions == PermissionsInv /\ [GNext]_<<vars, raced>> => PermissionsInv'
  <1>1. ASSUME PermissionsInv, GNext PROVE PermissionsInv'
    <2>1. PICK r \in Requests : Step(r)
      BY <1>1, StepFact DEF GNext, PermissionsInv
    <2>2. PICK f : Fits(f)
      BY <1>1 DEF PermissionsInv
    <2>3. Typed' /\ \E g : Fits(g)'
      BY <1>1, <2>1, <2>2, TypedStep, FitsStep DEF PermissionsInv
    <2>4. Alone' /\ raced \subseteq raced'
      BY <1>1, RacedFact
    <2>5. ASSUME NEW k, Given(k)' PROVE Clear(k)'
      <3>1. Given(k)
        BY <2>4, <2>5 DEF Given
      <3> QED
        BY <1>1, <2>1, <2>2, <3>1, ClearStep DEF PermissionsInv
    <2> QED
      BY <2>3, <2>4, <2>5 DEF PermissionsInv
  <1>2. ASSUME PermissionsInv, UNCHANGED <<vars, raced>> PROVE PermissionsInv'
    <2>1. Typed'
      BY <1>2, StepTyped DEF PermissionsInv
    <2>2. UNCHANGED <<rows, draft, pc, op, dto, left, row, id, raced>>
      BY <1>2 DEF vars, requestVars
    <2>3. ASSUME NEW f, Fits(f) PROVE Fits(f)'
      BY <2>2, <2>3 DEF Fits, RowsFit, RequestFits, DraftFits, PlanFits, Here, Known
    <2>4. ASSUME NEW k, Given(k)' PROVE Clear(k)'
      <3>1. Given(k) /\ Clear(k)
        BY <1>2, <2>2, <2>4 DEF Given, PermissionsInv
      <3>2. /\ Holds(k)' = Holds(k) /\ \A q \in Requests : Shows(q, k)' = Shows(q, k)
        BY <2>2 DEF Holds, Shows, Visible, Sees
      <3> QED
        BY <2>2, <3>1, <3>2 DEF Clear, Concerns, ClearOf, Doing, Gone
    <2>5. Alone'
      BY <1>2, <2>2 DEF PermissionsInv, Alone, Topics
    <2> QED
      BY <1>2, <2>1, <2>3, <2>4, <2>5 DEF PermissionsInv
  <1> QED
    BY <1>1, <1>2

\* One row gives a permission unless two requests about it overlapped, though no
\* index keeps the tables of ACLs and of the permissions of roles to it.
THEOREM DoublesAreRaces == GSpec => []DoublesOnlyByRace
  <1>1. PermissionsInv => DoublesOnlyByRace
    <2> SUFFICES ASSUME PermissionsInv, NEW table \in {"acls", "role_permissions"},
                        NEW i \in In(table), NEW j \in In(table), i # j,
                        About(rows[i]) = About(rows[j]), About(rows[i]) \notin raced
                 PROVE  FALSE
      BY DEF DoublesOnlyByRace
    <2>1. PICK k : k = About(rows[i])
      OBVIOUS
    <2>2. rows[i].table \in Granting /\ rows[j].table \in Granting
      BY DEF In, Granting
    <2>3. Fixed(rows[i]) = k /\ Fixed(rows[j]) = k /\ k[1] \in Granting
      BY <2>1, <2>2, FixedFact
    <2>4. Clear(k)
      BY <2>1, <2>3 DEF PermissionsInv, Given
    <2>5. i \in Holds(k) /\ j \in Holds(k)
      BY <2>3 DEF Holds, In, Stands
    <2> QED
      BY <2>4, <2>5 DEF Clear, Single
  <1> QED
    BY <1>1, InitPermissions, StepPermissions, PTL DEF GSpec

\* A request that takes permissions away has taken each away when it commits,
\* whichever requests about other things are in progress.
THEOREM RemovalsRemove == GSpec => RemovalRemoves
  <1> DEFINE Removed == \A r \in Requests : \A o \in dto[r] :
               Commit(r) /\ o.do \in Removals /\ About(o) \notin raced =>
                   \A i \in DOMAIN rows' : rows'[i] # None => About(rows'[i]) # About(o)
  <1>1. ASSUME PermissionsInv, [GNext]_<<vars, raced>> PROVE Removed
    <2> SUFFICES ASSUME NEW r \in Requests, NEW o \in dto[r], Commit(r), o.do \in Removals,
                        About(o) \notin raced,
                        NEW i \in DOMAIN rows', rows'[i] # None, About(rows'[i]) = About(o)
                 PROVE  FALSE
      OBVIOUS
    <2>1. PICK k : k = About(o)
      OBVIOUS
    <2>2. pc[r] = "ready" /\ left[r] = {} /\ rows' = Over(draft[r], rows)
      BY DEF Commit
    <2>3. o.table \in Granting
      <3>1. o \in Request
        BY <1>1 DEF PermissionsInv, Typed, TypeOK, RequestOK
      <3> QED
        BY <3>1, ServiceFact DEF Services, Removals, Granting
    <2>4. Fixed(o) = k /\ k[1] \in Granting
      BY <2>1, <2>3, FixedFact
    <2>5. Clear(k)
      BY <1>1, <2>1, <2>4 DEF PermissionsInv, Given
    <2>6. Shows(r, k) = {}
      BY <2>2, <2>4, <2>5 DEF Clear, Concerns, ClearOf, Gone
    <2>7. Holds(k)' = {}
      BY <2>2, <2>6, CommitFact
    <2>8. Fixed(rows'[i]) = k
      <3>1. rows'[i].table = o.table
        BY DEF About
      <3> QED
        BY <2>1, <2>3, <3>1, FixedFact
    <2> QED
      BY <2>7, <2>8 DEF Holds
  <1> QED
    BY <1>1, InitPermissions, StepPermissions, PTL DEF GSpec, RemovalRemoves

-----------------------------------------------------------------------------
(* Events *)

\* The row a request is about to write, and those it has written: the first of
\* them, which its event will name, is what it was asked for.
Planning(r) ==
    /\ pc[r] \in {"idle", "look", "save", "update", "delete"} => main[r] = None
    /\ pc[r] \in {"save", "update"} \/ (pc[r] = "insert" /\ main[r] = None) => row[r] = AsRow(op[r])
    /\ pc[r] \in {"insert", "role"} /\ main[r] # None =>
          main[r] \in DOMAIN draft[r] /\ draft[r][main[r]] = AsRow(op[r]) /\ row[r].table # "tenants"
    /\ pc[r] \in {"save", "update"} /\ op[r].do = "update" => id[r] = op[r].id
    /\ pc[r] \in {"insert", "role"} => op[r].do # "update"
    /\ pc[r] = "delete" => op[r].do \in Removals
    /\ pc[r] # "idle" /\ op[r].table \notin Granting =>
          \A i \in DOMAIN draft[r] \cap DOMAIN rows : op[r].do = "update" /\ op[r].id = i

\* What an event says is so for its transaction; only rows that were as asked for
\* already are not among those it has written.
Told(r, e) ==
    \/ Topic(e.op) \in raced
    \/ \E o \in dto[r] : Undoes(o, e)
    \/ /\ e.id \in Known(r)
       /\ Sees(r, e.id) = IF e.op.do \in Removals THEN None ELSE AsRow(e.op)
       /\ e.id \in DOMAIN draft[r] \/ e.op.do \in {"update", "addOverride"}

Sending(r) ==
    /\ sent[r] # {} => pc[r] = "ready" \/ (pc[r] # "idle" /\ op[r].table = "role_permissions")
    /\ \A e \in sent[r] : Told(r, e) /\ (e.op.do = "update" => e.id = e.op.id)

EventsInv == PermissionsInv /\ \A r \in Requests : Planning(r) /\ Sending(r)

LEMMA RowEqual ==
  ASSUME NEW x \in RowSet, NEW y \in RowSet,
         x.table = y.table, x.of = y.of, x.key = y.key, x.val = y.val
  PROVE  x = y
  BY DEF RowSet

\* What an operation is about, as a row.
LEMMA AsRowFact ==
  ASSUME NEW o \in Request, NEW x, x = AsRow(o)
  PROVE  /\ x \in RowSet /\ x # None /\ Fixed(x) = Fixed(o)
         /\ x.table = o.table /\ x.of = o.of /\ x.key = o.key /\ x.val = o.val
  <1>1. o.table \in Tables /\ o.of \in Nat /\ o.key \in Text /\ o.val \in Text
    BY ServiceFact
  <1>2. x = Row(o.table, o.of, o.key, o.val)
    BY DEF AsRow
  <1>3. x \in RowSet /\ x.table = o.table /\ x.of = o.of /\ x.key = o.key /\ x.val = o.val
    BY <1>1, <1>2, MadeRowFact
  <1> QED
    BY <1>3, FixedSame, DirectoryAssumption

\* save() inserts a row that is gone only where rows go.
LEMMA SavedGone ==
  ASSUME Typed, NEW f, Fits(f), NEW r \in Requests,
         pc[r] \in {"save", "update"} \/ (pc[r] = "insert" /\ id[r] # None), id[r] \notin Visible(r)
  PROVE  op[r].table \in Granting /\ op[r].do # "update"
  <1>1. Here(f, r, id[r]) /\ <<op[r].do, op[r].table>> \in Services
    BY OpFact DEF Fits, RequestFits, PlanFits
  <1>2. op[r].table \in Granting
    BY <1>1, GoneFact, FixedFact DEF Here
  <1> QED
    BY <1>1, <1>2 DEF Services, Granting

LEMMA PlanningAside ==
  ASSUME Typed, NEW r \in Requests, Step(r), NEW q \in Requests \ {r}, Planning(q)
  PROVE  Planning(q)'
  <1>1. /\ pc'[q] = pc[q] /\ op'[q] = op[q] /\ row'[q] = row[q] /\ draft'[q] = draft[q]
        /\ id'[q] = id[q] /\ main'[q] = main[q]
    BY RowsFact DEF Aside
  <1>2. DOMAIN draft[q] \cap DOMAIN rows' \subseteq DOMAIN rows
    <2>1. DOMAIN draft[r] \cap DOMAIN draft[q] = {}
      BY DEF Typed, TypeOK
    <2>2. DOMAIN rows' \subseteq DOMAIN rows \cup DOMAIN draft[r]
      BY RowsFact
    <2> QED
      BY <2>1, <2>2
  <1> QED
    BY <1>1, <1>2 DEF Planning

LEMMA PlanningLooked ==
  ASSUME Typed, NEW f, Fits(f), NEW r \in Requests, Looked(r), Planning(r)
  PROVE  Planning(r)'
  <1>1. /\ pc[r] = "look" /\ main[r] = None /\ main'[r] = None /\ op'[r] = op[r]
        /\ draft'[r] = draft[r] /\ rows' = rows /\ op[r] \in Request
    BY OpFact DEF Looked, Planned, Stays, Planning
  <1>2. op[r].table \notin Granting => \A i \in DOMAIN draft[r] \cap DOMAIN rows :
            op[r].do = "update" /\ op[r].id = i
    BY <1>1 DEF Planning
  <1>3. CASE Planned(r, "insert", None, Subject(r)) /\ op[r].do \notin ById
    BY <1>1, <1>2, <1>3 DEF Planned, Planning, Subject, ById
  <1>4. CASE Planned(r, "ready", None, None)
    BY <1>1, <1>2, <1>4 DEF Planned, Planning
  <1>5. ASSUME op[r].do = "addOverride", NEW i, Planned(r, "save", i, Subject(r)) PROVE Planning(r)'
    BY <1>1, <1>2, <1>5 DEF Planned, Planning, Subject
  <1>6. ASSUME op[r].do \in Removals, NEW i, Planned(r, "delete", i, None) PROVE Planning(r)'
    BY <1>1, <1>2, <1>6 DEF Planned, Planning
  <1>7. ASSUME NEW x, op[r].do = "update", op[r].id \in Visible(r),
               x = [Sees(r, op[r].id) EXCEPT !.key = op[r].key, !.val = op[r].val],
               Planned(r, "save", op[r].id, x)
        PROVE  Planning(r)'
    <2>1. PICK y : y = Sees(r, op[r].id)
      OBVIOUS
    <2>2. y \in RowSet /\ f[op[r].id] = Fixed(y)
      BY <1>7, <2>1, SeesFact, SeenFact
    <2>3. PICK key \in Text, val \in Text : key = op[r].key /\ val = op[r].val
      BY <1>1, OpFact
    <2>9. x = [y EXCEPT !.key = key, !.val = val]
      BY <1>7, <2>1, <2>3
    <2>4. x \in RowSet /\ x.table = y.table /\ x.of = y.of /\ x.key = op[r].key /\ x.val = op[r].val
      <3>1. y \in RowSet
        BY <2>2
      <3>2. x \in RowSet /\ x.table = y.table /\ x.of = y.of /\ x.key = key /\ x.val = val
        BY <2>9, <3>1 DEF RowSet
      <3> QED
        BY <2>3, <3>2
    <2>5. Fixed(y) = Fixed(op[r])
      BY <1>1, <1>7, <2>2 DEF Fits, RequestFits, PlanFits, Here, ById
    <2>6. y.table = op[r].table /\ y.of = op[r].of
      BY <2>5, FixedFact
    <2>7. PICK z : z = AsRow(op[r])
      OBVIOUS
    <2>8. x = z
      BY <1>1, <2>4, <2>6, <2>7, AsRowFact, RowEqual
    <2> QED
      BY <1>1, <1>2, <1>7, <2>7, <2>8 DEF Planned, Planning
  <1> QED
    BY <1>3, <1>4, <1>5, <1>6, <1>7 DEF Looked

LEMMA PlanningInserted ==
  ASSUME Typed, NEW f, Fits(f), NEW r \in Requests, NEW i, Inserted(r, i), Planning(r)
  PROVE  Planning(r)'
  <1>1. /\ pc[r] = "insert" /\ op'[r] = op[r] /\ rows' = rows /\ Wrote(r, i, row[r])
        /\ op[r] \in Request /\ op[r].do # "update"
    BY OpFact DEF Inserted, Announced, Followed, Stays, Planning
  <1>2. i # None
    BY DirectoryAssumption DEF Inserted, Typed, TypeOK
  <1>3. op[r].table \notin Granting => \A j \in DOMAIN draft'[r] \cap DOMAIN rows :
            op[r].do = "update" /\ op[r].id = j
    <2>1. CASE id[r] = None
      <3>1. DOMAIN rows \subseteq 1 .. nextId - 1 /\ nextId \in Nat
        BY DEF Typed, TypeOK, Ids
      <3>2. i = nextId
        BY <2>1 DEF Inserted
      <3>3. i \notin DOMAIN rows
        BY <3>1, <3>2
      <3> QED
        BY <1>1, <3>3 DEF Wrote, Planning
    <2>2. CASE id[r] # None
      <3>1. id[r] \notin Visible(r)
        BY <2>2 DEF Inserted
      <3> QED
        BY <1>1, <2>2, <3>1, SavedGone
    <2> QED
      BY <2>1, <2>2
  <1>4. PICK z : z = AsRow(op[r])
    OBVIOUS
  <1>5. z # None
    BY <1>1, <1>4, AsRowFact
  <1>6. First(r, i) \in DOMAIN draft'[r] /\ draft'[r][First(r, i)] = z
    <2>1. CASE main[r] = None
      BY <1>1, <1>4, <2>1 DEF First, Planning, Wrote
    <2>2. CASE main[r] # None
      <3>1. main[r] \in DOMAIN draft[r] /\ draft[r][main[r]] = z
        BY <1>1, <1>4, <2>2 DEF Planning
      <3>2. main[r] # i
        BY <1>5, <3>1 DEF Inserted, Visible, Sees
      <3> QED
        BY <1>1, <2>2, <3>1, <3>2 DEF First, Wrote
    <2> QED
      BY <2>1, <2>2
  <1>7. CASE row[r].table = "tenants" /\ Followed(r, "insert", Row("users", i, "admin", ""), i)
    <2>1. main[r] = None
      BY <1>1, <1>7 DEF Planning
    <2>2. PICK x : x = Row("users", i, "admin", "")
      OBVIOUS
    <2>3. x.table # "tenants"
      BY <2>2 DEF Row
    <2>4. pc'[r] = "insert" /\ main'[r] = i /\ row'[r] = x
      BY <1>7, <2>2 DEF Followed
    <2> QED
      BY <1>1, <1>2, <1>3, <1>4, <1>6, <2>1, <2>3, <2>4 DEF Planning, First
  <1>8. CASE row[r].table = "users" /\ Followed(r, "role", Row("user_roles", i, "", ""), First(r, i))
    <2>1. PICK x : x = Row("user_roles", i, "", "")
      OBVIOUS
    <2>2. x.table # "tenants"
      BY <2>1 DEF Row
    <2>3. pc'[r] = "role" /\ main'[r] = First(r, i) /\ row'[r] = x
      BY <1>8, <2>1 DEF Followed
    <2> QED
      BY <1>1, <1>3, <1>4, <1>6, <2>2, <2>3 DEF Planning
  <1>9. CASE Announced(r, First(r, i))
    <2>1. pc'[r] = "ready"
      BY <1>9 DEF Announced
    <2> QED
      BY <1>1, <1>3, <2>1 DEF Planning
  <1> QED
    BY <1>7, <1>8, <1>9 DEF Inserted

LEMMA PlanningStep ==
  ASSUME Typed, NEW f, Fits(f), NEW r \in Requests, Step(r), Planning(r)
  PROVE  Planning(r)'
  <1>1. ASSUME NEW o \in Operations, Begun(r, o) PROVE Planning(r)'
    <2>1. pc[r] = "idle" /\ pc'[r] = "look" /\ main'[r] = main[r] /\ draft'[r] = draft[r]
      BY <1>1 DEF Begun
    <2>2. DOMAIN draft[r] = {}
      BY <2>1, FreshFact
    <2> QED
      BY <2>1, <2>2 DEF Planning
  <1>2. CASE Ended(r)
    BY <1>2 DEF Ended, Closed, Planning
  <1>3. CASE Advanced(r)
    <2>1. /\ pc'[r] = "look" /\ main'[r] = None
          /\ op'[r] \in dto[r] \ {op[r]}
      BY <1>3 DEF Advanced, Typed, TypeOK, RequestOK
    <2>2. op'[r].table \in Granting
      BY <2>1 DEF Typed, LoopInv, Granting
    <2> QED
      BY <2>1, <2>2 DEF Planning
  <1>4. CASE Saved(r) /\ Planned(r, "insert", id[r], row[r]) /\ id[r] \notin Visible(r)
    <2>1. op[r].do # "update" /\ op[r].table \in Granting
      BY <1>4, SavedGone DEF Saved
    <2> QED
      BY <1>4, <2>1 DEF Saved, Planned, Stays, Planning
  <1>5. CASE Saved(r) /\ ~(Planned(r, "insert", id[r], row[r]) /\ id[r] \notin Visible(r))
    BY <1>5 DEF Saved, Planned, Announced, Stays, Planning
  <1>6. CASE Updated(r)
    <2>1. /\ pc[r] = "update" /\ pc'[r] = "ready" /\ op'[r] = op[r] /\ rows' = rows
          /\ draft'[r] = draft[r] \/ Wrote(r, id[r], row[r])
          /\ <<op[r].do, op[r].table>> \in Services /\ op[r].do \in {"update", "addOverride"}
      BY <1>6, OpFact DEF Updated, Announced, Stays, Typed, LoopInv
    <2>2. op[r].table \notin Granting => op[r].do = "update" /\ id[r] = op[r].id
      BY <2>1 DEF Services, Granting, Planning
    <2>3. DOMAIN draft'[r] \subseteq DOMAIN draft[r] \cup {id[r]}
      BY <2>1 DEF Wrote
    <2> QED
      BY <2>1, <2>2, <2>3 DEF Planning
  <1>7. CASE Deleted(r)
    <2>1. pc'[r] = "ready" /\ op'[r] = op[r] /\ op[r].table \in Granting
      BY <1>7 DEF Deleted, Announced, Stays, Fits, RequestFits, PlanFits
    <2> QED
      BY <2>1 DEF Planning
  <1>8. CASE RoleFound(r)
    <2>1. /\ pc[r] = "role" /\ main[r] # None /\ main'[r] = main[r] /\ op'[r] = op[r]
          /\ draft'[r] = draft[r] /\ rows' = rows /\ row[r] \in RowSet
      BY <1>8 DEF RoleFound, Planned, Announced, Stays, Typed, TypeOK, RequestOK, IsRow
    <2>2. ASSUME NEW key \in Text, NEW x, x = [row[r] EXCEPT !.key = key], Planned(r, "insert", None, x)
          PROVE  Planning(r)'
      <3>1. x.table = row[r].table
        BY <2>1, <2>2, KeyedRowFact
      <3> QED
        BY <2>1, <2>2, <3>1 DEF Planned, Planning
    <2>3. CASE Announced(r, main[r])
      BY <2>1, <2>3 DEF Announced, Planning
    <2> QED
      BY <1>8, <2>2, <2>3 DEF RoleFound
  <1> QED
    BY <1>1, <1>2, <1>3, <1>4, <1>5, <1>6, <1>7, <1>8, PlanningLooked, PlanningInserted DEF Step

\* What a request has found of its subject is there, as long as no other is about it.
LEMMA UnracedFact ==
  ASSUME PermissionsInv, NEW r \in Requests, pc[r] \in {"update", "delete"},
         op[r].table \in Granting, Topic(op[r]) \notin raced
  PROVE  id[r] \in Visible(r)
  <1>1. op[r] \in dto[r]
    BY OpFact DEF PermissionsInv
  <1>2. Topic(op[r]) = Fixed(op[r])
    BY <1>1, TopicFact DEF PermissionsInv
  <1>3. PICK k : k = Fixed(op[r])
    OBVIOUS
  <1>4. Given(k) /\ Concerns(r, k)
    BY <1>1, <1>2, <1>3, FixedFact DEF Given, Concerns
  <1> QED
    BY <1>3, <1>4 DEF PermissionsInv, Clear, ClearOf, Doing, Shows

\* An event is true when it is sent.
LEMMA ToldAtOnce ==
  ASSUME PermissionsInv, raced \subseteq raced', NEW r \in Requests, Planning(r),
         Saved(r) \/ Updated(r) \/ Deleted(r) \/ (\E i : Inserted(r, i)) \/ RoleFound(r),
         NEW m, Announced(r, m), NEW e, e = Event(r, m)
  PROVE  Told(r, e)' /\ (e.op.do = "update" => e.id = e.op.id)
  <1>1. /\ e.op = op[r] /\ e.id = m /\ dto'[r] = dto[r] /\ rows' = rows
        /\ pc'[r] = "ready" /\ main'[r] = m
    BY DEF Event, Announced, Stays
  <1>2. PICK f : Fits(f)
    BY DEF PermissionsInv
  <1>3. Typed /\ LoopInv(r)
    BY DEF PermissionsInv, Typed
  <1>4. ASSUME m \in DOMAIN draft'[r], draft'[r][m] = AsRow(op[r]), op[r].do \notin Removals
        PROVE  Told(r, e)'
    BY <1>1, <1>4 DEF Told, Known, Sees
  <1>5. CASE Saved(r)
    <2>1. /\ pc[r] = "save" /\ m = id[r] /\ id[r] \in Visible(r) /\ Sees(r, id[r]) = row[r]
          /\ draft'[r] = draft[r]
      BY <1>1, <1>5 DEF Saved, Planned, Announced
    <2>2. row[r] = AsRow(op[r]) /\ op[r].do \in {"update", "addOverride"}
      BY <1>3, <2>1 DEF Planning, LoopInv
    <2>3. Sees(r, m)' = AsRow(op[r]) /\ m \in Known(r)'
      BY <1>1, <2>1, <2>2 DEF Sees, Known, Visible
    <2> QED
      BY <1>1, <2>1, <2>2, <2>3 DEF Told, Removals, Planning
  <1>6. CASE Updated(r)
    <2>1. pc[r] = "update" /\ m = id[r] /\ op[r].do \in {"update", "addOverride"}
      BY <1>1, <1>3, <1>6 DEF Updated, Announced, LoopInv
    <2>2. row[r] = AsRow(op[r]) /\ (op[r].do = "update" => m = op[r].id)
      BY <2>1 DEF Planning
    <2>3. CASE Wrote(r, id[r], row[r])
      BY <1>1, <1>4, <2>1, <2>2, <2>3 DEF Wrote, Removals
    <2>4. CASE id[r] \notin Visible(r)
      <3>1. op[r].table \in Granting
        BY <1>2, <1>3, <2>1, <2>4, SavedGone
      <3>2. Topic(op[r]) \in raced
        BY <2>1, <2>4, <3>1, UnracedFact
      <3> QED
        BY <1>1, <2>2, <3>2 DEF Told
    <2> QED
      BY <1>6, <2>3, <2>4 DEF Updated
  <1>7. CASE Deleted(r)
    <2>1. pc[r] = "delete" /\ m = id[r] /\ op[r].do \in Removals /\ op[r].table \in Granting
      BY <1>1, <1>2, <1>7 DEF Deleted, Announced, Planning, Fits, RequestFits, PlanFits
    <2>2. op[r].do # "update"
      BY <2>1 DEF Removals
    <2>3. CASE Wrote(r, id[r], None)
      BY <1>1, <2>1, <2>2, <2>3 DEF Told, Known, Sees, Wrote
    <2>4. CASE id[r] \notin Visible(r)
      <3>1. Topic(op[r]) \in raced
        BY <2>1, <2>4, UnracedFact
      <3> QED
        BY <1>1, <2>2, <3>1 DEF Told
    <2> QED
      BY <1>7, <2>3, <2>4 DEF Deleted
  <1>8. ASSUME NEW i, Inserted(r, i) PROVE Told(r, e)' /\ op[r].do # "update"
    <2>1. /\ pc[r] = "insert" /\ op[r].do \notin Removals /\ op[r].do # "update"
          /\ Wrote(r, i, row[r]) /\ op[r] \in Request
      BY <1>3, <1>8, OpFact DEF Inserted, LoopInv, Planning
    <2>2. m = First(r, i)
      BY <1>1, <1>8 DEF Inserted, Followed, Announced
    <2>3. CASE main[r] = None
      BY <1>4, <2>1, <2>2, <2>3 DEF First, Planning, Wrote
    <2>4. CASE main[r] # None
      <3>1. PICK z : z = AsRow(op[r])
        OBVIOUS
      <3>2. z # None /\ main[r] \in DOMAIN draft[r] /\ draft[r][main[r]] = z
        BY <2>1, <2>4, <3>1, AsRowFact DEF Planning
      <3>3. main[r] # i
        BY <1>8, <3>2 DEF Inserted, Visible, Sees
      <3> QED
        BY <1>4, <2>1, <2>2, <2>4, <3>1, <3>2, <3>3 DEF First, Wrote
    <2> QED
      BY <2>1, <2>3, <2>4
  <1>9. CASE RoleFound(r)
    <2>1. /\ pc[r] = "role" /\ main[r] # None /\ m = main[r] /\ draft'[r] = draft[r]
          /\ op[r].do \notin Removals /\ op[r].do # "update"
      BY <1>1, <1>3, <1>9 DEF RoleFound, Planned, Announced, Typed, TypeOK, RequestOK, LoopInv, Planning
    <2> QED
      BY <1>1, <1>4, <2>1 DEF Planning
  <1> QED
    BY <1>1, <1>5, <1>6, <1>7, <1>8, <1>9

\* It stays true while its request goes on, unless the request undoes it.
LEMMA ToldStays ==
  ASSUME PermissionsInv, raced \subseteq raced', NEW r \in Requests, Step(r), pc'[r] # "idle",
         Planning(r), Sending(r), NEW e \in sent[r]
  PROVE  Told(r, e)'
  <1>1. PICK f : Fits(f)
    BY DEF PermissionsInv
  <1>2. /\ Typed /\ LoopInv(r) /\ e.op \in dto[r] /\ e.op \in Request /\ e.id \in Ids /\ Told(r, e)
    BY DEF PermissionsInv, Typed, TypeOK, RequestOK, Sending
  <1>3. ~ Ended(r) /\ rows' = rows
    BY RowsFact DEF Ended, Closed
  <1>4. ~ \E o \in Operations : Begun(r, o)
    BY DEF Begun, Sending
  <1>5. dto'[r] = dto[r]
    BY <1>3, <1>4 DEF Step, Advanced, Looked, Saved, Updated, Deleted, Inserted, RoleFound,
                      Planned, Announced, Followed, Stays
  <1>6. ASSUME Known(r) \subseteq Known(r)', DOMAIN draft[r] \subseteq DOMAIN draft'[r],
               Sees(r, e.id)' = Sees(r, e.id)
        PROVE  Told(r, e)'
    BY <1>2, <1>5, <1>6 DEF Told
  <1>7. CASE draft'[r] = draft[r]
    BY <1>3, <1>6, <1>7 DEF Known, Sees
  <1>8. CASE Advanced(r) \/ Looked(r) \/ Saved(r) \/ RoleFound(r)
    BY <1>7, <1>8 DEF Advanced, Looked, Saved, RoleFound, Planned
  <1>9. ASSUME NEW i, NEW x, Wrote(r, i, x), e.id # i PROVE Told(r, e)'
    <2>1. DOMAIN draft[r] \subseteq DOMAIN draft'[r] /\ Known(r) \subseteq Known(r)'
      BY <1>3, <1>9 DEF Wrote, Known
    <2>2. Sees(r, e.id)' = Sees(r, e.id)
      BY <1>3, <1>9 DEF Wrote, Sees
    <2> QED
      BY <1>6, <2>1, <2>2
  <1>10. ASSUME pc[r] # "ready"
         PROVE  op[r].table = "role_permissions" /\ e.op.table = "role_permissions"
    BY <1>2, <1>10 DEF Sending, LoopInv
  <1>11. CASE Updated(r)
    <2>1. pc[r] = "update" /\ <<op[r].do, op[r].table>> \in Services
      BY <1>2, <1>11, OpFact DEF Updated
    <2>2. op[r].do \in {"update", "addOverride"} /\ op[r].table = "role_permissions"
      BY <1>2, <1>10, <2>1 DEF LoopInv
    <2> QED
      BY <2>1, <2>2 DEF Services
  <1>12. ASSUME NEW i, Inserted(r, i) PROVE Told(r, e)'
    <2>1. pc[r] = "insert" /\ Wrote(r, i, row[r]) /\ <<op[r].do, op[r].table>> \in Services
      BY <1>2, <1>12, OpFact DEF Inserted
    <2>2. id[r] = None
      <3>1. SUFFICES ASSUME id[r] # None PROVE FALSE
        OBVIOUS
      <3>2. op[r].do \in {"update", "addOverride"} /\ op[r].table = "role_permissions"
        BY <1>2, <1>10, <2>1, <3>1 DEF LoopInv
      <3> QED
        BY <2>1, <3>2 DEF Services
    <2>3. e.id # i
      <3>1. nextId \in Nat /\ e.id \in 1 .. nextId - 1 /\ i = nextId
        BY <1>2, <1>12, <2>2 DEF Inserted, Typed, TypeOK, Ids
      <3> QED
        BY <3>1
    <2> QED
      BY <1>9, <2>1, <2>3
  <1>13. CASE Deleted(r)
    <2>1. /\ pc[r] = "delete" /\ op[r].do \in Removals /\ op[r] \in dto[r]
          /\ op[r].table = "role_permissions" /\ e.op.table = "role_permissions"
          /\ <<op[r].do, op[r].table>> \in Services
      BY <1>2, <1>10, <1>13, OpFact DEF Deleted, Planning
    <2>2. op[r].do = "removePermission"
      BY <2>1 DEF Services, Removals
    <2>3. CASE e.id = id[r] /\ Wrote(r, id[r], None)
      <3>1. CASE Topic(e.op) \in raced \/ \E o \in dto[r] : Undoes(o, e)
        BY <1>5, <3>1 DEF Told
      <3>2. CASE e.op.do \in Removals
        BY <1>5, <2>3, <3>2 DEF Told, Known, Sees, Wrote
      <3>3. CASE e.op.do \notin Removals /\ e.id \in Known(r) /\ Sees(r, e.id) = AsRow(e.op)
        <4>1. e.op.do = "addPermission"
          <5>1. <<e.op.do, e.op.table>> \in Services
            BY <1>2, ServiceFact
          <5> QED
            BY <2>1, <3>3, <5>1 DEF Services, Removals
        <4>2. PICK z : z = AsRow(e.op)
          OBVIOUS
        <4>3. z # None /\ Fixed(z) = Fixed(e.op)
          BY <1>2, <4>2, AsRowFact
        <4>4. f[e.id] = Fixed(e.op)
          <5>1. e.id \in Visible(r) /\ Sees(r, e.id) = z
            BY <3>3, <4>2, <4>3 DEF Known, Visible
          <5> QED
            BY <1>1, <4>3, <5>1, SeenFact
        <4>5. f[id[r]] = Fixed(op[r])
          BY <1>1, <2>1 DEF Fits, RequestFits, PlanFits, Here
        <4>6. About(op[r]) = About(e.op)
          <5>1. op[r].table \in Granting /\ e.op.table \in Granting
            BY <2>1 DEF Granting
          <5> QED
            BY <2>3, <4>4, <4>5, <5>1, FixedFact
        <4>7. Undoes(op[r], e)
          BY <2>2, <4>1, <4>6 DEF Undoes
        <4> QED
          BY <1>5, <2>1, <4>7 DEF Told
      <3> QED
        BY <1>2, <3>1, <3>2, <3>3 DEF Told
    <2>4. CASE e.id # id[r] /\ Wrote(r, id[r], None)
      BY <1>9, <2>4
    <2> QED
      BY <1>7, <1>13, <2>3, <2>4 DEF Deleted
  <1> QED
    BY <1>3, <1>4, <1>8, <1>11, <1>12, <1>13 DEF Step

\* It stays true whatever another commits, which has raced if it touches the row.
LEMMA ToldAside ==
  ASSUME PermissionsInv, raced \subseteq raced', NEW r \in Requests, Step(r),
         NEW q \in Requests \ {r}, Planning(r), Sending(q), NEW e \in sent[q]
  PROVE  Told(q, e)'
  <1>1. PICK f : Fits(f)
    BY DEF PermissionsInv
  <1>2. /\ Typed /\ Alone /\ e.op \in dto[q] /\ e.op \in Request /\ Told(q, e)
    BY DEF PermissionsInv, Typed, TypeOK, RequestOK, Sending
  <1>3. dto'[q] = dto[q] /\ draft'[q] = draft[q] /\ Known(q) \subseteq Known(q)'
    BY RowsFact DEF Aside, Known
  <1>4. CASE Topic(e.op) \in raced \/ \E o \in dto[q] : Undoes(o, e)
    BY <1>3, <1>4 DEF Told
  <1>5. ASSUME e.id \in Known(q), Sees(q, e.id)' = Sees(q, e.id) PROVE Told(q, e)'
    BY <1>2, <1>3, <1>5 DEF Told
  <1>6. CASE e.id \in DOMAIN draft[q]
    BY <1>3, <1>5, <1>6 DEF Known, Sees
  <1>7. CASE e.id \in Known(q) /\ e.id \notin DOMAIN draft[q] /\ e.id \notin DOMAIN draft[r]
    <2>1. e.id \in DOMAIN rows /\ rows'[e.id] = rows[e.id]
      BY <1>7, RowsFact DEF Known
    <2> QED
      BY <1>3, <1>5, <1>7, <2>1 DEF Sees
  <1>8. CASE /\ e.id \in Known(q) /\ e.id \notin DOMAIN draft[q] /\ e.id \in DOMAIN draft[r]
             /\ e.op.do \in {"update", "addOverride"} /\ Sees(q, e.id) = AsRow(e.op)
    <2>1. PICK z : z = AsRow(e.op)
      OBVIOUS
    <2>2. z # None /\ Fixed(z) = Fixed(e.op)
      BY <1>2, <2>1, AsRowFact
    <2>3. f[e.id] = Fixed(e.op) /\ f[e.id][1] = e.op.table
      <3>1. e.id \in Visible(q) /\ Sees(q, e.id) = z
        BY <1>8, <2>1, <2>2 DEF Known, Visible
      <3> QED
        BY <1>1, <2>2, <3>1, SeenFact, FixedFact
    <2>4. <<e.op.do, e.op.table>> \in Services /\ e.id \in DOMAIN rows
      BY <1>2, <1>8, ServiceFact DEF Known
    <2>5. ASSUME op[r].table \in Granting PROVE Topic(e.op) \in raced
      <3>1. PICK o \in dto[r] : f[e.id] = Fixed(o)
        BY <1>1, <1>8, <2>5 DEF Fits, RequestFits, DraftFits
      <3>2. o.table \in Granting /\ e.op.table = o.table
        <4>1. o = op[r] \/ o.table = "role_permissions"
          BY <1>2 DEF Typed, LoopInv
        <4> QED
          BY <2>3, <2>5, <3>1, <4>1, FixedFact DEF Granting
      <3>3. Topic(e.op) = Topic(o) /\ Topic(e.op) \in Topics(q) /\ Topic(o) \in Topics(r)
        BY <1>2, <2>3, <3>1, <3>2, TopicFact
      <3> QED
        BY <1>2, <3>3 DEF Alone
    <2>6. ASSUME op[r].table \notin Granting PROVE Topic(e.op) \in raced
      <3>1. pc[r] # "idle"
        BY <1>2, <1>8, FreshFact
      <3>2. op[r].do = "update" /\ op[r].id = e.id /\ op[r] \in dto[r]
        BY <1>2, <1>8, <2>4, <2>6, <3>1, OpFact DEF Planning
      <3>3. op[r].table = e.op.table
        <4>1. f[e.id] = Fixed(op[r])
          BY <1>1, <3>1, <3>2 DEF Fits, RequestFits, PlanFits, Here, ById
        <4> QED
          BY <2>3, <4>1, FixedFact
      <3>4. e.op.do = "update" /\ e.id = e.op.id
        <4>1. e.op.do # "addOverride"
          BY <2>4, <2>6, <3>3 DEF Services, Granting
        <4> QED
          BY <1>8, <4>1 DEF Sending
      <3>5. Topic(e.op) = Topic(op[r])
        BY <3>2, <3>3, <3>4 DEF Topic
      <3>6. Topic(e.op) \in Topics(q) /\ Topic(op[r]) \in Topics(r)
        BY <1>2, <3>2 DEF Topics
      <3> QED
        BY <1>2, <3>5, <3>6 DEF Alone
    <2> QED
      BY <1>4, <2>5, <2>6
  <1> QED
    BY <1>2, <1>4, <1>6, <1>7, <1>8 DEF Told, Removals

\* What a step adds to the events of its request.
LEMMA SentFact ==
  ASSUME NEW r \in Requests, Step(r)
  PROVE  \/ sent'[r] = sent[r] \/ sent'[r] = {}
         \/ /\ Saved(r) \/ Updated(r) \/ Deleted(r) \/ (\E i : Inserted(r, i)) \/ RoleFound(r)
            /\ \E m : Announced(r, m) /\ sent'[r] = sent[r] \cup {Event(r, m)}
  <1>1. \A m : Announced(r, m) => sent'[r] = sent[r] \cup {Event(r, m)}
    BY DEF Announced
  <1>2. CASE (\E o \in Operations : Begun(r, o)) \/ Ended(r) \/ Advanced(r) \/ Looked(r)
    BY <1>2 DEF Begun, Ended, Closed, Advanced, Looked, Planned
  <1>3. CASE Saved(r)
    BY <1>1, <1>3 DEF Saved, Planned
  <1>4. CASE Updated(r) \/ Deleted(r)
    BY <1>1, <1>4 DEF Updated, Deleted
  <1>5. ASSUME NEW i, Inserted(r, i)
        PROVE  sent'[r] = sent[r] \/ \E m : Announced(r, m) /\ sent'[r] = sent[r] \cup {Event(r, m)}
    BY <1>1, <1>5 DEF Inserted, Followed
  <1>6. CASE RoleFound(r)
    BY <1>1, <1>6 DEF RoleFound, Planned
  <1> QED
    BY <1>2, <1>3, <1>4, <1>5, <1>6 DEF Step

LEMMA SendingStep ==
  ASSUME PermissionsInv, raced \subseteq raced', NEW r \in Requests, Step(r), Planning(r), Sending(r)
  PROVE  Sending(r)'
  <1>1. /\ pc'[r] = "idle" => sent'[r] = {}
        /\ pc[r] = "idle" => sent[r] = {}
    <2>1. pc'[r] = "idle" => Ended(r)
      BY DEF Step, Begun, Advanced, Looked, Saved, Updated, Deleted, Inserted, RoleFound,
             Planned, Announced, Followed
    <2> QED
      BY <2>1 DEF Ended, Closed, Sending
  <1>2. CASE sent'[r] = {}
    BY <1>2 DEF Sending
  <1>3. CASE sent'[r] # {}
    <2>1. pc'[r] # "idle"
      BY <1>1, <1>3
    <2>2. ASSUME NEW e \in sent[r]
          PROVE  Told(r, e)' /\ (e.op.do = "update" => e.id = e.op.id)
      BY <2>1, ToldStays DEF Sending
    <2>3. ASSUME NEW m, Announced(r, m), sent'[r] = sent[r] \cup {Event(r, m)},
                 Saved(r) \/ Updated(r) \/ Deleted(r) \/ (\E i : Inserted(r, i)) \/ RoleFound(r)
          PROVE  Sending(r)'
      <3>1. pc'[r] = "ready"
        BY <2>3 DEF Announced
      <3>2. PICK e : e = Event(r, m)
        OBVIOUS
      <3>3. Told(r, e)' /\ (e.op.do = "update" => e.id = e.op.id)
        BY <2>3, <3>2, ToldAtOnce
      <3> QED
        BY <2>2, <2>3, <3>1, <3>2, <3>3 DEF Sending
    <2>4. CASE sent'[r] = sent[r]
      <3>1. pc'[r] = "ready" \/ op'[r].table = "role_permissions"
        <4>1. CASE pc[r] = "ready"
          <5>1. CASE Advanced(r)
            <6>1. op'[r] \in dto[r] \ {op[r]}
              BY <5>1 DEF Advanced, PermissionsInv, Typed, TypeOK, RequestOK
            <6> QED
              BY <6>1 DEF PermissionsInv, Typed, LoopInv
          <5>2. CASE ~ Advanced(r)
            BY <2>1, <4>1, <5>2 DEF Step, Begun, Ended, Closed, Looked, Saved, Updated, Deleted, Inserted,
                                    RoleFound
          <5> QED
            BY <5>1, <5>2
        <4>2. CASE pc[r] # "ready"
          <5>1. op[r].table = "role_permissions" /\ pc[r] # "idle"
            BY <1>3, <2>4, <4>2 DEF Sending
          <5>2. op'[r] = op[r]
            BY <2>1, <4>2, <5>1 DEF Step, Begun, Ended, Closed, Advanced, Looked, Saved, Updated, Deleted,
                                    Inserted, RoleFound, Planned, Announced, Followed, Stays
          <5> QED
            BY <5>1, <5>2
        <4> QED
          BY <4>1, <4>2
      <3> QED
        BY <2>1, <2>2, <2>4, <3>1 DEF Sending
    <2> QED
      BY <1>3, <2>3, <2>4, SentFact
  <1> QED
    BY <1>2, <1>3

LEMMA SendingAside ==
  ASSUME PermissionsInv, raced \subseteq raced', NEW r \in Requests, Step(r), Planning(r),
         NEW q \in Requests \ {r}, Sending(q)
  PROVE  Sending(q)'
  <1>1. /\ pc'[q] = pc[q] /\ op'[q] = op[q] /\ sent'[q] = sent[q]
    BY RowsFact DEF Aside
  <1>2. \A e \in sent[q] : Told(q, e)'
    BY ToldAside
  <1> QED
    BY <1>1, <1>2 DEF Sending

LEMMA InitEvents == GInit => EventsInv
  <1> SUFFICES ASSUME GInit PROVE EventsInv
    OBVIOUS
  <1>1. \A r \in Requests : pc[r] = "idle" /\ main[r] = None /\ sent[r] = {}
    BY DEF GInit, Init
  <1> QED
    BY <1>1, InitPermissions DEF EventsInv, Planning, Sending

LEMMA StepEvents == EventsInv /\ [GNext]_<<vars, raced>> => EventsInv'
  <1>1. ASSUME EventsInv, GNext PROVE EventsInv'
    <2>1. PermissionsInv /\ PermissionsInv' /\ raced \subseteq raced'
      BY <1>1, StepPermissions, RacedFact DEF EventsInv
    <2>2. PICK r \in Requests : Step(r)
      BY <1>1, <2>1, StepFact DEF GNext, PermissionsInv
    <2>3. PICK f : Fits(f)
      BY <2>1 DEF PermissionsInv
    <2>4. Planning(r)' /\ Sending(r)'
      BY <1>1, <2>1, <2>2, <2>3, PlanningStep, SendingStep DEF EventsInv, PermissionsInv
    <2>5. ASSUME NEW q \in Requests \ {r} PROVE Planning(q)' /\ Sending(q)'
      BY <1>1, <2>1, <2>2, PlanningAside, SendingAside DEF EventsInv, PermissionsInv
    <2> QED
      BY <2>1, <2>4, <2>5 DEF EventsInv
  <1>2. ASSUME EventsInv, UNCHANGED <<vars, raced>> PROVE EventsInv'
    <2>1. PermissionsInv'
      BY <1>2, StepPermissions DEF EventsInv
    <2>2. UNCHANGED <<rows, draft, pc, op, dto, row, id, main, sent, raced>>
      BY <1>2 DEF vars, requestVars
    <2>3. ASSUME NEW q \in Requests PROVE Planning(q)' /\ Sending(q)'
      <3>1. Planning(q) /\ Sending(q)
        BY <1>2 DEF EventsInv
      <3>2. Planning(q)'
        BY <2>2, <3>1 DEF Planning
      <3>3. \A e : Told(q, e) => Told(q, e)'
        BY <2>2 DEF Told, Known, Sees
      <3>4. Sending(q)'
        BY <2>2, <3>1, <3>3 DEF Sending
      <3> QED
        BY <3>2, <3>4
    <2> QED
      BY <2>1, <2>3 DEF EventsInv
  <1> QED
    BY <1>1, <1>2

\* What the events of a request say is so of the rows that its commit leaves, unless
\* another request about it overlapped or the request undid it; who is refused has
\* announced nothing, unless he changes several permissions of a role.
THEOREM EventsAreTrue == GSpec => EventsTrue
  <1> DEFINE AsSaid == \A r \in Requests :
               /\ Commit(r) => \A e \in sent[r] :
                     Topic(e.op) \in raced \/ True(e)' \/ \E o \in dto[r] : Undoes(o, e)
               /\ pc'[r] = "idle" /\ sent[r] # {} => pc[r] = "ready" \/ op[r].table = "role_permissions"
  <1>1. ASSUME EventsInv, [GNext]_<<vars, raced>> PROVE AsSaid
    <2>1. ASSUME NEW r \in Requests, Commit(r), NEW e \in sent[r],
                 Topic(e.op) \notin raced, ~ \E o \in dto[r] : Undoes(o, e)
          PROVE  True(e)'
      <3>1. e.id \in Known(r) /\ Sees(r, e.id) = IF e.op.do \in Removals THEN None ELSE AsRow(e.op)
        BY <1>1, <2>1 DEF EventsInv, Sending, Told
      <3>2. rows' = Over(draft[r], rows)
        BY <2>1 DEF Commit
      <3>3. rows'[e.id] = Sees(r, e.id)
        BY <3>1, <3>2 DEF Over, Known, Sees
      <3> QED
        BY <3>1, <3>3 DEF True
    <2>2. ASSUME NEW r \in Requests, sent[r] # {}
          PROVE  pc[r] = "ready" \/ op[r].table = "role_permissions"
      BY <1>1, <2>2 DEF EventsInv, Sending
    <2> QED
      BY <2>1, <2>2
  <1> QED
    BY <1>1, InitEvents, StepEvents, PTL DEF GSpec, EventsTrue

-----------------------------------------------------------------------------
(* Names, slugs and e-mails *)

Apart(x, y) == Keys(x) \cap Keys(y) = {}

\* The unique indexes, for the committed rows, for what a transaction sees, and
\* for what two transactions have written.
RowsApart         == \A i \in DOMAIN rows : \A j \in DOMAIN rows \ {i} : Apart(rows[i], rows[j])
SeenApart(r)      == \A i \in Known(r) : \A j \in Known(r) \ {i} : Apart(Sees(r, i), Sees(r, j))
DraftsApart(r, q) == \A i \in DOMAIN draft[r], j \in DOMAIN draft[q] : Apart(draft[r][i], draft[q][j])

KeysInv == RowsApart /\ \A r \in Requests : SeenApart(r) /\ \A q \in Requests \ {r} : DraftsApart(r, q)

LEMMA ApartFact ==
  ASSUME NEW x, NEW y
  PROVE  /\ Apart(x, y) <=> Apart(y, x)
         /\ Apart(x, None)
  <1>1. Keys(None) = {}
    BY DEF Keys
  <1> QED
    BY <1>1 DEF Apart

\* A write waits for the transactions that hold one of its keys, and fails if the
\* key is taken in what its own transaction sees.
LEMMA KeysWritten ==
  ASSUME Typed, KeysInv, NEW r \in Requests, NEW i, NEW x, Wrote(r, i, x),
         x = None \/ (~Waits(r, x) /\ ~Taken(r, i, x)), rows' = rows, Aside(r)
  PROVE  KeysInv'
  <1>1. \A q \in Requests \ {r} : draft'[q] = draft[q]
    BY DEF Aside
  <1>2. /\ Known(r)' = Known(r) \cup {i} /\ Sees(r, i)' = x
        /\ \A j \in Known(r) \ {i} : Sees(r, j)' = Sees(r, j)
    BY DEF Known, Sees, Wrote
  <1>3. \A j \in Known(r) \ {i} : Apart(x, Sees(r, j)) /\ Apart(Sees(r, j), x)
    <2> SUFFICES ASSUME NEW j \in Known(r) \ {i} PROVE Apart(x, Sees(r, j))
      BY ApartFact
    <2>1. CASE x = None \/ Sees(r, j) = None
      BY <2>1, ApartFact
    <2>2. CASE x # None /\ Sees(r, j) # None
      <3>1. j \in Visible(r) \ {i}
        BY <2>2 DEF Known, Visible
      <3>2. Apart(Sees(r, j), x)
        BY <2>2, <3>1 DEF Taken, Apart
      <3> QED
        BY <3>2, ApartFact
    <2> QED
      BY <2>1, <2>2
  <1>4. \A q \in Requests \ {r} : \A j \in DOMAIN draft[q] : Apart(x, draft[q][j]) /\ Apart(draft[q][j], x)
    <2> SUFFICES ASSUME NEW q \in Requests \ {r}, NEW j \in DOMAIN draft[q] PROVE Apart(x, draft[q][j])
      BY ApartFact
    <2>1. CASE x = None
      BY <2>1, ApartFact
    <2>2. CASE x # None
      <3>1. pc[q] # "idle"
        <4>1. DOMAIN <<>> = {} /\ RequestOK(q)
          BY DEF Typed, TypeOK
        <4> QED
          BY <4>1 DEF RequestOK
      <3>2. (Keys(draft[q][j]) \cup Keys(Before(j))) \cap Keys(x) = {}
        BY <2>2, <3>1 DEF Waits, Others
      <3> QED
        BY <3>2 DEF Apart
    <2> QED
      BY <2>1, <2>2
  <1>5. SeenApart(r)'
    BY <1>2, <1>3 DEF KeysInv, SeenApart
  <1>6. ASSUME NEW q \in Requests \ {r}
        PROVE  SeenApart(q)' /\ DraftsApart(r, q)' /\ DraftsApart(q, r)'
    <2>1. Known(q)' = Known(q) /\ \A j : Sees(q, j)' = Sees(q, j)
      BY <1>1 DEF Known, Sees
    <2>2. DraftsApart(r, q)'
      BY <1>1, <1>4 DEF KeysInv, DraftsApart, Wrote
    <2>3. DraftsApart(q, r)'
      BY <2>2, ApartFact DEF DraftsApart
    <2> QED
      BY <2>1, <2>2, <2>3 DEF KeysInv, SeenApart
  <1>7. ASSUME NEW p \in Requests \ {r}, NEW q \in Requests \ {p, r}
        PROVE  DraftsApart(p, q)'
    BY <1>1 DEF KeysInv, DraftsApart
  <1>8. RowsApart'
    BY DEF KeysInv, RowsApart
  <1> QED
    BY <1>5, <1>6, <1>7, <1>8 DEF KeysInv

\* A commit makes rows of what was apart from all the others.
LEMMA KeysEnded ==
  ASSUME Typed, KeysInv, NEW r \in Requests, Ended(r)
  PROVE  KeysInv'
  <1>1. /\ \A q \in Requests \ {r} : draft'[q] = draft[q]
        /\ draft'[r] = <<>> /\ DOMAIN draft'[r] = {}
    <2>1. DOMAIN <<>> = {}
      OBVIOUS
    <2> QED
      BY <2>1 DEF Ended, Closed, Aside
  <1>2. RowsApart' /\ \A q \in Requests \ {r} : SeenApart(q)'
    <2>1. CASE rows' = rows
      <3>1. \A q \in Requests \ {r} : Known(q)' = Known(q) /\ \A j : Sees(q, j)' = Sees(q, j)
        BY <1>1, <2>1 DEF Known, Sees
      <3> QED
        BY <2>1, <3>1 DEF KeysInv, RowsApart, SeenApart
    <2>2. CASE rows' = Over(draft[r], rows)
      <3>1. /\ DOMAIN rows' = Known(r) /\ \A i \in Known(r) : rows'[i] = Sees(r, i)
            /\ \A i \in DOMAIN rows' : \/ i \in DOMAIN draft[r] /\ rows'[i] = draft[r][i]
                                       \/ i \in DOMAIN rows \ DOMAIN draft[r] /\ rows'[i] = rows[i]
        BY <2>2 DEF Over, Known, Sees
      <3>2. RowsApart'
        BY <3>1 DEF KeysInv, RowsApart, SeenApart
      <3>3. ASSUME NEW q \in Requests \ {r}, NEW i \in Known(q)', NEW j \in Known(q)', i # j
            PROVE  Apart(Sees(q, i)', Sees(q, j)')
        <4>1. /\ \A k \in DOMAIN draft[q] : Sees(q, k)' = draft[q][k] /\ Sees(q, k) = draft[q][k]
              /\ \A k \in Known(q)' \ DOMAIN draft[q] : k \in DOMAIN rows' /\ Sees(q, k)' = rows'[k]
              /\ \A k \in DOMAIN rows \ DOMAIN draft[q] : Sees(q, k) = rows[k]
          BY <1>1 DEF Known, Sees
        <4>2. ASSUME NEW k \in DOMAIN draft[q], NEW l \in Known(q)' \ DOMAIN draft[q]
              PROVE  Apart(Sees(q, k)', Sees(q, l)')
          <5>1. CASE l \in DOMAIN draft[r] /\ rows'[l] = draft[r][l]
            BY <4>1, <5>1 DEF KeysInv, DraftsApart
          <5>2. CASE l \in DOMAIN rows /\ rows'[l] = rows[l]
            <6>1. k \in Known(q) /\ l \in Known(q) /\ k # l
              BY <5>2 DEF Known
            <6>2. Apart(Sees(q, k), Sees(q, l))
              BY <6>1 DEF KeysInv, SeenApart
            <6> QED
              BY <4>1, <5>2, <6>2
          <5> QED
            BY <3>1, <4>1, <5>1, <5>2
        <4>3. CASE i \in DOMAIN draft[q] /\ j \in DOMAIN draft[q]
          BY <3>3, <4>1, <4>3 DEF KeysInv, SeenApart, Known
        <4>4. CASE i \notin DOMAIN draft[q] /\ j \notin DOMAIN draft[q]
          BY <3>2, <3>3, <4>1, <4>4 DEF RowsApart
        <4>5. CASE i \in DOMAIN draft[q] /\ j \notin DOMAIN draft[q]
          BY <4>2, <4>5
        <4>6. CASE i \notin DOMAIN draft[q] /\ j \in DOMAIN draft[q]
          BY <4>2, <4>6, ApartFact
        <4> QED
          BY <4>3, <4>4, <4>5, <4>6
      <3>4. \A q \in Requests \ {r} : SeenApart(q)'
        BY <3>3 DEF SeenApart
      <3> QED
        BY <3>2, <3>4
    <2> QED
      BY <2>1, <2>2 DEF Ended
  <1>3. SeenApart(r)'
    <2>1. Known(r)' = DOMAIN rows' /\ \A i : Sees(r, i)' = rows'[i]
      BY <1>1 DEF Known, Sees
    <2> QED
      BY <1>2, <2>1 DEF SeenApart, RowsApart
  <1>4. ASSUME NEW p \in Requests, NEW q \in Requests \ {p} PROVE DraftsApart(p, q)'
    <2>1. CASE p = r \/ q = r
      BY <1>1, <2>1 DEF DraftsApart
    <2>2. CASE p # r /\ q # r
      BY <1>1, <2>2 DEF KeysInv, DraftsApart
    <2> QED
      BY <2>1, <2>2
  <1> QED
    BY <1>2, <1>3, <1>4 DEF KeysInv

LEMMA KeysStep ==
  ASSUME Typed, KeysInv, NEW r \in Requests, Step(r)
  PROVE  KeysInv'
  <1>1. ASSUME rows' = rows, draft'[r] = draft[r], Aside(r) PROVE KeysInv'
    <2>1. \A q \in Requests : /\ draft'[q] = draft[q] /\ Known(q)' = Known(q)
                              /\ \A j : Sees(q, j)' = Sees(q, j)
      BY <1>1 DEF Aside, Known, Sees
    <2> QED
      BY <1>1, <2>1 DEF KeysInv, RowsApart, SeenApart, DraftsApart
  <1>2. CASE \/ \E o \in Operations : Begun(r, o)
             \/ Advanced(r) \/ Looked(r) \/ Saved(r) \/ RoleFound(r)
    BY <1>1, <1>2 DEF Begun, Advanced, Looked, Saved, RoleFound, Planned, Announced
  <1>3. CASE Updated(r) \/ Deleted(r)
    BY <1>1, <1>3, KeysWritten DEF Updated, Deleted, Announced
  <1>4. ASSUME NEW i, Inserted(r, i) PROVE KeysInv'
    BY <1>4, KeysWritten DEF Inserted, Announced, Followed
  <1> QED
    BY <1>2, <1>3, <1>4, KeysEnded DEF Step

LEMMA InitKeys == GInit => KeysInv
  <1> SUFFICES ASSUME GInit PROVE KeysInv
    OBVIOUS
  <1>1. RowsApart
    BY StoredAssumption DEF GInit, Init, RowsApart, Apart
  <1>2. \A r \in Requests : draft[r] = <<>> /\ DOMAIN draft[r] = {}
    BY DEF GInit, Init
  <1>3. \A r \in Requests : Known(r) = DOMAIN rows /\ \A i : Sees(r, i) = rows[i]
    BY <1>2 DEF Known, Sees
  <1> QED
    BY <1>1, <1>2, <1>3 DEF KeysInv, SeenApart, DraftsApart, RowsApart

\* Tenants differ in name and slug, and the users of a tenant in e-mail.
NamesApart ==
    /\ \A i, j \in In("tenants") :
          i # j => rows[i].key # rows[j].key /\ rows[i].val # rows[j].val
    /\ \A i, j \in In("users") : i # j => rows[i].of # rows[j].of \/ rows[i].key # rows[j].key

LEMMA NamesFact == KeysInv => NamesApart
  <1> SUFFICES ASSUME KeysInv PROVE NamesApart
    OBVIOUS
  <1>1. \A table : \A i, j \in In(table) : i # j => Keys(rows[i]) \cap Keys(rows[j]) = {}
    BY DEF KeysInv, RowsApart, Apart, In
  <1>2. ASSUME NEW i \in In("tenants")
        PROVE  <<"slug", 0, rows[i].key>> \in Keys(rows[i]) /\ <<"name", 0, rows[i].val>> \in Keys(rows[i])
    BY DEF In, Stands, Keys, UniqueKeys
  <1>3. ASSUME NEW i \in In("users") PROVE <<"email", rows[i].of, rows[i].key>> \in Keys(rows[i])
    BY DEF In, Stands, Keys, UniqueKeys
  <1>4. ASSUME NEW i \in In("tenants"), NEW j \in In("tenants"), i # j
        PROVE  rows[i].key # rows[j].key /\ rows[i].val # rows[j].val
    <2>1. Keys(rows[i]) \cap Keys(rows[j]) = {}
      BY <1>1, <1>4
    <2>2. rows[i].key # rows[j].key
      BY <1>2, <2>1
    <2>3. rows[i].val # rows[j].val
      BY <1>2, <2>1
    <2> QED
      BY <2>2, <2>3
  <1>5. ASSUME NEW i \in In("users"), NEW j \in In("users"), i # j
        PROVE  rows[i].of # rows[j].of \/ rows[i].key # rows[j].key
    <2>1. Keys(rows[i]) \cap Keys(rows[j]) = {}
      BY <1>1, <1>5
    <2> QED
      BY <1>3, <2>1
  <1> QED
    BY <1>4, <1>5 DEF NamesApart

-----------------------------------------------------------------------------
(* All or nothing *)

\* What a transaction has written to a table, and what of it is new.
Drafted(r, table) == {i \in DOMAIN draft[r] : draft[r][i] # None /\ draft[r][i].table = table}
Fresh(r, table)   == Drafted(r, table) \ DOMAIN rows

\* The tenants that are there for r, and the user it is about to give a role.
Tenants(r)  == In("tenants") \cup Drafted(r, "tenants")
Gives(r, u) == pc[r] \in {"role", "insert"} /\ row[r].table = "user_roles" /\ row[r].of = u
HasRole(r, u)  == \E a \in Drafted(r, "user_roles") : draft[r][a].of = u
IsAdmin(r, u) == \E a \in Drafted(r, "user_roles") : draft[r][a].of = u /\ draft[r][a].key = "Tenant Admin"

\* A new tenant still gets its administrator or has him, who still gets his role
\* or has it; so does a new user.
TenantsStage(r) == \A t \in Fresh(r, "tenants") :
    /\ op[r].do = "createTenant"
    /\ \/ pc[r] = "insert" /\ row[r].table = "users" /\ row[r].of = t
       \/ \E u \in Drafted(r, "users") :
             draft[r][u].of = t /\ (Seeded("Tenant Admin") => Gives(r, u) \/ IsAdmin(r, u))

UsersStage(r) == \A u \in Fresh(r, "users") :
    /\ draft[r][u].of \in Tenants(r)
    /\ Seeded("Employee") /\ Seeded("Tenant Admin") => Gives(r, u) \/ HasRole(r, u)

RolesStage(r) ==
    /\ \A a \in Fresh(r, "user_roles") : draft[r][a].of \in Drafted(r, "users")
    /\ \A i \in Drafted(r, "roles") : draft[r][i].of # 0

OpStage(r) ==
    /\ op[r].do = "createRole" => op[r].of # 0
    /\ op[r].do = "createUser" => op[r].of \in In("tenants")

Lasting == {"tenants", "users", "user_roles"}

\* The row that comes next, by the service.
RowStage(r) ==
    /\ pc[r] \in {"insert", "save", "update"} /\ row[r].table = "roles" => row[r].of # 0
    /\ pc[r] = "insert" /\ row[r].table = "users" => row[r].of \in Tenants(r)
    /\ pc[r] \in {"insert", "role"} /\ row[r].table = "user_roles" => row[r].of \in Drafted(r, "users")
    /\ pc[r] = "insert" /\ row[r].table = "user_roles" /\ op[r].do = "createTenant" =>
          row[r].key = "Tenant Admin"
    /\ pc[r] = "role" => row[r].table = "user_roles" /\ op[r].do \in {"createTenant", "createUser"}
    /\ pc[r] = "insert" =>
          /\ row[r].table = "tenants" => op[r].do = "createTenant"
          /\ row[r].table \in {"users", "user_roles"} => op[r].do \in {"createTenant", "createUser"}
          /\ op[r].do \in {"createTenant", "createUser"} => row[r].table \in Lasting
    /\ pc[r] \in {"save", "update"} => op[r].do \in {"update", "addOverride"}

Stage(r) == pc[r] # "idle" =>
    TenantsStage(r) /\ UsersStage(r) /\ RolesStage(r) /\ OpStage(r) /\ RowStage(r)

\* The tenants of users that are to be created stay.
Ten == \A o \in Operations : o.do = "createUser" => o.of \in In("tenants")

MadeTenants == \A t \in Made("tenants") : \E u \in In("users") :
    /\ rows[u].of = t
    /\ Seeded("Tenant Admin") =>
          \E a \in In("user_roles") : rows[a].of = u /\ rows[a].key = "Tenant Admin"
MadeUsers == \A u \in Made("users") :
    /\ rows[u].of \in In("tenants")
    /\ Seeded("Employee") /\ Seeded("Tenant Admin") => \E a \in In("user_roles") : rows[a].of = u
MadeRoles == \A a \in Made("user_roles") : rows[a].of \in In("users")

ProvisionInv ==
    /\ Typed /\ (\E f : Fits(f)) /\ KeysInv /\ Ten
    /\ \A r \in Requests : Stage(r)
    /\ MadeTenants /\ MadeUsers /\ MadeRoles

\* Rows of these tables stay, and keep what they belong to; so do the roles they give.
LEMMA LastingFact ==
  ASSUME NEW f, Fits(f), NEW r \in Requests, Step(r), NEW i \in DOMAIN rows
  PROVE  /\ i \in DOMAIN rows'
         /\ rows[i] # None /\ rows[i].table \notin Granting =>
               rows'[i] # None /\ Fixed(rows'[i]) = Fixed(rows[i])
         /\ rows'[i] # None /\ rows'[i].table \notin Granting =>
               rows[i] # None /\ Fixed(rows'[i]) = Fixed(rows[i])
  <1>1. RowsFit(f) /\ RowsFit(f)' /\ i \in DOMAIN rows'
    BY RowsFitStep DEF Fits
  <1>2. /\ rows[i] = None => f[i][1] \in Granting
        /\ rows[i] # None => f[i] = Fixed(rows[i]) /\ f[i][1] = rows[i].table
        /\ rows'[i] = None => f[i][1] \in Granting
        /\ rows'[i] # None => f[i] = Fixed(rows'[i]) /\ f[i][1] = rows'[i].table
    BY <1>1, FixedFact DEF RowsFit, Fit
  <1> QED
    BY <1>1, <1>2

LEMMA FixedParts ==
  ASSUME NEW x, NEW y, Fixed(x) = Fixed(y)
  PROVE  x.table = y.table /\ x.of = y.of /\ (x.table = "user_roles" => x.key = y.key)
  BY DEF Fixed

LEMMA StaysFact ==
  ASSUME NEW f, Fits(f), NEW r \in Requests, Step(r), NEW table \in Lasting
  PROVE  /\ \A i \in In(table) : /\ i \in In(table)' /\ rows'[i].of = rows[i].of
                                 /\ table = "user_roles" => rows'[i].key = rows[i].key
         /\ \A i \in In(table)' : i \in DOMAIN rows => i \in In(table)
         /\ \A i \in In(table)' : i \notin DOMAIN rows =>
               /\ rows' = Over(draft[r], rows) /\ pc[r] = "ready"
               /\ i \in Fresh(r, table) /\ rows'[i] = draft[r][i]
  <1>1. table \notin Granting
    BY DEF Lasting, Granting
  <1>2. ASSUME NEW i \in In(table)
        PROVE  /\ i \in In(table)' /\ rows'[i].of = rows[i].of
               /\ table = "user_roles" => rows'[i].key = rows[i].key
    <2>1. i \in DOMAIN rows' /\ rows'[i] # None /\ Fixed(rows'[i]) = Fixed(rows[i])
      BY <1>1, LastingFact DEF In, Stands
    <2> QED
      BY <2>1, FixedParts DEF In, Stands
  <1>3. ASSUME NEW i \in In(table)', i \in DOMAIN rows PROVE i \in In(table)
    <2>1. rows[i] # None /\ Fixed(rows'[i]) = Fixed(rows[i])
      BY <1>1, <1>3, LastingFact DEF In, Stands
    <2> QED
      BY <1>3, <2>1, FixedParts DEF In, Stands
  <1>4. ASSUME NEW i \in In(table)', i \notin DOMAIN rows
        PROVE  /\ rows' = Over(draft[r], rows) /\ pc[r] = "ready"
               /\ i \in Fresh(r, table) /\ rows'[i] = draft[r][i]
    BY <1>4, RowsFact DEF In, Stands, Fresh, Drafted
  <1> QED
    BY <1>2, <1>3, <1>4

\* The roles of the system are never made, nor renamed into one another.
LEMMA SeededFact ==
  ASSUME NEW r \in Requests, Step(r), RolesStage(r), NEW name
  PROVE  Seeded(name)' => Seeded(name)
  <1> SUFFICES ASSUME Seeded(name)' PROVE Seeded(name)
    OBVIOUS
  <1>1. PICK i \in DOMAIN rows' : rows'[i] # None /\ rows'[i] = Row("roles", 0, name, "")
    BY DEF Seeded, In, Stands
  <1>2. rows'[i].table = "roles" /\ rows'[i].of = 0
    <2>1. PICK x : x = Row("roles", 0, name, "")
      OBVIOUS
    <2>2. x.table = "roles" /\ x.of = 0
      BY <2>1 DEF Row
    <2> QED
      BY <1>1, <2>1, <2>2
  <1>3. i \in DOMAIN rows /\ rows'[i] = rows[i]
    BY <1>1, <1>2, RowsFact DEF RolesStage, Drafted
  <1> QED
    BY <1>1, <1>2, <1>3 DEF Seeded, In, Stands

LEMMA SeededStep ==
  ASSUME Typed, NEW r \in Requests, Step(r), Stage(r), NEW name
  PROVE  Seeded(name)' => Seeded(name)
  <1>1. CASE pc[r] = "idle"
    <2>1. DOMAIN draft[r] = {}
      BY <1>1, FreshFact
    <2>2. RolesStage(r)
      BY <2>1 DEF RolesStage, Fresh, Drafted
    <2> QED
      BY <2>2, SeededFact
  <1>2. CASE pc[r] # "idle"
    BY <1>2, SeededFact DEF Stage
  <1> QED
    BY <1>1, <1>2

LEMMA StageAside ==
  ASSUME Typed, NEW f, Fits(f), NEW r \in Requests, Step(r), Stage(r), NEW q \in Requests \ {r}, Stage(q)
  PROVE  Stage(q)'
  <1>1. /\ pc'[q] = pc[q] /\ op'[q] = op[q] /\ row'[q] = row[q] /\ draft'[q] = draft[q]
    BY RowsFact DEF Aside
  <1>2. \A table : Drafted(q, table)' = Drafted(q, table)
    BY <1>1 DEF Drafted
  <1>3. \A table : Fresh(q, table)' = Fresh(q, table)
    <2>1. DOMAIN draft[r] \cap DOMAIN draft[q] = {}
      BY DEF Typed, TypeOK
    <2>2. DOMAIN rows \subseteq DOMAIN rows' /\ DOMAIN rows' \subseteq DOMAIN rows \cup DOMAIN draft[r]
      BY RowsFact
    <2> QED
      BY <1>2, <2>1, <2>2 DEF Fresh, Drafted
  <1>4. In("tenants") \subseteq In("tenants")' /\ Tenants(q) \subseteq Tenants(q)'
    <2>1. In("tenants") \subseteq In("tenants")'
      BY StaysFact DEF Lasting
    <2> QED
      BY <1>2, <2>1 DEF Tenants
  <1>5. ASSUME NEW u
        PROVE  /\ Gives(q, u) => Gives(q, u)'
               /\ HasRole(q, u) => HasRole(q, u)'
               /\ IsAdmin(q, u) => IsAdmin(q, u)'
    <2>1. Drafted(q, "user_roles")' = Drafted(q, "user_roles")
      BY <1>2
    <2>2. Gives(q, u) => Gives(q, u)'
      BY <1>1 DEF Gives
    <2>3. HasRole(q, u) => HasRole(q, u)'
      BY <1>1, <2>1 DEF HasRole
    <2>4. IsAdmin(q, u) => IsAdmin(q, u)'
      BY <1>1, <2>1 DEF IsAdmin
    <2> QED
      BY <2>2, <2>3, <2>4
  <1>6. \A name : Seeded(name)' => Seeded(name)
    BY SeededStep
  <1>7. CASE pc[q] = "idle"
    BY <1>1, <1>7 DEF Stage
  <1>8. CASE pc[q] # "idle"
    <2>1. TenantsStage(q)'
      <3>1. /\ TenantsStage(q)
            /\ Drafted(q, "users")' = Drafted(q, "users") /\ Fresh(q, "tenants")' = Fresh(q, "tenants")
        BY <1>2, <1>3, <1>8 DEF Stage
      <3> QED
        BY <1>1, <1>5, <1>6, <3>1 DEF TenantsStage
    <2>2. UsersStage(q)'
      BY <1>1, <1>3, <1>4, <1>5, <1>6, <1>8 DEF Stage, UsersStage
    <2>3. RolesStage(q)'
      BY <1>1, <1>2, <1>3, <1>8 DEF Stage, RolesStage
    <2>4. OpStage(q)'
      BY <1>1, <1>4, <1>8 DEF Stage, OpStage
    <2>5. RowStage(q)'
      BY <1>1, <1>2, <1>4, <1>8 DEF Stage, RowStage
    <2> QED
      BY <2>1, <2>2, <2>3, <2>4, <2>5 DEF Stage
  <1> QED
    BY <1>7, <1>8

\* A request that has written nothing, or permissions, has written no other row.
LEMMA PlainFact ==
  ASSUME Typed, NEW f, Fits(f), NEW r \in Requests,
         pc[r] \notin {"insert", "role", "ready"} \/ op[r].table \in Granting,
         NEW table, table \notin Granting
  PROVE  Drafted(r, table) = {}
  <1>1. CASE op[r].table \in Granting
    <2>1. SUFFICES ASSUME NEW i \in Drafted(r, table) PROVE FALSE
      OBVIOUS
    <2>2. i \in DOMAIN draft[r] /\ f[i] = Fixed(draft[r][i]) /\ draft[r][i].table = table
      BY DEF Drafted, Fits, RequestFits, DraftFits, Fit
    <2>3. PICK o \in dto[r] : f[i] = Fixed(o)
      BY <1>1, <2>2 DEF Fits, RequestFits, DraftFits
    <2>4. o.table = table
      <3>1. Fixed(o) = Fixed(draft[r][i])
        BY <2>2, <2>3
      <3> QED
        BY <2>2, <3>1, FixedParts
    <2>5. o = op[r] \/ o.table = "role_permissions"
      BY DEF Typed, LoopInv
    <2> QED
      BY <1>1, <2>4, <2>5 DEF Granting
  <1>2. CASE op[r].table \notin Granting
    <2>1. op[r].table # "role_permissions"
      BY <1>2 DEF Granting
    <2> QED
      BY <1>2, <2>1, FreshFact DEF Drafted
  <1> QED
    BY <1>1, <1>2

Plain == Lasting \cup {"roles"}

LEMMA PlainTables == \A table \in Plain : table \notin Granting
  BY DEF Plain, Lasting, Granting

\* As long as a request has written no such row, only what it plans matters.
LEMMA StageEmpty ==
  ASSUME NEW r \in Requests, \A table \in Plain : Drafted(r, table)' = {}, OpStage(r)', RowStage(r)'
  PROVE  Stage(r)'
  <1>1. \A table \in Plain : Drafted(r, table)' = {} /\ Fresh(r, table)' = {}
    BY DEF Fresh
  <1>2. /\ Fresh(r, "tenants")' = {} /\ Fresh(r, "users")' = {} /\ Fresh(r, "user_roles")' = {}
        /\ Drafted(r, "roles")' = {}
    <2>1. "tenants" \in Plain /\ "users" \in Plain /\ "user_roles" \in Plain /\ "roles" \in Plain
      BY DEF Plain, Lasting
    <2> QED
      BY <1>1, <2>1
  <1> QED
    BY <1>2 DEF Stage, TenantsStage, UsersStage, RolesStage

LEMMA StageBegun ==
  ASSUME Typed, Ten, NEW r \in Requests, NEW o \in Operations, Begun(r, o), op'[r] \in Request
  PROVE  Stage(r)'
  <1>1. pc'[r] = "look" /\ DOMAIN draft'[r] = {} /\ rows' = rows
    BY FreshFact DEF Begun
  <1>2. op'[r].do \in {"createRole", "createUser"} => op'[r] = o
    BY DEF Begun, ById
  <1>3. OpStage(r)'
    <2>1. In("tenants")' = In("tenants")
      BY <1>1 DEF In, Stands
    <2> QED
      BY <1>2, <2>1, OperationsAssumption DEF OpStage, Ten
  <1>4. RowStage(r)'
    BY <1>1 DEF RowStage
  <1>5. \A table : Drafted(r, table)' = {}
    BY <1>1 DEF Drafted
  <1> QED
    BY <1>3, <1>4, <1>5, StageEmpty

LEMMA StageAdvanced ==
  ASSUME Typed, NEW f, Fits(f), NEW r \in Requests, Advanced(r)
  PROVE  Stage(r)'
  <1>1. pc'[r] = "look" /\ draft'[r] = draft[r]
    BY DEF Advanced
  <1>2. /\ op[r].table = "role_permissions" /\ op'[r].table = "role_permissions"
        /\ <<op'[r].do, op'[r].table>> \in Services
    <2>1. /\ pc[r] = "ready" /\ op'[r] \in left[r]
          /\ op[r] \in dto[r] \ left[r] /\ left[r] \subseteq dto[r]
      BY DEF Advanced, Typed, TypeOK, RequestOK
    <2>2. op'[r] \in dto[r] \ {op[r]} /\ op'[r] \in Request
      BY <2>1 DEF Typed, TypeOK, RequestOK
    <2> QED
      BY <2>2, ServiceFact DEF Typed, LoopInv
  <1>3. \A table \in Plain : Drafted(r, table)' = {}
    <2>1. \A table : Drafted(r, table)' = Drafted(r, table)
      BY <1>1 DEF Drafted
    <2>2. op[r].table \in Granting
      BY <1>2 DEF Granting
    <2> QED
      BY <2>1, <2>2, PlainFact, PlainTables
  <1>4. OpStage(r)'
    BY <1>2 DEF OpStage, Services
  <1>5. RowStage(r)'
    BY <1>1 DEF RowStage
  <1> QED
    BY <1>3, <1>4, <1>5, StageEmpty

LEMMA StageLooked ==
  ASSUME Typed, NEW f, Fits(f), NEW r \in Requests, Looked(r), Stage(r)
  PROVE  Stage(r)'
  <1>1. /\ pc[r] = "look" /\ \A table \in Plain : Drafted(r, table)' = {}
        /\ rows' = rows /\ op'[r] = op[r] /\ OpStage(r)
        /\ <<op[r].do, op[r].table>> \in Services
    <2>1. pc[r] = "look" /\ draft'[r] = draft[r] /\ rows' = rows /\ op'[r] = op[r]
      BY DEF Looked, Planned, Stays
    <2>2. \A table : Drafted(r, table)' = Drafted(r, table)
      BY <2>1 DEF Drafted
    <2>3. \A table \in Plain : Drafted(r, table)' = {}
      BY <2>1, <2>2, PlainFact, PlainTables
    <2> QED
      BY <2>1, <2>3, OpFact DEF Stage
  <1>2. In("tenants")' = In("tenants") /\ OpStage(r)'
    BY <1>1 DEF In, Stands, OpStage
  <1>3. Tenants(r)' = In("tenants")
    BY <1>1, <1>2 DEF Tenants, Plain, Lasting
  <1>4. /\ Subject(r).table = op[r].table /\ Subject(r).of = op[r].of
    BY <1>1, SubjectFact
  <1>5. CASE Planned(r, "ready", None, None) \/ \E i : Planned(r, "delete", i, None)
    <2>1. RowStage(r)'
      BY <1>5 DEF Planned, RowStage
    <2> QED
      BY <1>1, <1>2, <2>1, StageEmpty
  <1>6. CASE Planned(r, "insert", None, Subject(r)) /\ op[r].do \notin ById \cup Removals
    <2>1. /\ op[r].table = "roles" => op[r].do = "createRole"
          /\ op[r].table = "tenants" => op[r].do = "createTenant"
          /\ op[r].table = "users" => op[r].do = "createUser"
          /\ op[r].table # "user_roles"
          /\ op[r].do = "createTenant" => op[r].table = "tenants"
          /\ op[r].do = "createUser" => op[r].table = "users"
      BY <1>1, <1>6 DEF Services, ById
    <2>2. pc'[r] = "insert" /\ row'[r].table = op[r].table /\ row'[r].of = op[r].of
      BY <1>4, <1>6 DEF Planned
    <2>3. RowStage(r)'
      BY <1>1, <1>3, <2>1, <2>2 DEF RowStage, OpStage, Lasting
    <2> QED
      BY <1>1, <1>2, <2>3, StageEmpty
  <1>7. ASSUME op[r].do = "addOverride", NEW i, Planned(r, "save", i, Subject(r)) PROVE Stage(r)'
    <2>1. op[r].table = "overrides"
      BY <1>1, <1>7 DEF Services
    <2>2. pc'[r] = "save" /\ row'[r].table = "overrides"
      BY <1>4, <1>7, <2>1 DEF Planned
    <2>3. RowStage(r)'
      BY <1>1, <1>7, <2>2 DEF RowStage
    <2> QED
      BY <1>1, <1>2, <2>3, StageEmpty
  <1>8. ASSUME NEW x, op[r].do = "update", op[r].id \in Visible(r),
               op[r].table = "roles" => Sees(r, op[r].id).of # 0,
               x = [Sees(r, op[r].id) EXCEPT !.key = op[r].key, !.val = op[r].val],
               Planned(r, "save", op[r].id, x)
        PROVE  Stage(r)'
    <2>1. PICK y : y = Sees(r, op[r].id)
      OBVIOUS
    <2>2. y \in RowSet
      BY <1>8, <2>1, SeesFact
    <2>3. x.table = y.table /\ x.of = y.of
      BY <1>8, <2>1, <2>2 DEF RowSet
    <2>4. y.table = op[r].table
      <3>1. PlanFits(f, r) /\ f[op[r].id] = Fixed(y)
        BY <1>1, <1>8, <2>1, SeenFact DEF Fits, RequestFits
      <3>2. Fixed(y) = Fixed(op[r])
        BY <1>8, <3>1 DEF PlanFits, Here, ById
      <3> QED
        BY <3>2, FixedParts
    <2>5. pc'[r] = "save" /\ row'[r] = x
      BY <1>8 DEF Planned
    <2>6. RowStage(r)'
      BY <1>1, <1>8, <2>1, <2>3, <2>4, <2>5 DEF RowStage
    <2> QED
      BY <1>1, <1>2, <2>6, StageEmpty
  <1> QED
    BY <1>5, <1>6, <1>7, <1>8 DEF Looked

\* Updates and deletes write no new row, and save() inserts one that is gone only
\* where permissions are.
LEMMA StageWritten ==
  ASSUME Typed, NEW f, Fits(f), NEW r \in Requests, Saved(r) \/ Updated(r) \/ Deleted(r), Stage(r)
  PROVE  Stage(r)'
  <1>1. /\ pc[r] \in {"save", "update", "delete"}
        /\ rows' = rows /\ op'[r] = op[r] /\ OpStage(r) /\ RowStage(r)
        /\ PlanFits(f, r) /\ Here(f, r, id[r])
    BY DEF Saved, Updated, Deleted, Planned, Announced, Stays, Stage, Fits, RequestFits, PlanFits
  <1>10. \A table \in Plain : Drafted(r, table) = {}
    BY <1>1, PlainFact, PlainTables
  <1>11. ASSUME draft'[r] = draft[r], RowStage(r)' PROVE Stage(r)'
    <2>1. \A table : Drafted(r, table)' = Drafted(r, table)
      BY <1>11 DEF Drafted
    <2>2. OpStage(r)'
      BY <1>1 DEF In, Stands, OpStage
    <2> QED
      BY <1>10, <1>11, <2>1, <2>2, StageEmpty
  <1>2. OpStage(r)'
    BY <1>1 DEF In, Stands, OpStage
  <1>3. CASE pc'[r] = "ready" /\ draft'[r] = draft[r]
    <2>1. RowStage(r)'
      BY <1>3 DEF RowStage
    <2> QED
      BY <1>3, <1>11, <2>1
  <1>4. CASE pc[r] = "save" /\ id[r] \notin Visible(r) /\ Planned(r, "insert", id[r], row[r])
    <2>1. Fixed(row[r]) = Fixed(op[r]) /\ f[id[r]] = Fixed(op[r])
      BY <1>1, <1>4 DEF PlanFits, Here
    <2>2. id[r] \in Known(r)
      BY <1>1 DEF Here
    <2>3. row[r].table \in Granting
      BY <1>4, <2>1, <2>2, GoneFact, FixedFact
    <2>4. pc'[r] = "insert" /\ row'[r] = row[r] /\ draft'[r] = draft[r]
      BY <1>4 DEF Planned
    <2>5. RowStage(r)'
      BY <1>1, <1>4, <2>3, <2>4 DEF RowStage, Granting
    <2> QED
      BY <1>11, <2>4, <2>5
  <1>5. CASE pc[r] = "save" /\ Planned(r, "update", id[r], row[r])
    <2>1. pc'[r] = "update" /\ row'[r] = row[r] /\ draft'[r] = draft[r]
      BY <1>5 DEF Planned
    <2>2. RowStage(r)'
      BY <1>1, <1>5, <2>1 DEF RowStage
    <2> QED
      BY <1>11, <2>1, <2>2
  <1>6. CASE pc'[r] = "ready" /\ \/ pc[r] = "update" /\ Wrote(r, id[r], row[r])
                                 \/ Wrote(r, id[r], None)
    <2>1. ASSUME NEW table \in Plain, NEW j \in Drafted(r, table)'
          PROVE  j = id[r] /\ pc[r] = "update" /\ draft'[r][j] = row[r] /\ row[r].table = table
      <3>1. j \notin Drafted(r, table)
        BY <1>10
      <3> QED
        BY <1>6, <2>1, <3>1 DEF Wrote, Drafted
    <2>2. ASSUME NEW table \in Plain PROVE Fresh(r, table)' = {}
      <3>1. SUFFICES ASSUME NEW j \in Drafted(r, table)', j \notin DOMAIN rows PROVE FALSE
        BY <1>1 DEF Fresh
      <3>2. id[r] \in DOMAIN draft[r] /\ pc[r] = "update" /\ row[r].table = table
        BY <1>1, <2>1, <3>1 DEF Here, Known
      <3>3. op[r].table = "role_permissions"
        <4>1. DOMAIN <<>> = {}
          OBVIOUS
        <4> QED
          BY <3>2, <4>1 DEF Typed, TypeOK, RequestOK
      <3>4. table = "role_permissions"
        <4>1. Fixed(row[r]) = Fixed(op[r])
          BY <1>1, <3>2 DEF PlanFits
        <4> QED
          BY <3>2, <3>3, <4>1, FixedParts
      <3> QED
        BY <3>4, PlainTables DEF Granting
    <2>6. Fresh(r, "tenants")' = {} /\ Fresh(r, "users")' = {} /\ Fresh(r, "user_roles")' = {}
      <3>1. "tenants" \in Plain /\ "users" \in Plain /\ "user_roles" \in Plain
        BY DEF Plain, Lasting
      <3> QED
        BY <2>2, <3>1
    <2>3. ASSUME NEW i \in Drafted(r, "roles")' PROVE draft'[r][i].of # 0
      <3>1. pc[r] = "update" /\ draft'[r][i] = row[r] /\ row[r].table = "roles"
        <4>1. "roles" \in Plain
          BY DEF Plain
        <4> QED
          BY <2>1, <4>1
      <3> QED
        BY <1>1, <3>1 DEF RowStage
    <2>4. TenantsStage(r)' /\ UsersStage(r)' /\ RolesStage(r)'
      BY <2>3, <2>6 DEF TenantsStage, UsersStage, RolesStage
    <2>5. RowStage(r)'
      BY <1>6 DEF RowStage
    <2> QED
      BY <1>2, <2>4, <2>5 DEF Stage
  <1>7. CASE Saved(r)
    BY <1>3, <1>4, <1>5, <1>7 DEF Saved, Announced
  <1>8. CASE Updated(r)
    BY <1>3, <1>6, <1>8 DEF Updated, Announced
  <1>9. CASE Deleted(r)
    BY <1>3, <1>6, <1>9 DEF Deleted, Announced
  <1> QED
    BY <1>7, <1>8, <1>9

\* What an insert adds to the draft of its transaction.
LEMMA DraftedFact ==
  ASSUME NEW r \in Requests, NEW i, Inserted(r, i), row[r] # None, NEW table
  PROVE  /\ \A j \in Drafted(r, table) : j \in Drafted(r, table)' /\ draft'[r][j] = draft[r][j]
         /\ \A j \in Drafted(r, table)' : j \in Drafted(r, table) \/ (j = i /\ row[r].table = table)
         /\ row[r].table = table => i \in Drafted(r, table)'
         /\ draft'[r][i] = row[r]
  <1>1. Wrote(r, i, row[r]) /\ i \notin Visible(r)
    BY DEF Inserted
  <1>2. \A j \in Drafted(r, table) : j # i
    BY <1>1 DEF Drafted, Visible, Sees
  <1> QED
    BY <1>1, <1>2 DEF Wrote, Drafted

LEMMA StageInserted ==
  ASSUME Typed, NEW r \in Requests, NEW i, Inserted(r, i), Stage(r)
  PROVE  Stage(r)'
  <1>1. /\ pc[r] = "insert" /\ rows' = rows /\ op'[r] = op[r] /\ row[r] # None
        /\ TenantsStage(r) /\ UsersStage(r) /\ RolesStage(r) /\ OpStage(r) /\ RowStage(r)
    <2>1. IsRow(row[r])
      BY DEF Inserted, Typed, TypeOK, RequestOK
    <2> QED
      BY <2>1, ColumnsFact DEF Inserted, Announced, Followed, Stays, Stage
  <1>2. \A table : /\ \A j \in Drafted(r, table) : j \in Drafted(r, table)' /\ draft'[r][j] = draft[r][j]
                   /\ \A j \in Drafted(r, table)' : j \in Drafted(r, table) \/ (j = i /\ row[r].table = table)
                   /\ row[r].table = table => i \in Drafted(r, table)'
    BY <1>1, DraftedFact
  <1>3. draft'[r][i] = row[r]
    BY <1>1, DraftedFact
  <1>4. /\ In("tenants")' = In("tenants") /\ \A name : Seeded(name)' => Seeded(name)
    BY <1>1 DEF In, Stands, Seeded
  <1>5. Tenants(r) \subseteq Tenants(r)'
    BY <1>2, <1>4 DEF Tenants
  <1>6. ASSUME NEW u
        PROVE  (HasRole(r, u) => HasRole(r, u)') /\ (IsAdmin(r, u) => IsAdmin(r, u)')
    <2>1. \A j \in Drafted(r, "user_roles") : j \in Drafted(r, "user_roles")' /\ draft'[r][j] = draft[r][j]
      BY <1>2
    <2> QED
      BY <2>1 DEF HasRole, IsAdmin
  <1>7. /\ \A j \in Fresh(r, "tenants")' : j \in Fresh(r, "tenants") \/ (j = i /\ row[r].table = "tenants")
        /\ \A j \in Fresh(r, "users")' : j \in Fresh(r, "users") \/ (j = i /\ row[r].table = "users")
        /\ \A j \in Fresh(r, "user_roles")' :
              j \in Fresh(r, "user_roles") \/ (j = i /\ row[r].table = "user_roles")
    BY <1>1, <1>2 DEF Fresh
  <1>8. /\ \A j \in Drafted(r, "users") : j \in Drafted(r, "users")' /\ draft'[r][j] = draft[r][j]
        /\ \A j \in Fresh(r, "users") : draft'[r][j] = draft[r][j]
        /\ \A j \in Drafted(r, "user_roles") : draft'[r][j] = draft[r][j]
        /\ \A j \in Drafted(r, "roles") : draft'[r][j] = draft[r][j]
        /\ \A j \in Drafted(r, "roles")' : j \in Drafted(r, "roles") \/ (j = i /\ row[r].table = "roles")
    BY <1>2 DEF Fresh
  <1>9. OpStage(r)'
    BY <1>1, <1>4 DEF OpStage
  <1>10. RolesStage(r)'
    <2>1. ASSUME NEW a \in Fresh(r, "user_roles")' PROVE draft'[r][a].of \in Drafted(r, "users")'
      <3>1. CASE a \in Fresh(r, "user_roles")
        BY <1>1, <1>8, <3>1 DEF RolesStage, Fresh
      <3>2. CASE a = i /\ row[r].table = "user_roles"
        BY <1>1, <1>3, <1>8, <3>2 DEF RowStage
      <3> QED
        BY <1>7, <3>1, <3>2
    <2>2. ASSUME NEW j \in Drafted(r, "roles")' PROVE draft'[r][j].of # 0
      BY <1>1, <1>3, <1>8 DEF RolesStage, RowStage
    <2> QED
      BY <2>1, <2>2 DEF RolesStage
  <1>11. CASE row[r].table = "tenants" /\ Followed(r, "insert", Row("users", i, "admin", ""), i)
    <2>1. pc'[r] = "insert" /\ row'[r].table = "users" /\ row'[r].of = i
      <3>1. PICK x : x = Row("users", i, "admin", "")
        OBVIOUS
      <3>2. x.table = "users" /\ x.of = i
        BY <3>1 DEF Row
      <3> QED
        BY <1>11, <3>1, <3>2 DEF Followed
    <2>2. op[r].do = "createTenant" /\ i \in Tenants(r)'
      <3>1. i \in Drafted(r, "tenants")'
        BY <1>2, <1>11
      <3> QED
        BY <1>1, <1>11, <3>1 DEF RowStage, Tenants
    <2>3. \A u : ~ Gives(r, u)
      BY <1>11 DEF Gives
    <2>4. ASSUME NEW t \in Fresh(r, "tenants")'
          PROVE  /\ op'[r].do = "createTenant"
                 /\ \/ pc'[r] = "insert" /\ row'[r].table = "users" /\ row'[r].of = t
                    \/ \E u \in Drafted(r, "users")' :
                          draft'[r][u].of = t /\ (Seeded("Tenant Admin")' => Gives(r, u)' \/ IsAdmin(r, u)')
      <3>1. CASE t = i
        BY <1>1, <2>1, <2>2, <3>1
      <3>2. CASE t \in Fresh(r, "tenants")
        <4>1. PICK u \in Drafted(r, "users") :
                draft[r][u].of = t /\ (Seeded("Tenant Admin") => Gives(r, u) \/ IsAdmin(r, u))
          BY <1>1, <1>11, <3>2 DEF TenantsStage
        <4> QED
          BY <1>1, <1>4, <1>6, <1>8, <2>2, <2>3, <4>1
      <3> QED
        BY <1>7, <3>1, <3>2
    <2>5. UsersStage(r)'
      BY <1>1, <1>4, <1>5, <1>6, <1>7, <1>8, <1>11, <2>3 DEF UsersStage
    <2>6. RowStage(r)'
      BY <1>1, <2>1, <2>2 DEF RowStage, Lasting
    <2> QED
      BY <1>9, <1>10, <2>4, <2>5, <2>6 DEF Stage, TenantsStage
  <1>12. CASE row[r].table = "users" /\ Followed(r, "role", Row("user_roles", i, "", ""), First(r, i))
    <2>1. pc'[r] = "role" /\ row'[r].table = "user_roles" /\ row'[r].of = i
      <3>1. PICK x : x = Row("user_roles", i, "", "")
        OBVIOUS
      <3>2. x.table = "user_roles" /\ x.of = i
        BY <3>1 DEF Row
      <3> QED
        BY <1>12, <3>1, <3>2 DEF Followed
    <2>2. i \in Drafted(r, "users")' /\ row[r].of \in Tenants(r) /\ op[r].do \in {"createTenant", "createUser"}
      BY <1>1, <1>2, <1>12 DEF RowStage
    <2>3. Gives(r, i)' /\ \A u : ~ Gives(r, u)
      BY <1>12, <2>1 DEF Gives
    <2>4. ASSUME NEW t \in Fresh(r, "tenants")'
          PROVE  /\ op'[r].do = "createTenant"
                 /\ \E u \in Drafted(r, "users")' :
                          draft'[r][u].of = t /\ (Seeded("Tenant Admin")' => Gives(r, u)' \/ IsAdmin(r, u)')
      <3>1. t \in Fresh(r, "tenants")
        BY <1>7, <1>12
      <3>2. CASE row[r].of = t
        BY <1>1, <1>3, <2>2, <2>3, <3>1, <3>2 DEF TenantsStage
      <3>3. CASE row[r].of # t
        <4>1. PICK u \in Drafted(r, "users") :
                draft[r][u].of = t /\ (Seeded("Tenant Admin") => Gives(r, u) \/ IsAdmin(r, u))
          BY <1>1, <3>1, <3>3 DEF TenantsStage
        <4>2. op[r].do = "createTenant"
          BY <1>1, <3>1 DEF TenantsStage
        <4> QED
          BY <1>1, <1>4, <1>6, <1>8, <2>3, <4>1, <4>2
      <3> QED
        BY <3>2, <3>3
    <2>5. UsersStage(r)'
      <3>1. ASSUME NEW u \in Fresh(r, "users")'
            PROVE  /\ draft'[r][u].of \in Tenants(r)'
                   /\ Seeded("Employee")' /\ Seeded("Tenant Admin")' => Gives(r, u)' \/ HasRole(r, u)'
        <4>1. CASE u = i
          BY <1>3, <1>5, <2>2, <2>3, <4>1
        <4>2. CASE u \in Fresh(r, "users")
          BY <1>1, <1>4, <1>5, <1>6, <1>8, <2>3, <4>2 DEF UsersStage
        <4> QED
          BY <1>7, <4>1, <4>2
      <3> QED
        BY <3>1 DEF UsersStage
    <2>6. RowStage(r)'
      BY <1>1, <2>1, <2>2 DEF RowStage
    <2> QED
      BY <1>9, <1>10, <2>4, <2>5, <2>6 DEF Stage, TenantsStage
  <1>13. CASE row[r].table \notin {"tenants", "users"} /\ Announced(r, First(r, i))
    <2>1. pc'[r] = "ready"
      BY <1>13 DEF Announced
    <2>2. ASSUME NEW u, Gives(r, u)
          PROVE  HasRole(r, u)' /\ (op[r].do = "createTenant" => IsAdmin(r, u)')
      <3>1. row[r].table = "user_roles" /\ row[r].of = u
        BY <2>2 DEF Gives
      <3>2. i \in Drafted(r, "user_roles")' /\ draft'[r][i].of = u
        BY <1>2, <1>3, <3>1
      <3>3. op[r].do = "createTenant" => draft'[r][i].key = "Tenant Admin"
        BY <1>1, <1>3, <3>1 DEF RowStage
      <3> QED
        BY <3>2, <3>3 DEF HasRole, IsAdmin
    <2>3. ASSUME NEW t \in Fresh(r, "tenants")'
          PROVE  /\ op'[r].do = "createTenant"
                 /\ \E u \in Drafted(r, "users")' :
                          draft'[r][u].of = t /\ (Seeded("Tenant Admin")' => Gives(r, u)' \/ IsAdmin(r, u)')
      <3>1. t \in Fresh(r, "tenants")
        BY <1>7, <1>13
      <3>2. PICK u \in Drafted(r, "users") :
              draft[r][u].of = t /\ (Seeded("Tenant Admin") => Gives(r, u) \/ IsAdmin(r, u))
        BY <1>1, <1>13, <3>1 DEF TenantsStage
      <3>3. op[r].do = "createTenant"
        BY <1>1, <3>1 DEF TenantsStage
      <3> QED
        BY <1>1, <1>4, <1>6, <1>8, <2>2, <3>2, <3>3
    <2>4. UsersStage(r)'
      <3>1. ASSUME NEW u \in Fresh(r, "users")'
            PROVE  /\ draft'[r][u].of \in Tenants(r)'
                   /\ Seeded("Employee")' /\ Seeded("Tenant Admin")' => Gives(r, u)' \/ HasRole(r, u)'
        <4>1. u \in Fresh(r, "users")
          BY <1>7, <1>13
        <4> QED
          BY <1>1, <1>4, <1>5, <1>6, <1>8, <2>2, <4>1 DEF UsersStage
      <3> QED
        BY <3>1 DEF UsersStage
    <2>5. RowStage(r)'
      BY <2>1 DEF RowStage
    <2> QED
      BY <1>9, <1>10, <2>3, <2>4, <2>5 DEF Stage, TenantsStage
  <1> QED
    BY <1>11, <1>12, <1>13 DEF Inserted

\* A role is looked for in vain only where the system's has not been seeded.
LEMMA UnseededFact ==
  ASSUME NEW f, Fits(f), NEW r \in Requests, RolesStage(r), NEW name,
         \A i \in Visible(r) : Sees(r, i) # Row("roles", 0, name, "")
  PROVE  ~ Seeded(name)
  <1> SUFFICES ASSUME Seeded(name) PROVE FALSE
    OBVIOUS
  <1>1. PICK i \in DOMAIN rows : rows[i] # None /\ rows[i] = Row("roles", 0, name, "")
    BY DEF Seeded, In, Stands
  <1>2. rows[i].table = "roles" /\ rows[i].of = 0
    <2>1. PICK x : x = Row("roles", 0, name, "")
      OBVIOUS
    <2>2. x.table = "roles" /\ x.of = 0
      BY <2>1 DEF Row
    <2> QED
      BY <1>1, <2>1, <2>2
  <1>3. i \in DOMAIN draft[r]
    BY <1>1 DEF Visible, Sees
  <1>4. f[i] = Fixed(rows[i]) /\ f[i][1] = "roles"
    BY <1>1, <1>2, FixedFact DEF Fits, RowsFit, Fit
  <1>5. draft[r][i] # None /\ f[i] = Fixed(draft[r][i])
    <2>1. Fit(f, i, draft[r][i])
      BY <1>3 DEF Fits, RequestFits, DraftFits
    <2>2. f[i][1] \notin Granting
      BY <1>4 DEF Granting
    <2> QED
      BY <2>1, <2>2 DEF Fit
  <1>6. draft[r][i].table = "roles" /\ draft[r][i].of = 0
    BY <1>2, <1>4, <1>5, FixedParts
  <1> QED
    BY <1>3, <1>5, <1>6 DEF RolesStage, Drafted

LEMMA StageRoleFound ==
  ASSUME Typed, NEW f, Fits(f), NEW r \in Requests, RoleFound(r), Stage(r)
  PROVE  Stage(r)'
  <1>1. /\ pc[r] = "role" /\ rows' = rows /\ op'[r] = op[r] /\ draft'[r] = draft[r]
        /\ TenantsStage(r) /\ UsersStage(r) /\ RolesStage(r) /\ OpStage(r)
        /\ row[r].table = "user_roles" /\ row[r].of \in Drafted(r, "users")
        /\ op[r].do \in {"createTenant", "createUser"}
    BY DEF RoleFound, Planned, Announced, Stays, Stage, RowStage
  <1>2. row[r] \in RowSet
    BY <1>1 DEF Typed, TypeOK, RequestOK, IsRow
  <1>3. /\ \A table : Drafted(r, table)' = Drafted(r, table) /\ Fresh(r, table)' = Fresh(r, table)
        /\ In("tenants")' = In("tenants") /\ \A name : Seeded(name)' => Seeded(name)
    BY <1>1 DEF Drafted, Fresh, In, Stands, Seeded
  <1>4. /\ Drafted(r, "users")' = Drafted(r, "users") /\ Drafted(r, "roles")' = Drafted(r, "roles")
        /\ Fresh(r, "tenants")' = Fresh(r, "tenants") /\ Fresh(r, "users")' = Fresh(r, "users")
        /\ Fresh(r, "user_roles")' = Fresh(r, "user_roles") /\ Tenants(r)' = Tenants(r)
    BY <1>3 DEF Tenants
  <1>5. ASSUME NEW u
        PROVE  (HasRole(r, u) => HasRole(r, u)') /\ (IsAdmin(r, u) => IsAdmin(r, u)')
    BY <1>1, <1>3 DEF HasRole, IsAdmin
  <1>6. OpStage(r)' /\ RolesStage(r)'
    BY <1>1, <1>3, <1>4 DEF OpStage, RolesStage
  <1>7. ASSUME NEW key \in Text, op[r].do = "createTenant" => key = "Tenant Admin",
               NEW x, x = [row[r] EXCEPT !.key = key], Planned(r, "insert", None, x)
        PROVE  Stage(r)'
    <2>1. x.table = "user_roles" /\ x.of = row[r].of /\ x.key = key
      BY <1>1, <1>2, <1>7, KeyedRowFact
    <2>2. pc'[r] = "insert" /\ row'[r] = x
      BY <1>7 DEF Planned
    <2>3. \A u : Gives(r, u) => Gives(r, u)'
      BY <2>1, <2>2 DEF Gives
    <2>4. TenantsStage(r)'
      BY <1>1, <1>3, <1>4, <1>5, <2>3 DEF TenantsStage
    <2>5. UsersStage(r)'
      BY <1>1, <1>3, <1>4, <1>5, <2>3 DEF UsersStage
    <2>6. RowStage(r)'
      BY <1>1, <1>4, <1>7, <2>1, <2>2 DEF RowStage, Lasting
    <2> QED
      BY <1>6, <2>4, <2>5, <2>6 DEF Stage
  <1>8. CASE /\ \A i \in Visible(r) : Sees(r, i) # Row("roles", 0, Default(r), "")
             /\ Announced(r, main[r])
    <2>1. ~ Seeded(Default(r)) /\ pc'[r] = "ready"
      BY <1>1, <1>8, UnseededFact DEF Announced
    <2>2. ~ Seeded("Tenant Admin")' \/ ~ Seeded("Employee")'
      BY <1>3, <2>1 DEF Default
    <2>3. op[r].do = "createTenant" => ~ Seeded("Tenant Admin")'
      BY <1>3, <2>1 DEF Default
    <2>4. TenantsStage(r)'
      BY <1>1, <1>4, <2>3 DEF TenantsStage
    <2>5. UsersStage(r)'
      BY <1>1, <1>4, <2>2 DEF UsersStage
    <2>6. RowStage(r)'
      BY <2>1 DEF RowStage
    <2> QED
      BY <1>6, <2>4, <2>5, <2>6 DEF Stage
  <1> QED
    BY <1>7, <1>8 DEF RoleFound

LEMMA StageStep ==
  ASSUME Typed, NEW f, Fits(f), Ten, NEW r \in Requests, Step(r), \A q \in Requests : Stage(q)
  PROVE  \A q \in Requests : Stage(q)'
  <1>1. ASSUME Ended(r) PROVE Stage(r)'
    BY <1>1 DEF Ended, Closed, Stage
  <1>2. Stage(r)'
    BY <1>1, StageBegun, StageAdvanced, StageLooked, StageWritten, StageInserted, StageRoleFound DEF Step
  <1> QED
    BY <1>2, StageAside

\* What a commit makes of the draft.
LEMMA CommittedFact ==
  ASSUME NEW r \in Requests, rows' = Over(draft[r], rows), NEW table, NEW i \in Drafted(r, table)
  PROVE  i \in In(table)' /\ rows'[i] = draft[r][i]
  BY DEF Over, Drafted, In, Stands

\* What has been made since the start was there before the step, or is new.
LEMMA MadeFact ==
  ASSUME NEW f, Fits(f), NEW r \in Requests, Step(r), NEW table \in Lasting, NEW i \in Made(table)'
  PROVE  \/ i \in Made(table) /\ rows'[i].of = rows[i].of
         \/ /\ rows' = Over(draft[r], rows) /\ pc[r] = "ready"
            /\ i \in Fresh(r, table) /\ rows'[i] = draft[r][i]
  <1>1. i \in In(table)' /\ i \notin UNION {DOMAIN s : s \in Stored}
    BY DEF Made
  <1>2. CASE i \in DOMAIN rows
    <2>1. i \in In(table)
      BY <1>1, <1>2, StaysFact
    <2>2. rows'[i].of = rows[i].of
      BY <2>1, StaysFact
    <2> QED
      BY <1>1, <2>1, <2>2 DEF Made
  <1>3. CASE i \notin DOMAIN rows
    BY <1>1, <1>3, StaysFact
  <1> QED
    BY <1>2, <1>3

LEMMA MadeStep ==
  ASSUME Typed, NEW f, Fits(f), NEW r \in Requests, Step(r), Stage(r), MadeTenants, MadeUsers, MadeRoles
  PROVE  MadeTenants' /\ MadeUsers' /\ MadeRoles'
  <1>1. /\ \A i \in In("tenants") : i \in In("tenants")' /\ rows'[i].of = rows[i].of
        /\ \A i \in In("users") : i \in In("users")' /\ rows'[i].of = rows[i].of
        /\ \A i \in In("user_roles") :
              i \in In("user_roles")' /\ rows'[i].of = rows[i].of /\ rows'[i].key = rows[i].key
    <2>1. "tenants" \in Lasting /\ "users" \in Lasting /\ "user_roles" \in Lasting
      BY DEF Lasting
    <2>2. \A i \in In("tenants") : i \in In("tenants")' /\ rows'[i].of = rows[i].of
      BY <2>1, StaysFact
    <2>3. \A i \in In("users") : i \in In("users")' /\ rows'[i].of = rows[i].of
      BY <2>1, StaysFact
    <2>4. \A i \in In("user_roles") :
              i \in In("user_roles")' /\ rows'[i].of = rows[i].of /\ rows'[i].key = rows[i].key
      BY <2>1, StaysFact
    <2> QED
      BY <2>2, <2>3, <2>4
  <1>2. \A name : Seeded(name)' => Seeded(name)
    BY SeededStep
  <1>3. ASSUME pc[r] = "ready", rows' = Over(draft[r], rows)
        PROVE  /\ TenantsStage(r) /\ UsersStage(r) /\ RolesStage(r) /\ \A u : ~ Gives(r, u)
               /\ \A i \in Drafted(r, "tenants") : i \in In("tenants")' /\ rows'[i] = draft[r][i]
               /\ \A i \in Drafted(r, "users") : i \in In("users")' /\ rows'[i] = draft[r][i]
               /\ \A i \in Drafted(r, "user_roles") : i \in In("user_roles")' /\ rows'[i] = draft[r][i]
    <2>1. TenantsStage(r) /\ UsersStage(r) /\ RolesStage(r) /\ \A u : ~ Gives(r, u)
      BY <1>3 DEF Stage, Gives
    <2> QED
      BY <1>3, <2>1, CommittedFact
  <1>4. ASSUME NEW t \in Made("tenants")'
        PROVE  \E u \in In("users")' :
                  /\ rows'[u].of = t
                  /\ Seeded("Tenant Admin")' =>
                        \E a \in In("user_roles")' : rows'[a].of = u /\ rows'[a].key = "Tenant Admin"
    <2>1. CASE t \in Made("tenants")
      <3>1. PICK u \in In("users") :
              /\ rows[u].of = t
              /\ Seeded("Tenant Admin") =>
                    \E a \in In("user_roles") : rows[a].of = u /\ rows[a].key = "Tenant Admin"
        BY <2>1 DEF MadeTenants
      <3>2. Seeded("Tenant Admin")' =>
              \E a \in In("user_roles")' : rows'[a].of = u /\ rows'[a].key = "Tenant Admin"
        BY <1>1, <1>2, <3>1
      <3> QED
        BY <1>1, <3>1, <3>2
    <2>2. CASE pc[r] = "ready" /\ rows' = Over(draft[r], rows) /\ t \in Fresh(r, "tenants")
      <3>1. PICK u \in Drafted(r, "users") :
              draft[r][u].of = t /\ (Seeded("Tenant Admin") => Gives(r, u) \/ IsAdmin(r, u))
        BY <1>3, <2>2 DEF TenantsStage
      <3>2. Seeded("Tenant Admin")' => IsAdmin(r, u)
        BY <1>2, <1>3, <2>2, <3>1
      <3>3. IsAdmin(r, u) =>
              \E a \in In("user_roles")' : rows'[a].of = u /\ rows'[a].key = "Tenant Admin"
        BY <1>3, <2>2 DEF IsAdmin
      <3>4. u \in In("users")' /\ rows'[u].of = t
        BY <1>3, <2>2, <3>1
      <3> QED
        BY <3>2, <3>3, <3>4
    <2>3. "tenants" \in Lasting
      BY DEF Lasting
    <2> QED
      BY <2>1, <2>2, <2>3, MadeFact
  <1>5. ASSUME NEW u \in Made("users")'
        PROVE  /\ rows'[u].of \in In("tenants")'
               /\ Seeded("Employee")' /\ Seeded("Tenant Admin")' =>
                     \E a \in In("user_roles")' : rows'[a].of = u
    <2>1. CASE u \in Made("users") /\ rows'[u].of = rows[u].of
      BY <1>1, <1>2, <2>1 DEF MadeUsers
    <2>2. CASE /\ pc[r] = "ready" /\ rows' = Over(draft[r], rows)
               /\ u \in Fresh(r, "users") /\ rows'[u] = draft[r][u]
      <3>1. rows'[u].of \in In("tenants")'
        BY <1>1, <1>3, <2>2 DEF UsersStage, Tenants
      <3>2. Seeded("Employee")' /\ Seeded("Tenant Admin")' => HasRole(r, u)
        BY <1>2, <1>3, <2>2 DEF UsersStage
      <3>3. HasRole(r, u) => \E a \in In("user_roles")' : rows'[a].of = u
        BY <1>3, <2>2 DEF HasRole
      <3> QED
        BY <3>1, <3>2, <3>3
    <2>3. "users" \in Lasting
      BY DEF Lasting
    <2> QED
      BY <2>1, <2>2, <2>3, MadeFact
  <1>6. ASSUME NEW a \in Made("user_roles")' PROVE rows'[a].of \in In("users")'
    <2>1. CASE a \in Made("user_roles") /\ rows'[a].of = rows[a].of
      BY <1>1, <2>1 DEF MadeRoles
    <2>2. CASE /\ pc[r] = "ready" /\ rows' = Over(draft[r], rows)
               /\ a \in Fresh(r, "user_roles") /\ rows'[a] = draft[r][a]
      BY <1>3, <2>2 DEF RolesStage
    <2>3. "user_roles" \in Lasting
      BY DEF Lasting
    <2> QED
      BY <2>1, <2>2, <2>3, MadeFact
  <1> QED
    BY <1>4, <1>5, <1>6 DEF MadeTenants, MadeUsers, MadeRoles

LEMMA InitProvision == GInit => ProvisionInv
  <1> SUFFICES ASSUME GInit PROVE ProvisionInv
    OBVIOUS
  <1>1. rows \in Stored /\ \A r \in Requests : pc[r] = "idle"
    BY DEF GInit, Init
  <1>2. Ten
    <2> SUFFICES ASSUME NEW o \in Operations, o.do = "createUser" PROVE o.of \in In("tenants")
      BY DEF Ten
    <2>1. o.of \in DOMAIN rows /\ rows[o.of].table = "tenants"
      BY <1>1, OperationsAssumption
    <2>2. rows[o.of] # None
      BY <1>1, <2>1, StoredAssumption, DirectoryAssumption
    <2> QED
      BY <2>1, <2>2 DEF In, Stands
  <1>3. \A table : Made(table) = {}
    BY <1>1 DEF Made, In
  <1>4. MadeTenants /\ MadeUsers /\ MadeRoles
    <2>1. Made("tenants") = {} /\ Made("users") = {} /\ Made("user_roles") = {}
      BY <1>3
    <2> QED
      BY <2>1 DEF MadeTenants, MadeUsers, MadeRoles
  <1> QED
    BY <1>1, <1>2, <1>4, InitTyped, InitFits, InitKeys DEF ProvisionInv, Stage

LEMMA StepProvision == ProvisionInv /\ [GNext]_<<vars, raced>> => ProvisionInv'
  <1>1. ASSUME ProvisionInv, GNext PROVE ProvisionInv'
    <2>1. PICK r \in Requests : Step(r)
      BY <1>1, StepFact DEF GNext, ProvisionInv
    <2>2. PICK f : Fits(f)
      BY <1>1 DEF ProvisionInv
    <2>3. Typed' /\ (\E g : Fits(g)') /\ KeysInv'
      BY <1>1, <2>1, <2>2, TypedStep, FitsStep, KeysStep DEF ProvisionInv
    <2>4. Ten'
      <3>1. "tenants" \in Lasting
        BY DEF Lasting
      <3>2. In("tenants") \subseteq In("tenants")'
        BY <2>1, <2>2, <3>1, StaysFact
      <3> QED
        BY <1>1, <3>2 DEF ProvisionInv, Ten
    <2>5. \A q \in Requests : Stage(q)'
      BY <1>1, <2>1, <2>2, StageStep DEF ProvisionInv
    <2>6. MadeTenants' /\ MadeUsers' /\ MadeRoles'
      BY <1>1, <2>1, <2>2, MadeStep DEF ProvisionInv
    <2> QED
      BY <2>3, <2>4, <2>5, <2>6 DEF ProvisionInv
  <1>2. ASSUME ProvisionInv, UNCHANGED <<vars, raced>> PROVE ProvisionInv'
    <2>1. Typed'
      BY <1>2, StepTyped DEF ProvisionInv
    <2>2. UNCHANGED <<rows, draft, pc, op, dto, left, row, id>>
      BY <1>2 DEF vars, requestVars
    <2>3. ASSUME NEW f, Fits(f) PROVE Fits(f)'
      BY <2>2, <2>3 DEF Fits, RowsFit, RequestFits, DraftFits, PlanFits, Here, Known
    <2>4. KeysInv'
      BY <1>2, <2>2 DEF ProvisionInv, KeysInv, RowsApart, SeenApart, DraftsApart, Known, Sees
    <2>5. ASSUME NEW table
          PROVE  /\ In(table)' = In(table) /\ Made(table)' = Made(table)
                 /\ \A q \in Requests : Drafted(q, table)' = Drafted(q, table) /\ Fresh(q, table)' = Fresh(q, table)
      BY <2>2 DEF In, Stands, Made, Drafted, Fresh
    <2>6. \A name : Seeded(name)' => Seeded(name)
      BY <2>2 DEF Seeded, In, Stands
    <2>7. /\ In("tenants")' = In("tenants") /\ In("users")' = In("users")
          /\ In("user_roles")' = In("user_roles") /\ Made("tenants")' = Made("tenants")
          /\ Made("users")' = Made("users") /\ Made("user_roles")' = Made("user_roles")
      BY <2>5
    <2>8. Ten' /\ MadeTenants' /\ MadeUsers' /\ MadeRoles'
      <3>1. Ten /\ MadeTenants /\ MadeUsers /\ MadeRoles
        BY <1>2 DEF ProvisionInv
      <3>2. Ten'
        BY <2>7, <3>1 DEF Ten
      <3>3. MadeTenants'
        <4>1. ASSUME NEW t \in Made("tenants")'
              PROVE  \E u \in In("users")' :
                        /\ rows'[u].of = t
                        /\ Seeded("Tenant Admin")' =>
                              \E a \in In("user_roles")' : rows'[a].of = u /\ rows'[a].key = "Tenant Admin"
          <5>1. t \in Made("tenants")
            BY <2>7
          <5>2. PICK u \in In("users") :
                  /\ rows[u].of = t
                  /\ Seeded("Tenant Admin") =>
                        \E a \in In("user_roles") : rows[a].of = u /\ rows[a].key = "Tenant Admin"
            BY <3>1, <5>1 DEF MadeTenants
          <5>3. Seeded("Tenant Admin")' => Seeded("Tenant Admin")
            BY <2>6
          <5>4. ASSUME NEW a \in In("user_roles"), rows[a].of = u, rows[a].key = "Tenant Admin"
                PROVE  a \in In("user_roles")' /\ rows'[a].of = u /\ rows'[a].key = "Tenant Admin"
            BY <2>2, <2>7, <5>4
          <5>5. Seeded("Tenant Admin")' =>
                  \E a \in In("user_roles")' : rows'[a].of = u /\ rows'[a].key = "Tenant Admin"
            BY <5>2, <5>3, <5>4
          <5> QED
            BY <2>2, <2>7, <5>2, <5>5
        <4> QED
          BY <4>1 DEF MadeTenants
      <3>4. MadeUsers'
        <4>1. ASSUME NEW u \in Made("users")'
              PROVE  /\ rows'[u].of \in In("tenants")'
                     /\ Seeded("Employee")' /\ Seeded("Tenant Admin")' =>
                           \E a \in In("user_roles")' : rows'[a].of = u
          BY <2>2, <2>6, <2>7, <3>1 DEF MadeUsers
        <4> QED
          BY <4>1 DEF MadeUsers
      <3>5. MadeRoles'
        BY <2>2, <2>7, <3>1 DEF MadeRoles
      <3> QED
        BY <3>2, <3>3, <3>4, <3>5
    <2>9. ASSUME NEW q \in Requests PROVE Stage(q)'
      <3>1. /\ Drafted(q, "tenants")' = Drafted(q, "tenants") /\ Fresh(q, "tenants")' = Fresh(q, "tenants")
            /\ Drafted(q, "users")' = Drafted(q, "users") /\ Fresh(q, "users")' = Fresh(q, "users")
            /\ Drafted(q, "user_roles")' = Drafted(q, "user_roles")
            /\ Fresh(q, "user_roles")' = Fresh(q, "user_roles")
            /\ Drafted(q, "roles")' = Drafted(q, "roles") /\ Tenants(q)' = Tenants(q)
        BY <2>5 DEF Tenants
      <3>2. ASSUME NEW u
            PROVE  (Gives(q, u) => Gives(q, u)') /\ (HasRole(q, u) => HasRole(q, u)')
                   /\ (IsAdmin(q, u) => IsAdmin(q, u)')
        BY <2>2, <3>1 DEF Gives, HasRole, IsAdmin
      <3>3. Stage(q)
        BY <1>2 DEF ProvisionInv
      <3>4. CASE pc[q] # "idle"
        <4>1. TenantsStage(q)'
          BY <2>2, <2>6, <3>1, <3>2, <3>3, <3>4 DEF Stage, TenantsStage
        <4>2. UsersStage(q)'
          BY <2>2, <2>6, <3>1, <3>2, <3>3, <3>4 DEF Stage, UsersStage
        <4>3. RolesStage(q)' /\ OpStage(q)' /\ RowStage(q)'
          BY <2>2, <2>7, <3>1, <3>3, <3>4 DEF Stage, RolesStage, OpStage, RowStage
        <4> QED
          BY <4>1, <4>2, <4>3 DEF Stage
      <3> QED
        BY <2>2, <3>4 DEF Stage
    <2> QED
      BY <1>2, <2>1, <2>3, <2>4, <2>8, <2>9 DEF ProvisionInv
  <1> QED
    BY <1>1, <1>2

\* createTenantWithAdmin and createUser are all or nothing, whichever requests run
\* at a time and wherever one of them fails: names, slugs and e-mails stay apart,
\* a tenant comes with its administrator, a user with his role.
THEOREM ProvisionedWhole == GSpec => []Provisioned
  <1>1. ProvisionInv => Provisioned
    <2> SUFFICES ASSUME ProvisionInv PROVE Provisioned
      OBVIOUS
    <2>1. NamesApart /\ MadeTenants /\ MadeUsers /\ MadeRoles
      BY NamesFact DEF ProvisionInv
    <2> QED
      BY <2>1 DEF NamesApart, MadeTenants, MadeUsers, MadeRoles, Provisioned
  <1> QED
    BY <1>1, InitProvision, StepProvision, PTL DEF GSpec
=============================================================================
