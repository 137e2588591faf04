------------------------- MODULE RoleGuaranteesProofs -------------------------
(***************************************************************************)
(* The invariants of RoleGuarantees, for any number of requests and rows.  *)
(***************************************************************************)
EXTENDS RoleGuarantees, FiniteSetTheorems, TLAPS

Adds(o)    == o.add # "no"
Removes(o) == o.remove
Deletes(o) == o.add = "no" /\ ~o.remove

\* What a transaction has written when it is at a statement, and holds.
OpInv(r) ==
    /\ pc[r] = "idle" => ~shares[r] /\ ~dropped[r]
    /\ pc[r] \in {"find", "save", "update", "insert"} => Adds(op[r])
    /\ pc[r] \in {"revoke", "delete"} => Removes(op[r])
    /\ pc[r] \in {"count", "removeRole", "cascade"} => Deletes(op[r])
    /\ pc[r] = "role" => Adds(op[r]) \/ Deletes(op[r])
    /\ pc[r] \in {"save", "update", "delete"} => row[r] \in Rows
    /\ pc[r] \notin {"revoke", "delete", "ready"} => \A i \in Rows : draft[r][i] = "same"
    /\ shares[r] => Adds(op[r])
    /\ dropped[r] => Deletes(op[r])
    /\ \A i \in Rows :
        /\ draft[r][i] # "past"
        /\ draft[r][i] \in {"never", "future"} => Adds(op[r])
        /\ draft[r][i] = "none" => Removes(op[r]) \/ Deletes(op[r])

\* Requests in progress at once know of each other.
MetInv ==
    \A q, r \in Requests : q # r /\ pc[q] # "idle" /\ pc[r] # "idle" =>
        /\ Kinds(op[q]) \subseteq met[r]
        /\ Adds(op[q]) /\ Adds(op[r]) => raced

Present(i)   == rows[i] # "none"
Shown(r, i)  == Sees(r, i) # "none"

\* Without a race there is one assignment at most, in the table and in what any
\* transaction sees; the one a request has found is this one.
OneInv(r) ==
    /\ \A i, j \in Rows : Shown(r, i) /\ Shown(r, j) => i = j
    /\ pc[r] \in {"save", "update"} => \A i \in Rows : Shown(r, i) => i = row[r]
    /\ pc[r] = "insert" => \A i \in Rows : ~Shown(r, i)

OneRow == \A i, j \in Rows : Present(i) /\ Present(j) => i = j

RevokeInv(r) ==
    /\ pc[r] = "delete" => \A i \in Rows : Shown(r, i) => i = row[r]
    /\ pc[r] = "ready" /\ Removes(op[r]) => \A i \in Rows : ~Shown(r, i)

GrantInv(r) ==
    /\ pc[r] \in {"save", "update"} => Shown(r, row[r])
    /\ pc[r] = "ready" /\ Adds(op[r]) /\ ~Removes(op[r])
        => \E i \in Rows : Sees(r, i) \in {"never", "future"}

DeleteInv(r) ==
    pc[r] \in {"removeRole", "cascade", "ready"} /\ Deletes(op[r])
        => \A i \in Rows : ~Present(i)

\* What a request has achieved so far, with what has gone on beside it.
ProgressInv(r) ==
    /\ ~raced => OneInv(r)
    /\ ~raced /\ "add" \notin met[r] => RevokeInv(r)
    /\ met[r] \subseteq {"add"} => GrantInv(r)
    /\ "add" \notin met[r] => DeleteInv(r)

RolesInv ==
    /\ TypeOK /\ MetInv
    /\ \A r \in Requests : OpInv(r)
    /\ \A r \in Requests : ProgressInv(r)
    /\ ~raced => OneRow

-----------------------------------------------------------------------------
\* The three operations of a request, and what its Kinds are.
LEMMA OperationFact ==
  ASSUME NEW o \in Operation
  PROVE  /\ o.add \in {"no", "never", "future"} /\ o.remove \in BOOLEAN
         /\ o = Deletion <=> Deletes(o)
         /\ "add" \in Kinds(o) <=> Adds(o)
         /\ "remove" \in Kinds(o) <=> Removes(o)
         /\ "delete" \in Kinds(o) <=> Deletes(o)
         /\ Kinds(o) \subseteq {"add", "remove", "delete"}
  <1>1. o.add \in {"no", "never", "future"} /\ o.remove \in BOOLEAN
    BY DEF Operation
  <1>2. o = Deletion <=> Deletes(o)
    BY DEF Operation, Deletion, Deletes
  <1> QED
    BY <1>1, <1>2 DEF Kinds, Adds, Removes, Deletes

LEMMA DeletionFact ==
  /\ Deletion \in Operation /\ Deletes(Deletion) /\ ~Adds(Deletion) /\ ~Removes(Deletion)
  BY DEF Deletion, Operation, Deletes, Adds, Removes

LEMMA InitRolesInv == GInit => RolesInv
  <1> SUFFICES ASSUME GInit PROVE RolesInv
    OBVIOUS
  <1>1. rows \in [Rows -> Cell] /\ OneRow
    BY DEF GInit, Init, Expiry, Cell, OneRow, Present
  <1>2. TypeOK
    BY <1>1, DeletionFact DEF GInit, Init, TypeOK, Untouched, Cell, Locked
  <1>3. \A r \in Requests : OpInv(r) /\ ProgressInv(r)
    BY <1>1, DeletionFact DEF GInit, Init, OpInv, ProgressInv, OneInv, OneRow, Shown, Sees, Present,
      Untouched, RevokeInv, GrantInv, DeleteInv
  <1> QED
    BY <1>1, <1>2, <1>3 DEF GInit, Init, RolesInv, MetInv

-----------------------------------------------------------------------------
(* The kinds of steps.                                                      *)

Others(r) == \A q \in Requests \ {r} :
    /\ pc'[q] = pc[q] /\ op'[q] = op[q] /\ row'[q] = row[q]
    /\ draft'[q] = draft[q] /\ shares'[q] = shares[q] /\ dropped'[q] = dropped[q]

Within(r) ==
    /\ Others(r) /\ rows' = rows /\ role' = role
    /\ pc'[r] # "idle" /\ pc'[r] # pc[r]
    /\ pc[r] = "idle" \/ op'[r] = op[r]

Ends(r) ==
    /\ Others(r) /\ pc[r] # "idle" /\ pc'[r] = "idle" /\ op'[r] = Deletion
    /\ \A i \in Rows : draft'[r][i] = "same"
    /\ ~shares'[r] /\ ~dropped'[r]
    /\ \/ rows' = rows
       \/ \A i \in Rows : rows'[i] = Sees(r, i)

Elapses(i) ==
    /\ UNCHANGED <<role, requestVars, txVars>>
    /\ \A j \in Rows \ {i} : rows'[j] = rows[j]
    /\ \/ rows[i] = "future" /\ rows'[i] = "past"
       \/ rows[i] = "past" /\ rows'[i] = "none"

LEMMA StepKinds ==
  ASSUME TypeOK, Next
  PROVE  \/ \E r \in Requests : Within(r) /\ RequestStep(r)
         \/ \E r \in Requests : Ends(r)
         \/ \E i \in Rows : Elapses(i)
  <1>1. ASSUME NEW r \in Requests, NEW o \in Operation, Begin(r, o) PROVE Within(r)
    BY <1>1 DEF TypeOK, Begin, Goto, txVars, Within, Others
  <1>2. ASSUME NEW r \in Requests, FindRole(r) \/ FindExisting(r) \/ SaveExisting(r) \/ Revoke(r)
                                   \/ CountUsers(r)
        PROVE  Within(r)
    <2>1. ReadOnly
      BY <1>2 DEF FindRole, FindExisting, SaveExisting, Revoke, CountUsers
    <2>2. \A q \in Requests \ {r} : pc'[q] = pc[q] /\ row'[q] = row[q]
      BY <1>2 DEF TypeOK, FindRole, FindExisting, SaveExisting, Revoke, CountUsers, Goto
    <2>3. pc'[r] # "idle" /\ pc'[r] # pc[r]
      BY <1>2 DEF TypeOK, FindRole, FindExisting, SaveExisting, Revoke, CountUsers, Goto, AfterAdd
    <2> QED
      BY <2>1, <2>2, <2>3 DEF ReadOnly, txVars, Within, Others
  <1>3. ASSUME NEW r \in Requests, Update(r) \/ Delete(r) PROVE Within(r)
    BY <1>3 DEF TypeOK, Update, Delete, Write, Goto, AfterAdd, Within, Others
  <1>4. ASSUME NEW r \in Requests, NEW i \in Rows, Insert(r, i) PROVE Within(r)
    BY <1>4 DEF TypeOK, Insert, Write, Goto, AfterAdd, Within, Others
  <1>5. ASSUME NEW r \in Requests, RemoveRole(r) \/ Cascade(r) PROVE Within(r)
    BY <1>5 DEF TypeOK, RemoveRole, Cascade, Goto, Within, Others
  <1>6. ASSUME NEW r \in Requests, Commit(r) \/ Rollback(r) PROVE Ends(r)
    <2>1. End(r) /\ pc[r] # "idle"
      BY <1>6 DEF Commit, Rollback
    <2>2. rows' = rows \/ \A i \in Rows : rows'[i] = Sees(r, i)
      BY <1>6 DEF Commit, Rollback
    <2>3. Others(r) /\ pc'[r] = "idle" /\ op'[r] = Deletion /\ ~shares'[r] /\ ~dropped'[r]
      BY <2>1 DEF TypeOK, End, Goto, Others
    <2>4. \A i \in Rows : draft'[r][i] = "same"
      BY <2>1 DEF TypeOK, End, Untouched
    <2> QED
      BY <2>1, <2>2, <2>3, <2>4 DEF Ends
  <1>7. ASSUME NEW i \in Rows, Expire(i) \/ PurgeExpired(i) PROVE Elapses(i)
    BY <1>7 DEF TypeOK, Expire, PurgeExpired, Elapses
  <1> QED
    BY <1>1, <1>2, <1>3, <1>4, <1>5, <1>6, <1>7 DEF Next, RequestStep

-----------------------------------------------------------------------------
\* What the history variables record.
LEMMA HistoryFact ==
  ASSUME GNext, TypeOK
  PROVE  /\ raced => raced'
         /\ raced' \in BOOLEAN
         /\ \A r \in Requests : pc'[r] # "idle" => met[r] \subseteq met'[r]
         /\ \A q, r \in Requests : q # r /\ pc'[q] # "idle" /\ pc'[r] # "idle" =>
               /\ Kinds(op'[q]) \subseteq met'[r]
               /\ "add" \in Kinds(op'[q]) /\ "add" \in Kinds(op'[r]) => raced'
  <1>1. (raced => raced') /\ raced' \in BOOLEAN
    BY DEF GNext, TypeOK
  <1>2. \A r \in Requests : pc'[r] # "idle" => met[r] \subseteq met'[r]
    BY DEF GNext
  <1>3. \A q, r \in Requests : q # r /\ pc'[q] # "idle" /\ pc'[r] # "idle" =>
            Kinds(op'[q]) \subseteq met'[r]
    BY DEF GNext
  <1>4. \A q, r \in Requests : q # r /\ pc'[q] # "idle" /\ pc'[r] # "idle" =>
            ("add" \in Kinds(op'[q]) /\ "add" \in Kinds(op'[r]) => raced')
    BY DEF GNext
  <1> QED
    BY <1>1, <1>2, <1>3, <1>4

LEMMA ClockFact ==
  ASSUME GNext, pc' = pc, NEW i \in Rows, NEW r \in Requests, pc[r] # "idle"
  PROVE  /\ rows[i] = "future" /\ rows'[i] = "past" => "expire" \in met'[r]
         /\ rows[i] = "past" /\ rows'[i] = "none" => "purge" \in met'[r]
  BY DEF GNext

LEMMA MetTypes ==
  ASSUME GNext, TypeOK, op' \in [Requests -> Operation]
  PROVE  met' \in [Requests -> SUBSET {"add", "remove", "delete", "expire", "purge"}]
  <1>1. \A q \in Requests : Kinds(op'[q]) \subseteq {"add", "remove", "delete"}
    BY OperationFact
  <1> QED
    BY <1>1 DEF GNext, TypeOK

-----------------------------------------------------------------------------
(* Types, locks and what a transaction has written.                         *)

Labels == {"idle", "role", "find", "save", "update", "insert", "revoke",
           "delete", "count", "removeRole", "cascade", "ready"}

Types ==
    /\ role \in BOOLEAN /\ rows \in [Rows -> Cell]
    /\ pc \in [Requests -> Labels] /\ op \in [Requests -> Operation]
    /\ row \in [Requests -> Rows \cup {NoRow}]
    /\ draft \in [Requests -> [Rows -> Cell \cup {"same"}]]
    /\ shares \in [Requests -> BOOLEAN] /\ dropped \in [Requests -> BOOLEAN]

Locks ==
    /\ \A q, r \in Requests, i \in Rows : q # r => draft[q][i] = "same" \/ draft[r][i] = "same"
    /\ \A q, r \in Requests : shares[q] => ~dropped[r]

LEMMA TypesFact == TypeOK <=>
    /\ Types /\ Locks /\ raced \in BOOLEAN
    /\ met \in [Requests -> SUBSET {"add", "remove", "delete", "expire", "purge"}]
  BY DEF TypeOK, Types, Labels, Locks, Locked

\* One cell of a draft changes.
LEMMA WriteFact ==
  ASSUME Types, NEW r \in Requests, NEW i \in Rows, NEW v \in Cell, Write(r, i, v)
  PROVE  /\ draft' \in [Requests -> [Rows -> Cell \cup {"same"}]]
         /\ draft'[r][i] = v
         /\ \A j \in Rows \ {i} : draft'[r][j] = draft[r][j]
         /\ \A q \in Requests \ {r} : draft'[q] = draft[q]
  BY DEF Types, Write

LEMMA AddFact ==
  ASSUME Types, NEW r \in Requests, Adds(op[r])
  PROVE  op[r].add \in {"never", "future"} /\ op[r].add \in Cell /\ ~Deletes(op[r])
  BY OperationFact DEF Types, Adds, Deletes, Cell, Expiry

LEMMA StepTypes ==
  ASSUME TypeOK, Next, \A r \in Requests : OpInv(r)
  PROVE  Types'
  <1>0. Types
    BY TypesFact
  <1>1. ASSUME NEW r \in Requests, NEW o \in Operation, Begin(r, o) PROVE Types'
    BY <1>0, <1>1 DEF Types, Labels, Begin, Goto, txVars
  <1>2. ASSUME NEW r \in Requests, FindRole(r) \/ FindExisting(r) \/ SaveExisting(r) \/ Revoke(r)
                                   \/ CountUsers(r)
        PROVE  Types'
    <2>1. ReadOnly
      BY <1>2 DEF FindRole, FindExisting, SaveExisting, Revoke, CountUsers
    <2>2. pc' \in [Requests -> Labels] /\ row' \in [Requests -> Rows \cup {NoRow}]
      BY <1>0, <1>2 DEF Types, Labels, FindRole, FindExisting, SaveExisting, Revoke, CountUsers,
         Goto, AfterAdd, Visible
    <2> QED
      BY <1>0, <2>1, <2>2 DEF Types, ReadOnly, txVars
  <1>3. ASSUME NEW r \in Requests, NEW i \in Rows, Insert(r, i) PROVE Types'
    <2>1. op[r].add \in Cell
      BY <1>0, <1>3, AddFact DEF OpInv, Insert
    <2>2. draft' \in [Requests -> [Rows -> Cell \cup {"same"}]]
      BY <1>0, <1>3, <2>1, WriteFact DEF Insert
    <2> QED
      BY <1>0, <1>3, <2>2 DEF Types, Labels, Insert, Goto, AfterAdd
  <1>4. ASSUME NEW r \in Requests, Update(r) PROVE Types'
    <2>1. op[r].add \in Cell /\ row[r] \in Rows
      BY <1>0, <1>4, AddFact DEF OpInv, Update
    <2>2. draft' \in [Requests -> [Rows -> Cell \cup {"same"}]]
      <3>1. CASE UNCHANGED draft
        BY <1>0, <3>1 DEF Types
      <3>2. CASE Write(r, row[r], op[r].add)
        BY <1>0, <2>1, <3>2, WriteFact
      <3> QED
        BY <1>4, <3>1, <3>2 DEF Update
    <2> QED
      BY <1>0, <1>4, <2>2 DEF Types, Labels, Update, Goto, AfterAdd
  <1>5. ASSUME NEW r \in Requests, Delete(r) PROVE Types'
    <2>1. "none" \in Cell /\ row[r] \in Rows
      BY <1>5 DEF OpInv, Delete, Cell
    <2>2. draft' \in [Requests -> [Rows -> Cell \cup {"same"}]]
      <3>1. CASE UNCHANGED draft
        BY <1>0, <3>1 DEF Types
      <3>2. CASE Write(r, row[r], "none")
        BY <1>0, <2>1, <3>2, WriteFact
      <3> QED
        BY <1>5, <3>1, <3>2 DEF Delete
    <2> QED
      BY <1>0, <1>5, <2>2 DEF Types, Labels, Delete, Goto
  <1>6. ASSUME NEW r \in Requests, RemoveRole(r) PROVE Types'
    BY <1>0, <1>6 DEF Types, Labels, RemoveRole, Goto
  <1>7. ASSUME NEW r \in Requests, Cascade(r) PROVE Types'
    BY <1>0, <1>7 DEF Types, Labels, Cascade, Goto, Cell
  <1>8. ASSUME NEW r \in Requests, End(r), role' \in BOOLEAN, rows' \in [Rows -> Cell] PROVE Types'
    BY <1>0, <1>8, DeletionFact DEF Types, Labels, End, Goto, Untouched
  <1>9. ASSUME NEW r \in Requests, Commit(r) \/ Rollback(r) PROVE Types'
    <2>1. \A i \in Rows : Sees(r, i) \in Cell
      BY <1>0 DEF Types, Sees
    <2>2. rows' \in [Rows -> Cell] /\ role' \in BOOLEAN
      BY <1>0, <1>9, <2>1 DEF Types, Commit, Rollback
    <2> QED
      BY <1>8, <1>9, <2>2 DEF Commit, Rollback
  <1>10. ASSUME NEW i \in Rows, Expire(i) \/ PurgeExpired(i) PROVE Types'
    BY <1>0, <1>10 DEF Types, Expire, PurgeExpired, requestVars, txVars, Cell, Expiry
  <1> QED
    BY <1>1, <1>2, <1>3, <1>4, <1>5, <1>6, <1>7, <1>9, <1>10 DEF Next, RequestStep

\* A write waits for the lock of its row, an insert for that of a deleted role,
\* and the deletion of a role for inserts.
LEMMA StepLocks ==
  ASSUME TypeOK, Next, \A r \in Requests : OpInv(r)
  PROVE  Locks'
  <1>0. Types /\ Locks
    BY TypesFact
  <1>1. ASSUME NEW r \in Requests, Others(r),
               \A i \in Rows : draft'[r][i] \in {draft[r][i], "same"} \/ ~Locked(r, i),
               shares'[r] => shares[r] \/ \A q \in Requests : ~dropped[q] /\ ~dropped'[r],
               dropped'[r] => dropped[r] \/ \A q \in Requests : ~shares[q] /\ ~shares'[r]
        PROVE  Locks'
    BY <1>0, <1>1 DEF Locks, Locked, Others
  <1>2. ASSUME NEW r \in Requests, Within(r), RequestStep(r) PROVE Locks'
    <2>1. Others(r)
      BY <1>2 DEF Within
    <2>2. CASE UNCHANGED txVars
      BY <1>0, <2>2 DEF Locks, txVars
    <2>3. ASSUME NEW i \in Rows, Insert(r, i) PROVE Locks'
      <3>1. op[r].add \in Cell
        BY <1>0, <2>3, AddFact DEF OpInv, Insert
      <3>2. \A j \in Rows : draft'[r][j] = draft[r][j] \/ ~Locked(r, j)
        BY <1>0, <2>3, <3>1, WriteFact DEF Insert
      <3> QED
        BY <1>0, <1>1, <2>1, <2>3, <3>2 DEF Insert
    <2>4. CASE Update(r)
      <3>1. op[r].add \in Cell /\ row[r] \in Rows
        BY <1>0, <2>4, AddFact DEF OpInv, Update
      <3>2. \A j \in Rows : draft'[r][j] = draft[r][j] \/ ~Locked(r, j)
        BY <1>0, <2>4, <3>1, WriteFact DEF Update
      <3> QED
        BY <1>0, <1>1, <2>1, <2>4, <3>2 DEF Update
    <2>5. CASE Delete(r)
      <3>1. "none" \in Cell /\ row[r] \in Rows
        BY <2>5 DEF OpInv, Delete, Cell
      <3>2. \A j \in Rows : draft'[r][j] = draft[r][j] \/ ~Locked(r, j)
        BY <1>0, <2>5, <3>1, WriteFact DEF Delete
      <3> QED
        BY <1>0, <1>1, <2>1, <2>5, <3>2 DEF Delete
    <2>6. CASE RemoveRole(r)
      <3>1. ~shares[r]
        BY <2>6, DeletionFact DEF RemoveRole, OpInv, Adds, Deletes
      <3> QED
        BY <1>0, <1>1, <2>1, <2>6, <3>1 DEF RemoveRole
    <2>7. CASE Cascade(r)
      BY <1>0, <1>1, <2>1, <2>7 DEF Cascade
    <2>8. CASE \E o \in Operation : Begin(r, o)
      BY <2>2, <2>8 DEF Begin
    <2>9. CASE FindRole(r) \/ FindExisting(r) \/ SaveExisting(r) \/ Revoke(r) \/ CountUsers(r)
      BY <2>2, <2>9 DEF FindRole, FindExisting, SaveExisting, Revoke, CountUsers, ReadOnly
    <2>10. ~Commit(r) /\ ~Rollback(r)
      BY <1>0, <1>2 DEF Within, Commit, Rollback, End, Goto, Types
    <2> QED
      BY <1>2, <2>3, <2>4, <2>5, <2>6, <2>7, <2>8, <2>9, <2>10 DEF RequestStep
  <1>3. ASSUME NEW r \in Requests, Ends(r) PROVE Locks'
    BY <1>1, <1>3 DEF Ends
  <1>4. ASSUME NEW i \in Rows, Elapses(i) PROVE Locks'
    BY <1>0, <1>4 DEF Elapses, Locks, txVars
  <1> QED
    BY <1>2, <1>3, <1>4, StepKinds

-----------------------------------------------------------------------------
LEMMA StepOpInv ==
  ASSUME TypeOK, Next, Types', \A r \in Requests : OpInv(r)
  PROVE  \A r \in Requests : OpInv(r)'
  <1>0. Types
    BY TypesFact
  <1>1. ASSUME NEW r \in Requests, Others(r), OpInv(r)' PROVE \A q \in Requests : OpInv(q)'
    <2>1. ASSUME NEW q \in Requests \ {r} PROVE OpInv(q)'
      BY <1>1, <2>1 DEF OpInv, Others
    <2> QED
      BY <1>1, <2>1
  <1>2. ASSUME NEW r \in Requests, NEW o \in Operation, Begin(r, o) PROVE OpInv(r)'
    <2>1. pc'[r] = (IF o.add = "no" /\ o.remove THEN "revoke" ELSE "role") /\ op'[r] = o
      BY <1>0, <1>2 DEF Begin, Goto, Types
    <2>2. pc[r] = "idle" /\ UNCHANGED <<draft, shares, dropped>>
      BY <1>2 DEF Begin, txVars
    <2>3. (\A i \in Rows : draft[r][i] = "same") /\ ~shares[r] /\ ~dropped[r]
      BY <2>2 DEF OpInv
    <2> QED
      BY <2>1, <2>2, <2>3 DEF OpInv, Adds, Removes, Deletes
  <1>3. ASSUME NEW r \in Requests, ReadOnly, OpInv(r), pc[r] # "idle", pc'[r] # "idle",
               pc'[r] \in {"find", "insert"} => Adds(op[r]),
               pc'[r] \in {"save", "update"} => Adds(op[r]) /\ row'[r] \in Rows,
               pc'[r] = "revoke" => Removes(op[r]),
               pc'[r] = "delete" => Removes(op[r]) /\ row'[r] \in Rows,
               pc'[r] \in {"count", "removeRole"} => Deletes(op[r]),
               pc'[r] \notin {"role", "cascade"},
               pc'[r] \in {"revoke", "delete", "ready"} \/ pc[r] \notin {"revoke", "delete", "ready"}
        PROVE  OpInv(r)'
    BY <1>3 DEF ReadOnly, txVars, OpInv
  <1>4. ASSUME NEW r \in Requests, FindRole(r) PROVE OpInv(r)'
    <2>1. pc[r] = "role" /\ pc'[r] = (IF op[r] = Deletion THEN "count" ELSE "find")
      BY <1>0, <1>4 DEF FindRole, Goto, Types
    <2>2. op[r] = Deletion <=> Deletes(op[r])
      BY <1>0, OperationFact DEF Types
    <2> QED
      BY <1>3, <1>4, <2>1, <2>2 DEF FindRole, OpInv
  <1>5. ASSUME NEW r \in Requests, FindExisting(r) PROVE OpInv(r)'
    <2>1. /\ pc[r] = "find" /\ pc'[r] \in {"insert", "save"}
          /\ pc'[r] = "save" => row'[r] \in Rows
      BY <1>0, <1>5 DEF FindExisting, Goto, Types, Visible
    <2>2. Adds(op[r])
      BY <2>1 DEF OpInv
    <2> QED
      BY <1>3, <1>5, <2>1, <2>2 DEF FindExisting
  <1>6. ASSUME NEW r \in Requests, SaveExisting(r) PROVE OpInv(r)'
    BY <1>0, <1>3, <1>6 DEF SaveExisting, Goto, AfterAdd, Types, OpInv, Removes
  <1>7. ASSUME NEW r \in Requests, Revoke(r) PROVE OpInv(r)'
    BY <1>0, <1>3, <1>7 DEF Revoke, Goto, Types, OpInv, Visible
  <1>8. ASSUME NEW r \in Requests, CountUsers(r) PROVE OpInv(r)'
    BY <1>0, <1>3, <1>8 DEF CountUsers, Goto, Types, OpInv
  <1>9. ASSUME NEW r \in Requests, NEW i \in Rows, Insert(r, i) PROVE OpInv(r)'
    <2>1. Adds(op[r]) /\ op[r].add \in {"never", "future"} /\ op[r].add \in Cell /\ ~Deletes(op[r])
      BY <1>0, <1>9, AddFact DEF OpInv, Insert
    <2>2. pc'[r] \in {"revoke", "ready"} /\ (pc'[r] = "revoke" => Removes(op[r]))
      BY <1>0, <1>9 DEF Insert, Goto, AfterAdd, Types, Removes
    <2>3. draft'[r][i] \in {"never", "future"} /\ \A j \in Rows \ {i} : draft'[r][j] = "same"
      BY <1>0, <1>9, <2>1, WriteFact DEF Insert, OpInv
    <2> QED
      BY <1>9, <2>1, <2>2, <2>3 DEF Insert, OpInv
  <1>10. ASSUME NEW r \in Requests, Update(r) PROVE OpInv(r)'
    <2>1. Adds(op[r]) /\ op[r].add \in {"never", "future"} /\ op[r].add \in Cell /\ row[r] \in Rows
      BY <1>0, <1>10, AddFact DEF OpInv, Update
    <2>2. pc'[r] \in {"revoke", "ready"} /\ (pc'[r] = "revoke" => Removes(op[r]))
      BY <1>0, <1>10 DEF Update, Goto, AfterAdd, Types, Removes
    <2>3. \A j \in Rows : draft'[r][j] \in {"never", "future", "same"}
      BY <1>0, <1>10, <2>1, WriteFact DEF Update, OpInv
    <2> QED
      BY <1>10, <2>1, <2>2, <2>3 DEF Update, OpInv
  <1>11. ASSUME NEW r \in Requests, Delete(r) PROVE OpInv(r)'
    <2>1. Removes(op[r]) /\ "none" \in Cell /\ row[r] \in Rows
      BY <1>11 DEF OpInv, Delete, Cell
    <2>2. pc'[r] = "ready"
      BY <1>0, <1>11 DEF Delete, Goto, Types
    <2>3. \A j \in Rows : draft'[r][j] \in {draft[r][j], "none"}
      BY <1>0, <1>11, <2>1, WriteFact DEF Delete
    <2> QED
      BY <1>11, <2>1, <2>2, <2>3 DEF Delete, OpInv
  <1>12. ASSUME NEW r \in Requests, RemoveRole(r) PROVE OpInv(r)'
    <2>1. pc'[r] \in {"cascade", "ready"} /\ pc[r] = "removeRole"
      BY <1>0, <1>12 DEF RemoveRole, Goto, Types
    <2> QED
      BY <1>12, <2>1 DEF RemoveRole, OpInv
  <1>13. ASSUME NEW r \in Requests, Cascade(r) PROVE OpInv(r)'
    <2>1. pc'[r] = "ready" /\ pc[r] = "cascade"
      BY <1>0, <1>13 DEF Cascade, Goto, Types
    <2>2. \A j \in Rows : draft'[r][j] \in {"same", "none"}
      BY <1>0, <1>13 DEF Cascade, Types
    <2> QED
      BY <1>13, <2>1, <2>2 DEF Cascade, OpInv
  <1>14. ASSUME NEW r \in Requests, Within(r), RequestStep(r) PROVE OpInv(r)'
    <2>1. ~Commit(r) /\ ~Rollback(r)
      BY <1>0, <1>14 DEF Within, Commit, Rollback, End, Goto, Types
    <2> QED
      BY <1>14, <2>1, <1>2, <1>4, <1>5, <1>6, <1>7, <1>8, <1>9, <1>10, <1>11, <1>12, <1>13 DEF RequestStep
  <1>15. ASSUME NEW r \in Requests, Ends(r) PROVE OpInv(r)'
    BY <1>15, DeletionFact DEF Ends, OpInv
  <1>16. ASSUME NEW i \in Rows, Elapses(i) PROVE \A q \in Requests : OpInv(q)'
    BY <1>16 DEF Elapses, OpInv, requestVars, txVars
  <1> QED
    BY <1>1, <1>14, <1>15, <1>16, StepKinds DEF Within, Ends

LEMMA StepMetInv ==
  ASSUME RolesInv, GNext, Types'
  PROVE  MetInv'
  <1>1. \A q \in Requests : op'[q] \in Operation
    BY DEF Types
  <1>2. TypeOK
    BY DEF RolesInv
  <1> QED
    BY <1>1, <1>2, HistoryFact, OperationFact DEF MetInv

-----------------------------------------------------------------------------
\* What can happen to the rows beside a request in progress, and what it has met then.
Beside(r) ==
    /\ pc'[r] = pc[r] /\ op'[r] = op[r] /\ row'[r] = row[r] /\ draft'[r] = draft[r]
    /\ met[r] \subseteq met'[r]
    /\ \A i \in Rows :
        /\ rows[i] = "none" /\ rows'[i] # "none" => "add" \in met[r] /\ (Adds(op[r]) => raced)
        /\ rows[i] # "none" /\ rows'[i] = "none" =>
              "remove" \in met'[r] \/ "delete" \in met'[r] \/ "purge" \in met'[r]
        /\ rows[i] # "past" /\ rows'[i] = "past" => "expire" \in met'[r]

LEMMA BesideFact ==
  ASSUME RolesInv, GNext, NEW r \in Requests, pc[r] # "idle",
         \/ \E q \in Requests \ {r} : Within(q) \/ Ends(q)
         \/ \E i \in Rows : Elapses(i)
  PROVE  Beside(r)
  <1>0. TypeOK /\ Types /\ MetInv /\ \A q \in Requests : OpInv(q)
    BY TypesFact DEF RolesInv
  <1>1. ASSUME NEW q \in Requests \ {r}, Within(q) PROVE Beside(r)
    BY <1>0, <1>1, HistoryFact DEF Within, Others, Beside
  <1>2. ASSUME NEW q \in Requests \ {r}, Ends(q) PROVE Beside(r)
    <2>1. /\ pc'[r] = pc[r] /\ op'[r] = op[r] /\ row'[r] = row[r] /\ draft'[r] = draft[r]
          /\ met[r] \subseteq met'[r]
      BY <1>0, <1>2, HistoryFact DEF Ends, Others
    <2>2. /\ Kinds(op[q]) \subseteq met[r] /\ Kinds(op[q]) \subseteq met'[r]
          /\ Adds(op[q]) /\ Adds(op[r]) => raced
      BY <1>0, <1>2, <2>1 DEF Ends, MetInv
    <2>3. /\ "add" \in Kinds(op[q]) <=> Adds(op[q])
          /\ "remove" \in Kinds(op[q]) <=> Removes(op[q])
          /\ "delete" \in Kinds(op[q]) <=> Deletes(op[q])
      BY <1>0, OperationFact DEF Types
    <2>4. ASSUME NEW i \in Rows, rows'[i] # rows[i]
          PROVE  rows'[i] = draft[q][i] /\ draft[q][i] # "same"
      BY <1>2, <2>4 DEF Ends, Sees
    <2>5. \A i \in Rows : /\ draft[q][i] \in Cell \cup {"same"} /\ draft[q][i] # "past"
                          /\ draft[q][i] \in {"never", "future"} => Adds(op[q])
                          /\ draft[q][i] = "none" => Removes(op[q]) \/ Deletes(op[q])
      BY <1>0 DEF OpInv, Types
    <2>6. \A i \in Rows :
            /\ rows[i] = "none" /\ rows'[i] # "none" => Adds(op[q])
            /\ rows[i] # "none" /\ rows'[i] = "none" => Removes(op[q]) \/ Deletes(op[q])
            /\ ~(rows[i] # "past" /\ rows'[i] = "past")
      BY <2>4, <2>5 DEF Cell, Expiry
    <2> QED
      BY <2>1, <2>2, <2>3, <2>6 DEF Beside
  <1>3. ASSUME NEW i \in Rows, Elapses(i) PROVE Beside(r)
    <2>1. pc' = pc /\ pc'[r] # "idle" /\ op' = op /\ row' = row /\ draft' = draft
      BY <1>3 DEF Elapses, requestVars, txVars
    <2> QED
      BY <1>0, <1>3, <2>1, HistoryFact, ClockFact DEF Elapses, Beside
  <1> QED
    BY <1>1, <1>2, <1>3

-----------------------------------------------------------------------------
(* Each request makes progress towards what it promises.                    *)

\* Without a race no step adds a second row.
LEMMA StepOneRow ==
  ASSUME RolesInv, GNext, ~raced'
  PROVE  OneRow'
  <1>0. TypeOK /\ Next /\ ~raced
    BY HistoryFact DEF RolesInv, GNext
  <1>1. OneRow /\ \A r \in Requests : OneInv(r)
    BY <1>0 DEF RolesInv, ProgressInv
  <1>2. ASSUME NEW r \in Requests, Within(r) \/ Ends(r) PROVE OneRow'
    BY <1>1, <1>2 DEF Within, Ends, OneRow, OneInv, Present, Shown
  <1>3. ASSUME NEW i \in Rows, Elapses(i) PROVE OneRow'
    BY <1>1, <1>3 DEF Elapses, OneRow, Present
  <1> QED
    BY <1>0, <1>2, <1>3, StepKinds

\* A request that has written nothing sees what is committed.
LEMMA FreshProgress ==
  ASSUME NEW r \in Requests, pc'[r] \in {"idle", "role", "revoke"}, ~raced' => OneRow',
         \A i \in Rows : draft'[r][i] = "same"
  PROVE  ProgressInv(r)'
  BY DEF ProgressInv, OneInv, RevokeInv, GrantInv, DeleteInv, OneRow, Present, Shown, Sees

LEMMA BesideProgress ==
  ASSUME RolesInv, NEW r \in Requests, Beside(r), raced => raced', ~raced' => OneRow', Types'
  PROVE  ProgressInv(r)'
  <1>0. Types /\ OpInv(r) /\ ProgressInv(r)
    BY TypesFact DEF RolesInv
  <1>1. /\ pc'[r] = pc[r] /\ op'[r] = op[r] /\ row'[r] = row[r] /\ draft'[r] = draft[r]
        /\ met[r] \subseteq met'[r]
    BY DEF Beside
  <1>2. ASSUME NEW i \in Rows, Shown(r, i)', ~Shown(r, i) PROVE "add" \in met[r] /\ (Adds(op[r]) => raced)
    BY <1>1, <1>2 DEF Beside, Shown, Sees
  <1>3. ~raced' => OneInv(r)'
    <2> SUFFICES ASSUME ~raced' PROVE OneInv(r)'
      OBVIOUS
    <2>1. OneInv(r) /\ OneRow' /\ ~raced
      BY <1>0 DEF ProgressInv
    <2>2. CASE Adds(op[r])
      BY <1>1, <1>2, <2>1, <2>2 DEF OneInv
    <2>3. CASE ~Adds(op[r])
      <3>1. \A i \in Rows : Shown(r, i)' => Present(i)'
        BY <1>0, <1>1, <2>3 DEF OpInv, Types, Cell, Expiry, Shown, Sees, Present
      <3>2. \A i, j \in Rows : Shown(r, i)' /\ Shown(r, j)' => i = j
        BY <2>1, <3>1 DEF OneRow
      <3> QED
        BY <1>0, <1>1, <2>3, <3>2 DEF OneInv, OpInv
    <2> QED
      BY <2>2, <2>3
  <1>4. ~raced' /\ "add" \notin met'[r] => RevokeInv(r)'
    BY <1>0, <1>1, <1>2 DEF ProgressInv, RevokeInv
  <1>5. met'[r] \subseteq {"add"} => GrantInv(r)'
    <2> SUFFICES ASSUME met'[r] \subseteq {"add"} PROVE GrantInv(r)'
      OBVIOUS
    <2>1. GrantInv(r)
      BY <1>0, <1>1 DEF ProgressInv
    <2>2. \A i \in Rows : /\ rows[i] # "none" => rows'[i] # "none"
                          /\ rows[i] # "past" => rows'[i] # "past"
      BY DEF Beside
    <2>3. \A i \in Rows : /\ Shown(r, i) => Shown(r, i)'
                          /\ Sees(r, i) \in {"never", "future"} => Sees(r, i)' \in {"never", "future"}
      BY <1>1, <2>2 DEF Types, Cell, Expiry, Shown, Sees
    <2>4. pc[r] \in {"save", "update"} => row[r] \in Rows
      BY <1>0 DEF OpInv
    <2> QED
      BY <1>1, <2>1, <2>3, <2>4 DEF GrantInv
  <1>6. "add" \notin met'[r] => DeleteInv(r)'
    <2> SUFFICES ASSUME "add" \notin met'[r] PROVE DeleteInv(r)'
      OBVIOUS
    <2>1. DeleteInv(r) /\ "add" \notin met[r]
      BY <1>0, <1>1 DEF ProgressInv
    <2>2. \A i \in Rows : Present(i)' => Present(i)
      BY <2>1 DEF Beside, Present
    <2> QED
      BY <1>1, <2>1, <2>2 DEF DeleteInv
  <1> QED
    BY <1>3, <1>4, <1>5, <1>6 DEF ProgressInv

LEMMA OwnProgress ==
  ASSUME RolesInv, NEW r \in Requests, Within(r), RequestStep(r), OpInv(r)',
         raced => raced', met[r] \subseteq met'[r], ~raced' => OneRow'
  PROVE  ProgressInv(r)'
  <1>0. Types /\ OpInv(r) /\ ProgressInv(r)
    BY TypesFact DEF RolesInv
  <1>1. rows' = rows /\ pc'[r] # "idle"
    BY DEF Within
  <1>2. /\ ~raced' => OneInv(r)
        /\ ~raced' /\ "add" \notin met'[r] => RevokeInv(r)
        /\ met'[r] \subseteq {"add"} => GrantInv(r)
        /\ "add" \notin met'[r] => DeleteInv(r)
    BY <1>0 DEF ProgressInv
  <1>3. ASSUME ReadOnly
        PROVE  /\ draft'[r] = draft[r] /\ op'[r] = op[r]
               /\ \A i \in Rows : Sees(r, i)' = Sees(r, i) /\ (Shown(r, i)' <=> Shown(r, i))
    BY <1>1, <1>3 DEF ReadOnly, txVars, Sees, Shown
  <1>4. ASSUME NEW o \in Operation, Begin(r, o) PROVE ProgressInv(r)'
    <2>1. pc'[r] \in {"role", "revoke"} /\ pc[r] = "idle" /\ draft' = draft
      BY <1>0, <1>4 DEF Begin, Goto, Types, txVars
    <2> QED
      BY <1>0, <2>1, FreshProgress DEF OpInv
  <1>5. CASE FindRole(r)
    <2>1. pc'[r] \in {"count", "find"} /\ ReadOnly
      BY <1>0, <1>5 DEF FindRole, Goto, Types
    <2> QED
      BY <1>2, <1>3, <2>1 DEF ProgressInv, OneInv, RevokeInv, GrantInv, DeleteInv
  <1>6. CASE FindExisting(r)
    <2>1. ReadOnly /\ \/ pc'[r] = "insert" /\ \A i \in Rows : ~Shown(r, i)
                      \/ pc'[r] = "save" /\ row'[r] \in Rows /\ Shown(r, row'[r])
      BY <1>0, <1>6 DEF FindExisting, Goto, Types, Visible, Shown
    <2> QED
      BY <1>2, <1>3, <2>1 DEF ProgressInv, OneInv, RevokeInv, GrantInv, DeleteInv
  <1>7. CASE SaveExisting(r)
    <2>1. pc[r] = "save" /\ row[r] \in Rows /\ row'[r] = row[r] /\ ReadOnly /\ Adds(op[r])
      BY <1>0, <1>7 DEF SaveExisting, OpInv
    <2>2. \/ pc'[r] = "insert" /\ ~Shown(r, row[r])
          \/ pc'[r] = "revoke"
          \/ pc'[r] = "ready" /\ Sees(r, row[r]) = op[r].add /\ ~Removes(op[r])
          \/ pc'[r] = "update" /\ Shown(r, row[r])
      BY <1>0, <1>7 DEF SaveExisting, Goto, AfterAdd, Types, Shown, Removes
    <2>3. op[r].add \in {"never", "future"} /\ ~Deletes(op[r])
      BY <1>0, <2>1, AddFact
    <2> QED
      BY <1>2, <1>3, <2>1, <2>2, <2>3 DEF ProgressInv, OneInv, RevokeInv, GrantInv, DeleteInv
  <1>8. ASSUME NEW i \in Rows, Insert(r, i) PROVE ProgressInv(r)'
    <2>1. Adds(op[r]) /\ pc[r] = "insert" /\ op'[r] = op[r]
      BY <1>0, <1>8 DEF Insert, OpInv
    <2>2. op[r].add \in {"never", "future"} /\ op[r].add \in Cell /\ ~Deletes(op[r])
      BY <1>0, <2>1, AddFact
    <2>3. pc'[r] = "revoke" \/ (pc'[r] = "ready" /\ ~Removes(op[r]))
      BY <1>0, <1>8 DEF Insert, Goto, AfterAdd, Types, Removes
    <2>4. draft'[r][i] = op[r].add /\ \A j \in Rows \ {i} : draft'[r][j] = draft[r][j]
      BY <1>0, <1>8, <2>2, WriteFact DEF Insert
    <2>5. Sees(r, i)' = op[r].add /\ \A j \in Rows \ {i} : Shown(r, j)' <=> Shown(r, j)
      BY <1>1, <2>2, <2>4 DEF Sees, Shown
    <2> QED
      BY <1>2, <2>1, <2>2, <2>3, <2>5 DEF ProgressInv, OneInv, RevokeInv, GrantInv, DeleteInv
  <1>9. CASE Update(r)
    <2>1. pc[r] = "update" /\ row[r] \in Rows /\ row' = row /\ Adds(op[r]) /\ op'[r] = op[r]
      BY <1>0, <1>9 DEF Update, OpInv
    <2>2. op[r].add \in {"never", "future"} /\ op[r].add \in Cell /\ ~Deletes(op[r])
      BY <1>0, <2>1, AddFact
    <2>3. pc'[r] = "revoke" \/ (pc'[r] = "ready" /\ ~Removes(op[r]))
      BY <1>0, <1>9 DEF Update, Goto, AfterAdd, Types, Removes
    <2>4. CASE Sees(r, row[r]) = "none"
      <3>1. \A j \in Rows : Shown(r, j)' <=> Shown(r, j)
        BY <1>1, <1>9, <2>4 DEF Update, Sees, Shown
      <3>2. ~Shown(r, row[r])
        BY <2>4 DEF Shown
      <3> QED
        BY <1>2, <2>1, <2>2, <2>3, <3>1, <3>2 DEF ProgressInv, OneInv, RevokeInv, GrantInv, DeleteInv
    <2>5. CASE Sees(r, row[r]) # "none"
      <3>1. /\ draft'[r][row[r]] = op[r].add
            /\ \A j \in Rows \ {row[r]} : draft'[r][j] = draft[r][j]
        BY <1>0, <1>9, <2>1, <2>2, <2>5, WriteFact DEF Update
      <3>2. Sees(r, row[r])' = op[r].add /\ \A j \in Rows \ {row[r]} : Shown(r, j)' <=> Shown(r, j)
        BY <1>1, <1>9, <2>2, <3>1 DEF Sees, Shown, Update
      <3> QED
        BY <1>2, <2>1, <2>2, <2>3, <3>2 DEF ProgressInv, OneInv, RevokeInv, GrantInv, DeleteInv
    <2> QED
      BY <2>4, <2>5
  <1>10. CASE Revoke(r)
    <2>1. ReadOnly /\ \/ pc'[r] = "ready" /\ \A i \in Rows : ~Shown(r, i)
                      \/ pc'[r] = "delete" /\ row'[r] \in Rows /\ Shown(r, row'[r])
      BY <1>0, <1>10 DEF Revoke, Goto, Types, Visible, Shown
    <2>2. Removes(op[r]) /\ ~Deletes(op[r])
      BY <1>0, <1>10 DEF Revoke, OpInv, Removes, Deletes
    <2> QED
      BY <1>2, <1>3, <2>1, <2>2 DEF ProgressInv, OneInv, RevokeInv, GrantInv, DeleteInv
  <1>11. CASE Delete(r)
    <2>1. pc[r] = "delete" /\ pc'[r] = "ready" /\ row[r] \in Rows /\ row' = row /\ op'[r] = op[r]
      BY <1>0, <1>11 DEF Delete, OpInv, Goto, Types
    <2>2. Removes(op[r]) /\ ~Deletes(op[r])
      BY <1>0, <1>11 DEF Delete, OpInv, Removes, Deletes
    <2>3. ~Shown(r, row[r])' /\ \A j \in Rows : Shown(r, j)' => Shown(r, j)
      <3>1. CASE Sees(r, row[r]) = "none"
        BY <1>1, <1>11, <3>1 DEF Delete, Sees, Shown
      <3>2. CASE Sees(r, row[r]) # "none"
        <4>1. /\ draft'[r][row[r]] = "none"
              /\ \A j \in Rows \ {row[r]} : draft'[r][j] = draft[r][j]
          BY <1>0, <1>11, <2>1, <3>2, WriteFact DEF Delete, Cell
        <4> QED
          BY <1>1, <1>11, <4>1 DEF Sees, Shown, Delete
      <3> QED
        BY <3>1, <3>2
    <2> QED
      BY <1>2, <2>1, <2>2, <2>3 DEF ProgressInv, OneInv, RevokeInv, GrantInv, DeleteInv
  <1>12. CASE CountUsers(r)
    <2>1. /\ ReadOnly /\ pc'[r] = "removeRole" /\ \A i \in Rows : draft[r][i] = "same"
          /\ \A i \in Rows : ~Shown(r, i)
      BY <1>0, <1>12 DEF CountUsers, Goto, Types, OpInv, Visible, Shown
    <2>2. \A i \in Rows : ~Present(i)'
      BY <1>1, <2>1 DEF Shown, Sees, Present
    <2> QED
      BY <1>2, <1>3, <2>1, <2>2 DEF ProgressInv, OneInv, RevokeInv, GrantInv, DeleteInv
  <1>13. CASE RemoveRole(r)
    <2>1. /\ pc[r] = "removeRole" /\ pc'[r] \in {"cascade", "ready"} /\ op'[r] = op[r] /\ draft' = draft
          /\ Deletes(op[r])
      BY <1>0, <1>13 DEF RemoveRole, Goto, Types, OpInv
    <2>2. \A i \in Rows : (Shown(r, i)' <=> Shown(r, i)) /\ (Present(i)' <=> Present(i))
      BY <1>1, <2>1 DEF Shown, Sees, Present
    <2> QED
      BY <1>2, <2>1, <2>2 DEF ProgressInv, OneInv, RevokeInv, GrantInv, DeleteInv, Adds, Removes, Deletes
  <1>14. CASE Cascade(r)
    <2>1. pc[r] = "cascade" /\ pc'[r] = "ready" /\ op'[r] = op[r] /\ Deletes(op[r])
      BY <1>0, <1>14 DEF Cascade, Goto, Types, OpInv
    <2>2. \A i \in Rows : ~Shown(r, i)' /\ (Present(i)' <=> Present(i))
      <3>1. \A i \in Rows : draft'[r][i] = IF rows[i] # "none" THEN "none" ELSE "same"
        BY <1>0, <1>14 DEF Cascade, Types
      <3> QED
        BY <1>1, <3>1 DEF Shown, Sees, Present
    <2> QED
      BY <1>2, <2>1, <2>2 DEF ProgressInv, OneInv, RevokeInv, GrantInv, DeleteInv, Adds, Removes, Deletes
  <1>15. ~Commit(r) /\ ~Rollback(r)
    BY <1>0, <1>1 DEF Commit, Rollback, End, Goto, Types
  <1> QED
    BY <1>4, <1>5, <1>6, <1>7, <1>8, <1>9, <1>10, <1>11, <1>12, <1>13, <1>14, <1>15 DEF RequestStep

-----------------------------------------------------------------------------
LEMMA StepRolesInv == RolesInv /\ [GNext]_<<vars, met, raced>> => RolesInv'
  <1> SUFFICES ASSUME RolesInv, [GNext]_<<vars, met, raced>> PROVE RolesInv'
    OBVIOUS
  <1>1. CASE GNext
    <2>0. TypeOK /\ Next /\ \A r \in Requests : OpInv(r)
      BY <1>1 DEF RolesInv, GNext
    <2>1. Types' /\ Locks' /\ \A r \in Requests : OpInv(r)'
      BY <2>0, StepTypes, StepLocks, StepOpInv
    <2>2. TypeOK'
      BY <1>1, <2>0, <2>1, HistoryFact, MetTypes DEF Types, Labels, Locks, Locked, TypeOK
    <2>3. MetInv' /\ (~raced' => OneRow')
      BY <1>1, <2>1, StepMetInv, StepOneRow
    <2>4. (raced => raced') /\ \A r \in Requests : pc'[r] # "idle" => met[r] \subseteq met'[r]
      BY <1>1, <2>0, HistoryFact
    <2>5. ASSUME NEW r \in Requests PROVE ProgressInv(r)'
      <3>1. CASE pc'[r] = "idle"
        BY <2>1, <2>3, <3>1, FreshProgress DEF OpInv
      <3>2. CASE pc'[r] # "idle" /\ Within(r) /\ RequestStep(r)
        BY <2>1, <2>3, <2>4, <3>2, OwnProgress
      <3>3. CASE pc'[r] # "idle" /\ ~(Within(r) /\ RequestStep(r))
        <4>1. \/ \E q \in Requests \ {r} : Within(q) \/ Ends(q)
              \/ \E i \in Rows : Elapses(i)
          BY <2>0, <3>3, StepKinds DEF Ends
        <4>2. pc[r] # "idle"
          BY <3>3, <4>1 DEF Within, Ends, Others, Elapses, requestVars
        <4> QED
          BY <1>1, <2>1, <2>3, <2>4, <4>1, <4>2, BesideFact, BesideProgress
      <3> QED
        BY <3>1, <3>2, <3>3
    <2> QED
      BY <2>1, <2>2, <2>3, <2>5 DEF RolesInv
  <1>2. CASE UNCHANGED <<vars, met, raced>>
    BY <1>2 DEF vars, requestVars, txVars, RolesInv, TypeOK, Locked, MetInv, OpInv, ProgressInv, OneInv,
      RevokeInv, GrantInv, DeleteInv, OneRow, Shown, Sees, Present
  <1> QED
    BY <1>1, <1>2

LEMMA RolesInvAlways == GSpec => []RolesInv
  BY InitRolesInv, StepRolesInv, PTL DEF GSpec

\* Two transactions never hold a write of one row, and the role is not deleted
\* while an insert of an assignment holds on to it.
THEOREM TypeCorrect == GSpec => []TypeOK
  <1>1. RolesInv => TypeOK
    BY DEF RolesInv
  <1> QED
    BY <1>1, RolesInvAlways, PTL

\* A user is assigned a role twice only if two requests that assign it overlapped.
THEOREM DoubledOnlyByRace == GSpec => []DuplicatesOnlyByRace
  <1>1. RolesInv => DuplicatesOnlyByRace
    <2> SUFFICES ASSUME RolesInv, ~raced
                 PROVE  ~(Cardinality({i \in Rows : rows[i] # "none"}) > 1)
      BY DEF DuplicatesOnlyByRace
    <2> DEFINE there == {i \in Rows : rows[i] # "none"}
    <2>1. \A i, j \in there : i = j
      BY DEF RolesInv, OneRow, Present
    <2>2. there = {} \/ \E i : there = {i}
      BY <2>1
    <2>3. Cardinality(there) \in {0, 1}
      BY <2>2, FS_EmptySet, FS_Singleton
    <2> QED
      BY <2>3
  <1> QED
    BY <1>1, RolesInvAlways, PTL

\* A request that removes the role has removed it when it commits, unless one that
\* adds it overlapped or a race has left a duplicate.
THEOREM RevokesForSure == GSpec => []RevokeRevokes
  <1>1. RolesInv => RevokeRevokes
    BY DEF RolesInv, ProgressInv, RevokeInv, RevokeRevokes, Ready, Visible, Shown, Removes
  <1> QED
    BY <1>1, RolesInvAlways, PTL

\* A request that adds the role has given it when it commits, whatever others add.
THEOREM GrantsForSure == GSpec => []GrantSticks
  <1>1. RolesInv => GrantSticks
    BY DEF RolesInv, ProgressInv, GrantInv, GrantSticks, Ready, Adds, Removes
  <1> QED
    BY <1>1, RolesInvAlways, PTL

\* Deleting a role takes assignments along only if a request that adds one overlapped.
THEOREM CascadesOnlyInRaces == GSpec => []CascadeOnlyRaces
  <1>1. RolesInv => CascadeOnlyRaces
    BY DEF RolesInv, OpInv, ProgressInv, DeleteInv, CascadeOnlyRaces, Ready, Present
  <1> QED
    BY <1>1, RolesInvAlways, PTL
=============================================================================
