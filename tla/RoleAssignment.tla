---------------------------- MODULE RoleAssignment ----------------------------
(***************************************************************************)
(* The assignments of one custom role to one user of Generic-IAM:          *)
(* AssignmentService.assignToUser and updateUserRoles,                     *)
(* RoleService.deleteCustomRole and RbacScheduler.purgeExpiredRoles.       *)
(*                                                                         *)
(* Every request runs in the transaction of TenantTransactionInterceptor,  *)
(* at PostgreSQL's READ COMMITTED: a statement reads what is committed     *)
(* when it starts and what its transaction has written, and a write waits  *)
(* for another transaction that has written the same row.  The table       *)
(* user_roles has no unique constraint; its role_id references roles, ON   *)
(* DELETE CASCADE.                                                         *)
(***************************************************************************)
EXTENDS Integers, FiniteSets

CONSTANTS
    Rows,       \* bound: the ids of rows of user_roles
    Requests,   \* the HTTP requests that can be in progress at a time
    NoRow

ASSUME NoRowAssumption == NoRow \notin Rows

\* A row is not there, or has an expires_at that is null, to come or over.
Expiry == {"never", "future", "past"}
Cell   == Expiry \cup {"none"}

\* add: the expires_at of an item of dto.add, if the role is in dto.add at all;
\* remove: whether it is in dto.remove.  A request without either deletes the role.
Operation == [add : {"no", "never", "future"}, remove : BOOLEAN]
Deletion  == [add |-> "no", remove |-> FALSE]

VARIABLES
    role,      \* whether the row of the role is committed
    rows,      \* the committed rows of user_roles, for this user and role
    pc,        \* where each request is
    op,        \* its Operation
    row,       \* the row it has found
    draft,     \* what its transaction has written: a cell, or "same" where nothing
    shares,    \* whether an INSERT of it holds the key share lock on the role
    dropped    \* whether it has deleted the role, and so locks it

requestVars == <<pc, op, row>>
txVars      == <<draft, shares, dropped>>
vars        == <<role, rows, requestVars, txVars>>

Untouched == [i \in Rows |-> "same"]

Init ==
    /\ role = TRUE
    /\ rows \in {[i \in Rows |-> "none"]} \cup
                {[i \in Rows |-> IF i = j THEN e ELSE "none"] : j \in Rows, e \in Expiry}
    /\ pc = [r \in Requests |-> "idle"]
    /\ op = [r \in Requests |-> Deletion]
    /\ row = [r \in Requests |-> NoRow]
    /\ draft = [r \in Requests |-> Untouched]
    /\ shares = [r \in Requests |-> FALSE]
    /\ dropped = [r \in Requests |-> FALSE]

-----------------------------------------------------------------------------
(* What a transaction sees and may write. *)

Sees(r, i)  == IF draft[r][i] = "same" THEN rows[i] ELSE draft[r][i]
Visible(r)  == {i \in Rows : Sees(r, i) # "none"}
Locked(r, i) == \E q \in Requests \ {r} : draft[q][i] # "same"
Write(r, i, v) == draft' = [draft EXCEPT ![r][i] = v]

Goto(r, label) == pc' = [pc EXCEPT ![r] = label]
ReadOnly == UNCHANGED <<role, rows, op, txVars>>

End(r) ==
    /\ Goto(r, "idle")
    /\ op' = [op EXCEPT ![r] = Deletion]
    /\ row' = [row EXCEPT ![r] = NoRow]
    /\ draft' = [draft EXCEPT ![r] = Untouched]
    /\ shares' = [shares EXCEPT ![r] = FALSE]
    /\ dropped' = [dropped EXCEPT ![r] = FALSE]

\* The handler throws, a statement fails or the instance stops.
Rollback(r) == pc[r] # "idle" /\ End(r) /\ UNCHANGED <<role, rows>>

Commit(r) ==
    /\ pc[r] = "ready"
    /\ rows' = [i \in Rows |-> Sees(r, i)]
    /\ role' = (role /\ ~dropped[r])
    /\ End(r)

-----------------------------------------------------------------------------
(* assignToUser and updateUserRoles.  The former is an updateUserRoles that *)
(* only adds.  The lookup of the user, who is there, is left out.           *)

Begin(r, o) ==
    /\ pc[r] = "idle"
    /\ Goto(r, IF o.add = "no" /\ o.remove THEN "revoke" ELSE "role")
    /\ op' = [op EXCEPT ![r] = o]
    /\ UNCHANGED <<role, rows, row, txVars>>

\* findOneForTenant throws when there is no role.
FindRole(r) ==
    /\ pc[r] = "role" /\ role
    /\ Goto(r, IF op[r] = Deletion THEN "count" ELSE "find")
    /\ UNCHANGED row /\ ReadOnly

\* Mutant: an expired assignment is not looked for.
FindUnexpired(r) ==
    LET found == {i \in Visible(r) : Sees(r, i) # "past"} IN
    /\ pc[r] = "find"
    /\ IF found = {} THEN Goto(r, "insert") /\ UNCHANGED row
                     ELSE Goto(r, "save") /\ \E i \in found : row' = [row EXCEPT ![r] = i]
    /\ ReadOnly

\* findOne of the assignment, expired or not: any one of several.
FindExisting(r) ==
    /\ pc[r] = "find"
    /\ IF Visible(r) = {}
          THEN Goto(r, "insert") /\ UNCHANGED row
          ELSE Goto(r, "save") /\ \E i \in Visible(r) : row' = [row EXCEPT ![r] = i]
    /\ ReadOnly

AfterAdd(r) == IF op[r].remove THEN "revoke" ELSE "ready"

\* Mutant: an existing assignment is left as it is.
KeepExisting(r) ==
    /\ pc[r] = "save"
    /\ Goto(r, AfterAdd(r))
    /\ UNCHANGED row /\ ReadOnly

\* save() of an existing entity reads the row again by its id: it inserts the
\* row when it is gone, and updates it when the dates differ.
SaveExisting(r) ==
    LET now == Sees(r, row[r]) IN
    /\ pc[r] = "save"
    /\ \/ now = "none" /\ Goto(r, "insert")
       \/ now = op[r].add /\ Goto(r, AfterAdd(r))
       \/ now # "none" /\ {now, op[r].add} # {"never"} /\ Goto(r, "update")
    /\ UNCHANGED row /\ ReadOnly

\* The UPDATE finds no row, and does not mind, when it was deleted meanwhile.
Update(r) ==
    LET i == row[r] IN
    /\ pc[r] = "update" /\ ~Locked(r, i)
    /\ IF Sees(r, i) = "none" THEN UNCHANGED draft ELSE Write(r, i, op[r].add)
    /\ Goto(r, AfterAdd(r))
    /\ UNCHANGED <<role, rows, op, row, shares, dropped>>

\* An INSERT locks the role against deletion, after waiting for one that is
\* under way.  Without the role it fails.
Insert(r, i) ==
    /\ pc[r] = "insert" /\ row[r] \in {NoRow, i}
    /\ rows[i] = "none" /\ ~Locked(r, i)
    /\ role /\ \A q \in Requests : ~dropped[q]
    /\ Write(r, i, op[r].add)
    /\ shares' = [shares EXCEPT ![r] = TRUE]
    /\ Goto(r, AfterAdd(r))
    /\ UNCHANGED <<role, rows, op, row, dropped>>

\* Mutant: only an unexpired assignment is removed.
RevokeUnexpired(r) ==
    LET found == {i \in Visible(r) : Sees(r, i) # "past"} IN
    /\ pc[r] = "revoke"
    /\ IF found = {} THEN Goto(r, "ready") /\ UNCHANGED row
                     ELSE Goto(r, "delete") /\ \E i \in found : row' = [row EXCEPT ![r] = i]
    /\ ReadOnly

\* findOne again, and remove() of the row it finds.
Revoke(r) ==
    /\ pc[r] = "revoke"
    /\ IF Visible(r) = {}
          THEN Goto(r, "ready") /\ UNCHANGED row
          ELSE Goto(r, "delete") /\ \E i \in Visible(r) : row' = [row EXCEPT ![r] = i]
    /\ ReadOnly

Delete(r) ==
    /\ pc[r] = "delete" /\ ~Locked(r, row[r])
    /\ IF Sees(r, row[r]) = "none" THEN UNCHANGED draft ELSE Write(r, row[r], "none")
    /\ Goto(r, "ready")
    /\ UNCHANGED <<role, rows, op, row, shares, dropped>>

-----------------------------------------------------------------------------
(* deleteCustomRole. *)

\* Mutant: only assignments in force are counted.
CountUnexpired(r) ==
    /\ pc[r] = "count" /\ \A i \in Visible(r) : Sees(r, i) = "past"
    /\ Goto(r, "removeRole")
    /\ UNCHANGED row /\ ReadOnly

\* With any assignment, the request ends with a conflict.
CountUsers(r) ==
    /\ pc[r] = "count" /\ Visible(r) = {}
    /\ Goto(r, "removeRole")
    /\ UNCHANGED row /\ ReadOnly

\* Mutant: the role is deleted without waiting, as without the foreign key.
RemoveRoleAnyway(r) ==
    /\ pc[r] = "removeRole"
    /\ dropped' = [dropped EXCEPT ![r] = role]
    /\ Goto(r, IF role THEN "cascade" ELSE "ready")
    /\ UNCHANGED <<role, rows, op, row, draft, shares>>

\* The DELETE waits for transactions that insert assignments of the role, or
\* delete it too.
RemoveRole(r) ==
    /\ pc[r] = "removeRole"
    /\ \A q \in Requests \ {r} : ~shares[q] /\ ~dropped[q]
    /\ dropped' = [dropped EXCEPT ![r] = role]
    /\ Goto(r, IF role THEN "cascade" ELSE "ready")
    /\ UNCHANGED <<role, rows, op, row, draft, shares>>

\* The foreign key takes the assignments along that are committed by now.
Cascade(r) ==
    /\ pc[r] = "cascade" /\ \A i \in Rows : ~Locked(r, i)
    /\ draft' = [draft EXCEPT ![r] =
                    [i \in Rows |-> IF rows[i] # "none" THEN "none" ELSE "same"]]
    /\ Goto(r, "ready")
    /\ UNCHANGED <<role, rows, op, row, shares, dropped>>

-----------------------------------------------------------------------------
\* expires_at of a committed row passes.
Expire(i) ==
    /\ rows[i] = "future"
    /\ rows' = [rows EXCEPT ![i] = "past"]
    /\ UNCHANGED <<role, requestVars, txVars>>

\* The hourly DELETE, row by row.  It waits for a transaction that has written
\* the row, and looks at it again.
PurgeExpired(i) ==
    /\ rows[i] = "past" /\ \A r \in Requests : draft[r][i] = "same"
    /\ rows' = [rows EXCEPT ![i] = "none"]
    /\ UNCHANGED <<role, requestVars, txVars>>

RequestStep(r) ==
    \/ \E o \in Operation : Begin(r, o)
    \/ FindRole(r) \/ FindExisting(r) \/ SaveExisting(r) \/ Update(r)
    \/ \E i \in Rows : Insert(r, i)
    \/ Revoke(r) \/ Delete(r)
    \/ CountUsers(r) \/ RemoveRole(r) \/ Cascade(r)
    \/ Commit(r) \/ Rollback(r)

Next ==
    \/ \E r \in Requests : RequestStep(r)
    \/ \E i \in Rows : Expire(i) \/ PurgeExpired(i)

Spec == Init /\ [][Next]_vars
=============================================================================
