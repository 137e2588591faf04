--------------------------- MODULE AuthzCacheProofs ---------------------------
(***************************************************************************)
(* Proofs about AuthzCache: the types, and the coherence of its caches.    *)
(* Whatever the number of users, checks and requests, the events keep the  *)
(* caches coherent with the database, unless one of the five hazards of    *)
(* AuthzCoherence gets in their way.                                       *)
(***************************************************************************)
EXTENDS AuthzCoherence, TLAPS

LEMMA MaxFact == \A a, b \in Nat : Max2(a, b) \in Nat /\ a =< Max2(a, b) /\ b =< Max2(a, b)
  BY DEF Max2

\* A view stays a view when one of its rows becomes another one of its kind.
LEMMA ViewFact ==
  ASSUME NEW w \in View, NEW f \in Fact, NEW v \in RowsOf(f)
  PROVE  [w EXCEPT ![f] = v] \in View
  BY DEF View, RowsOf, Fact, Row

LEMMA InitTypeOK == Init => TypeOK
  <1> SUFFICES ASSUME Init PROVE TypeOK
    OBVIOUS
  <1>1. DbOK
    BY ConstantsAssumption DEF Init, DbOK
  <1>2. CacheOK
    BY ConstantsAssumption, MaxFact DEF Init, CacheOK, NoEntry, Entry
  <1>3. ChecksOK
    BY ConstantsAssumption DEF Init, ChecksOK, Label
  <1>4. RequestsOK
    BY DEF Init, RequestsOK, Change, Row, Fact
  <1> QED
    BY <1>1, <1>2, <1>3, <1>4 DEF TypeOK

\* Writing to Redis and deleting from it keep its type.
LEMMA PutType ==
  ASSUME CacheOK, NEW k \in Key, NEW v \in BOOLEAN, Put(k, v)
  PROVE  CacheOK'
  <1>1. TTL(k) \in 0..Max2(PermsTTL, DecisionTTL)
    BY MaxFact, ConstantsAssumption DEF TTL
  <1>2. [val |-> v, ttl |-> TTL(k)] \in Entry
    BY <1>1 DEF Entry
  <1> QED
    BY <1>2 DEF CacheOK, Put

LEMMA DelType ==
  ASSUME CacheOK, NEW ks, Del(ks)
  PROVE  CacheOK'
  BY MaxFact, ConstantsAssumption DEF CacheOK, Entry, Del, NoEntry

LEMMA ContinueType ==
  ASSUME ChecksOK, NEW c \in Checks, NEW label \in Label, NEW v \in BOOLEAN,
         Continue(c, label, v), UNCHANGED <<subject, scope>>
  PROVE  ChecksOK'
  BY DEF ChecksOK, Continue, Goto, Found

LEMMA ReplyType ==
  ASSUME ChecksOK, NEW c \in Checks, NEW v \in {"none", "allow", "deny"},
         Reply(c, v), UNCHANGED <<subject, scope>>
  PROVE  ChecksOK'
  BY ConstantsAssumption DEF ChecksOK, Reply, Goto, Found, Label

LEMMA KeyFact ==
  ASSUME ChecksOK, NEW c \in Checks
  PROVE  /\ <<subject[c], "perms">> \in Key
         /\ <<subject[c], "acl">> \in Key
         /\ <<subject[c], scope[c]>> \in Key
  BY ConstantsAssumption DEF ChecksOK, Key

-----------------------------------------------------------------------------
(* The steps of a check leave what requests and handlers own alone.         *)
LEMMA CheckStepType ==
  ASSUME TypeOK, NEW c \in Checks, CheckStep(c) \/ CheckFails(c)
  PROVE  TypeOK'
  <1> USE DEF TypeOK
  <1>0. subject[c] \in Users /\ scope[c] \in {"plain", "resource"} /\ seen[c] \in BOOLEAN
    BY ConstantsAssumption DEF ChecksOK
  <1>1. UNCHANGED <<subject, scope, db, tx, change, eventVars>>
    BY DEF CheckStep, CheckFails, PermsTier, DecisionTier, GetDecision, GetPermissions,
           GetUserRoles, GetRolePermissions, GetOverridesForUser, SetPermissions, GetAcl, CountAcl,
           SetAcl, SetDecision, CheckOnly
  <1>2. DbOK' /\ RequestsOK'
    BY <1>1 DEF DbOK, RequestsOK, eventVars
  <1>3. \A v : AfterPerms(c, v) \in Label
    BY DEF AfterPerms, Label
  <1>4. \A k \in Key : cache[k].val \in BOOLEAN
    BY DEF CacheOK, Entry
  <1>5. CASE GetDecision(c)
    BY <1>1, <1>5, <1>2, ReplyType, ContinueType DEF GetDecision, CacheOK, Label
  <1>6. CASE GetPermissions(c)
    BY <1>1, <1>2, <1>3, <1>4, <1>6, KeyFact, ContinueType DEF GetPermissions, CacheOK, Label
  <1>7. CASE GetUserRoles(c)
    BY <1>1, <1>2, <1>7, ContinueType DEF GetUserRoles, CacheOK, Label
  <1>8. CASE GetRolePermissions(c)
    BY <1>1, <1>2, <1>8, ContinueType DEF GetRolePermissions, CacheOK, Label
  <1>9. CASE GetOverridesForUser(c)
    BY <1>1, <1>2, <1>9, ContinueType DEF GetOverridesForUser, CacheOK, Label, Effective
  <1>10. CASE SetPermissions(c)
    BY <1>0, <1>1, <1>2, <1>3, <1>10, KeyFact, ContinueType, PutType DEF SetPermissions
  <1>11. CASE GetAcl(c)
    BY <1>1, <1>2, <1>4, <1>11, KeyFact, ContinueType DEF GetAcl, CacheOK, Label
  <1>12. CASE CountAcl(c)
    BY <1>1, <1>2, <1>12, ContinueType DEF CountAcl, CacheOK, Label
  <1>13. CASE SetAcl(c)
    BY <1>0, <1>1, <1>2, <1>13, KeyFact, ContinueType, PutType DEF SetAcl, Label
  <1>14. CASE SetDecision(c)
    BY <1>0, <1>1, <1>2, <1>14, KeyFact, ReplyType, PutType DEF SetDecision
  <1>15. CASE CheckFails(c)
    BY <1>1, <1>2, <1>15, ReplyType DEF CheckFails, CacheOK
  <1>16. CASE PermsTier(c)
    BY <1>1, <1>2, <1>16, ReplyType, ContinueType DEF PermsTier, CacheOK, Label
  <1>17. CASE DecisionTier(c)
    BY <1>1, <1>2, <1>17, ReplyType, ContinueType DEF DecisionTier, CacheOK, Label
  <1> QED
    BY <1>5, <1>6, <1>7, <1>8, <1>9, <1>10, <1>11, <1>12, <1>13, <1>14, <1>15, <1>16, <1>17
       DEF CheckStep

LEMMA CheckType ==
  ASSUME TypeOK, NEW c \in Checks, NEW u \in Users, NEW s \in Scopes,
         Check(c, u, s) \/ IsAllowed(c, u, s)
  PROVE  TypeOK'
  BY DEF TypeOK, Check, IsAllowed, Begin, Goto, ChecksOK, Label, DbOK, CacheOK, RequestsOK, eventVars

-----------------------------------------------------------------------------
(* Requests. *)
LEMMA SaveAndEmitType ==
  ASSUME TypeOK, NEW r \in Requests, NEW op, NEW users \in SUBSET Users, NEW row \in Row,
         op # "delete", op \in Fact => row \in RowsOf(op), SaveAndEmit(r, op, users, row)
  PROVE  TypeOK'
  <1>1. [op |-> op, users |-> users, row |-> row] \in Change
    BY ConstantsAssumption DEF Change, SaveAndEmit
  <1>2. RequestsOK'
    BY <1>1 DEF TypeOK, RequestsOK, SaveAndEmit, RequestOnly, Handling
  <1> QED
    BY <1>2 DEF TypeOK, SaveAndEmit, RequestOnly, DbOK, CacheOK, ChecksOK, checkVars

LEMMA RequestType ==
  ASSUME TypeOK, NEW r \in Requests, Request(r)
  PROVE  TypeOK'
  <1>1. \A f \in Fact : RowsOf(f) \subseteq Row
    BY DEF RowsOf, Row, Fact
  <1>2. CASE UpdateUserRoles(r)
    BY <1>1, <1>2, SaveAndEmitType DEF UpdateUserRoles, Fact
  <1>3. CASE ChangeOverride(r)
    BY <1>1, <1>3, SaveAndEmitType DEF ChangeOverride, Fact
  <1>4. CASE UpdateRolePermissions(r)
    BY <1>1, <1>4, SaveAndEmitType DEF UpdateRolePermissions, Fact
  <1>5. CASE ChangeAcl(r)
    BY <1>1, <1>5, SaveAndEmitType DEF ChangeAcl, Fact
  <1>6. CASE SetActivation(r)
    BY <1>6, SaveAndEmitType DEF SetActivation, Fact, Row
  <1>7. CASE CountUserRoles(r)
    <2>1. [op |-> "delete", users |-> Users, row |-> "absent"] \in Change
      BY DEF Change, Row, Fact
    <2>2. RequestsOK'
      BY <1>7, <2>1 DEF CountUserRoles, RequestOnly, TypeOK, RequestsOK
    <2> QED
      BY <1>7, <2>2 DEF CountUserRoles, RequestOnly, TypeOK, DbOK, CacheOK, ChecksOK, checkVars
  <1>8. CASE RemoveRole(r)
    BY <1>8 DEF RemoveRole, RequestOnly, TypeOK, RequestsOK, DbOK, CacheOK, ChecksOK, checkVars
  <1> QED
    BY <1>2, <1>3, <1>4, <1>5, <1>6, <1>7, <1>8 DEF Request

LEMMA CommitType ==
  ASSUME TypeOK, NEW r \in Requests, Commit(r) \/ Rollback(r)
  PROVE  TypeOK'
  <1>1. UNCHANGED <<cache, checkVars, found, change, stage>>
    BY DEF Commit, Rollback, RequestOnly
  <1>2. RequestsOK'
    BY <1>1 DEF TypeOK, RequestsOK, Commit, Rollback
  <1>3. DbOK'
    <2>1. CASE Rollback(r)
      BY <2>1 DEF Rollback, TypeOK, DbOK
    <2>2. CASE Commit(r)
      <3>1. change[r] \in Change
        BY DEF TypeOK, RequestsOK
      <3>2. ASSUME NEW u \in Users
            PROVE  db'[u] \in View
        <4>1. db[u] \in View /\ change[r].row \in Row
          BY <3>1 DEF Change, TypeOK, DbOK
        <4>2. db'[u] = [f \in Fact |->
                  IF u \in change[r].users /\ f \in Writes(change[r].op)
                  THEN change[r].row ELSE db[u][f]]
          BY <2>2 DEF Commit
        <4>3. \A f \in Fact : db'[u][f] \in RowsOf(f) /\ db'[u][f] \in Row
          BY <3>1, <4>1, <4>2 DEF Change, View, Writes, RowsOf, Row, Fact
        <4> QED
          BY <4>2, <4>3 DEF View
      <3> QED
        BY <2>2, <3>2 DEF Commit, DbOK
    <2> QED
      BY <2>1, <2>2
  <1> QED
    BY <1>1, <1>2, <1>3 DEF TypeOK, CacheOK, ChecksOK, checkVars

LEMMA RoleExpiresType ==
  ASSUME TypeOK, NEW u \in Users, RoleExpires(u)
  PROVE  TypeOK'
  <1>1. [db[u] EXCEPT !["role"] = "absent"] \in View
    BY ViewFact DEF TypeOK, DbOK, Fact, RowsOf
  <1>2. DbOK'
    BY <1>1 DEF RoleExpires, TypeOK, DbOK
  <1> QED
    BY <1>2 DEF TypeOK, RoleExpires, RequestOnly, CacheOK, ChecksOK, RequestsOK, checkVars

-----------------------------------------------------------------------------
(* Handlers and the clock. *)
LEMMA HandlerType ==
  ASSUME TypeOK, NEW r \in Requests, Handle(r) \/ LoseEvent(r) \/ Redeliver(r)
  PROVE  TypeOK'
  <1> USE DEF TypeOK
  <1>1. DbOK' /\ ChecksOK'
    BY DEF Handle, DelUserPerms, ScanPerms, DelPerms, ScanAuthz, DelAuthz, InvalidateAclCache,
           InvalidateAuthzDecision, HandlerStep, LoseEvent, Redeliver, DbOK, ChecksOK, checkVars
  <1>2. CacheOK'
    BY DelType DEF Handle, DelUserPerms, ScanPerms, DelPerms, ScanAuthz, DelAuthz, Collect,
           InvalidateAclCache, InvalidateAuthzDecision, LoseEvent, Redeliver, CacheOK
  <1>3. found' \in [Requests -> SUBSET Key]
    <2>1. change[r].users \X {"plain", "resource"} \subseteq Key
      BY DEF RequestsOK, Change, Key
    <2>2. Users \X {"perms"} \subseteq Key
      BY DEF Key
    <2> QED
      BY <2>1, <2>2 DEF RequestsOK, Handle, DelUserPerms, ScanPerms, DelPerms, ScanAuthz,
         DelAuthz, Collect, Forget, InvalidateAclCache, InvalidateAuthzDecision, LoseEvent, Redeliver
  <1>4. RequestsOK'
    BY <1>3 DEF RequestsOK, Handle, DelUserPerms, ScanPerms, DelPerms, ScanAuthz, DelAuthz,
       InvalidateAclCache, InvalidateAuthzDecision, HandlerStep, LoseEvent, Redeliver, Handling
  <1> QED
    BY <1>1, <1>2, <1>4

LEMMA TickType == TypeOK /\ Tick => TypeOK'
  <1> SUFFICES ASSUME TypeOK, Tick PROVE TypeOK'
    OBVIOUS
  <1> USE DEF TypeOK
  <1>1. CacheOK'
    BY ConstantsAssumption, MaxFact DEF Tick, CacheOK, Entry, NoEntry
  <1>2. ChecksOK'
    BY ConstantsAssumption DEF Tick, ChecksOK
  <1> QED
    BY <1>1, <1>2 DEF Tick, DbOK, RequestsOK, eventVars

LEMMA NextTypeOK == TypeOK /\ [Next]_vars => TypeOK'
  <1> SUFFICES ASSUME TypeOK, [Next]_vars PROVE TypeOK'
    OBVIOUS
  <1>1. CASE Step
    BY <1>1, CheckType, CheckStepType, RequestType, CommitType, RoleExpiresType, HandlerType
       DEF Step
  <1>2. CASE Tick
    BY <1>2, TickType
  <1>3. CASE UNCHANGED vars
    BY <1>3 DEF vars, checkVars, eventVars, TypeOK, DbOK, CacheOK, ChecksOK, RequestsOK
  <1> QED
    BY <1>1, <1>2, <1>3 DEF Next

\* The variables of AuthzCache always have their types: in particular a check
\* is never older than CheckTime, an entry never outlives its TTL, and a change
\* only ever names rows that its operation writes.
THEOREM TypeCorrect == Spec => []TypeOK
  <1> QED
    BY InitTypeOK, NextTypeOK, PTL DEF Spec

-----------------------------------------------------------------------------
(* Coherence *)

\* The kinds of entries that can become stale by an operation.
Touches(op) ==
    CASE op \in {"role", "grant", "override"} -> {"perms", "plain", "resource"}
      [] op = "acl" -> {"acl", "resource"}
      [] OTHER -> {}

\* The handler of request r has yet to clear entry k, which the request made stale.
Due(r, k) ==
    /\ k[2] \in Touches(change[r].op)
    /\ \/ stage[r] = "sent"
       \/ stage[r] = "permsFound" /\ (k[2] \in {"plain", "resource"} \/ (k[2] = "perms" /\ k \in found[r]))
       \/ stage[r] = "permsGone" /\ k[2] \in {"plain", "resource"}
       \/ stage[r] = "authzFound" /\ k[2] \in {"plain", "resource"} /\ k \in found[r]
       \/ stage[r] = "aclGone" /\ k[2] = "resource"

Excused(k) == \E r \in Requests : Concerns(r, k[1]) /\ tx[r] = "committed" /\ Due(r, k)

\* What a check has found is what the rows decide, or the entry it will go to is due.
Told(c, kind, v, key) ==
    Decides(kind, db[subject[c]]) = v \/ Excused(<<subject[c], key>>)

FoundInv(c) ==
    /\ pc[c] = "grants"    => Told(c, "role", TRUE, "perms")
    /\ pc[c] = "overrides" => Told(c, "roles", seen[c], "perms")
    /\ pc[c] = "setPerms"  => Told(c, "perms", seen[c], "perms")
    /\ pc[c] \in {"acl", "countAcl", "setAcl"} => scope[c] = "resource" /\ Told(c, "perms", FALSE, "perms")
    /\ pc[c] = "setAcl"      => Told(c, "acl", seen[c], "acl")
    /\ pc[c] = "setDecision" => Told(c, scope[c], seen[c], scope[c])

\* The event of a request has left when its rows are written; deleteCustomRole,
\* which alone counts first, has none.
OpenInv(u)    == \A r \in Requests : Concerns(r, u) /\ change[r].op # "delete" =>
    tx[r] # "counted" /\ (tx[r] = "open" => stage[r] = "sent")
EntriesInv(u) == \A k \in Key : k[1] = u /\ Stale(k) => Excused(k)
ChecksInv(u)  == \A c \in Checks : subject[c] = u => FoundInv(c)

CoherenceInv ==
    /\ TypeOK
    /\ hazard \in [Users -> SUBSET Hazard]
    /\ \A u \in Users : hazard[u] = {} => OpenInv(u) /\ EntriesInv(u) /\ ChecksInv(u)

-----------------------------------------------------------------------------
LEMMA DecidesFact ==
  ASSUME NEW w
  PROVE  /\ Decides("role", w)     = (w["role"] = "present")
         /\ Decides("roles", w)    = (w["role"] = "present" /\ w["grant"] = "present")
         /\ Decides("perms", w)    = Effective(Decides("roles", w), w["override"])
         /\ Decides("acl", w)      = (w["acl"] = "present")
         /\ Decides("plain", w)    = Decides("perms", w)
         /\ Decides("resource", w) = (Decides("perms", w) \/ Decides("acl", w))
  BY DEF Decides, RoleGrants, Granted

\* Views with the same rows decide the same.
LEMMA SameRows ==
  ASSUME NEW w, NEW z, \A f \in Fact : z[f] = w[f]
  PROVE  \A kind \in {"role", "roles", "perms", "acl", "plain", "resource"} :
             Decides(kind, z) = Decides(kind, w)
  BY DecidesFact DEF Fact

\* An event that is due to clear the permission set will clear the decisions too,
\* and one that clears an ACL the decisions about resources.
LEMMA DueFact ==
  ASSUME NEW u \in Users
  PROVE  /\ Excused(<<u, "perms">>) => Excused(<<u, "plain">>) /\ Excused(<<u, "resource">>)
         /\ Excused(<<u, "acl">>) => Excused(<<u, "resource">>)
  BY DEF Excused, Due, Touches, Concerns

LEMMA InitCoherenceInv == HInit => CoherenceInv
  <1> SUFFICES ASSUME HInit PROVE CoherenceInv
    OBVIOUS
  <1>1. TypeOK /\ hazard \in [Users -> SUBSET Hazard]
    BY InitTypeOK DEF HInit
  <1>2. ASSUME NEW u \in Users PROVE OpenInv(u) /\ EntriesInv(u) /\ ChecksInv(u)
    BY DEF HInit, Init, OpenInv, EntriesInv, Stale, Present, NoEntry, ChecksInv, FoundInv
  <1> QED
    BY <1>1, <1>2 DEF CoherenceInv

-----------------------------------------------------------------------------
(* The steps of others than checks.                                         *)

\* Entries of u may go, its rows decide the same, and what is due remains so, unless
\* the entry is gone and no check of u is in progress.
Undisturbed(u) ==
    /\ \A kind \in {"role", "roles", "perms", "acl", "plain", "resource"} :
            Decides(kind, db'[u]) = Decides(kind, db[u])
    /\ UNCHANGED <<pc, subject, scope, seen>>
    /\ \A k \in Key : k[1] = u =>
        /\ Present(k)' => Present(k) /\ cache'[k].val = cache[k].val
        /\ Excused(k) => \/ Excused(k)'
                         \/ ~Present(k)' /\ \A c \in Checks : subject[c] = u => pc[c] = "idle"

LEMMA UndisturbedKeeps ==
  ASSUME NEW u \in Users, Undisturbed(u), EntriesInv(u), ChecksInv(u), TypeOK
  PROVE  EntriesInv(u)' /\ ChecksInv(u)'
  <1>1. EntriesInv(u)'
    <2> SUFFICES ASSUME NEW k \in Key, k[1] = u, Stale(k)' PROVE Excused(k)'
      BY DEF EntriesInv
    <2>1. k[2] \in {"perms", "acl", "plain", "resource"}
      BY DEF Key
    <2> QED
      BY <2>1 DEF Undisturbed, EntriesInv, Stale
  <1>2. ASSUME NEW c \in Checks, subject[c] = u, pc[c] # "idle", NEW key \in {"perms", "acl", "plain", "resource"},
               Excused(<<u, key>>)
        PROVE  Excused(<<u, key>>)'
    <2>1. <<u, key>> \in Key
      BY DEF Key
    <2> QED
      BY <1>2, <2>1 DEF Undisturbed
  <1>3. ASSUME NEW c \in Checks, subject[c] = u PROVE FoundInv(c)'
    <2>1. FoundInv(c)
      BY <1>3 DEF ChecksInv
    <2>2. /\ pc'[c] = pc[c] /\ subject'[c] = u /\ scope'[c] = scope[c] /\ seen'[c] = seen[c]
          /\ \A kind \in {"role", "roles", "perms", "acl", "plain", "resource"} :
                Decides(kind, db'[u]) = Decides(kind, db[u])
      BY <1>3 DEF Undisturbed
    <2>3. scope[c] \in {"plain", "resource"}
      BY ConstantsAssumption DEF TypeOK, ChecksOK
    <2> QED
      BY <1>2, <1>3, <2>1, <2>2, <2>3 DEF FoundInv, Told
  <1> QED
    BY <1>1, <1>3 DEF ChecksInv, Undisturbed

LEMMA RequestCoherent ==
  ASSUME TypeOK, NEW r \in Requests, Request(r), NEW u \in Users,
         OpenInv(u), EntriesInv(u), ChecksInv(u)
  PROVE  OpenInv(u)' /\ EntriesInv(u)' /\ ChecksInv(u)'
  <1>1. /\ tx[r] # "committed" /\ UNCHANGED <<db, cache, pc, subject, scope, seen, found>>
        /\ \A q \in Requests \ {r} : tx'[q] = tx[q] /\ stage'[q] = stage[q] /\ change'[q] = change[q]
    BY DEF Request, UpdateUserRoles, ChangeOverride, UpdateRolePermissions, ChangeAcl, SetActivation,
           CountUserRoles, RemoveRole, SaveAndEmit, RequestOnly, checkVars, TypeOK, RequestsOK
  <1>2. \/ stage'[r] = "sent" /\ tx'[r] # "counted"
        \/ change'[r].op = "delete"
        \/ tx[r] = "counted" /\ UNCHANGED <<change, stage>>
    <2>1. CASE CountUserRoles(r)
      <3>1. change'[r] = [op |-> "delete", users |-> Users, row |-> "absent"]
        BY <2>1 DEF CountUserRoles, TypeOK, RequestsOK
      <3> QED
        BY <3>1
    <2>2. CASE RemoveRole(r)
      BY <2>2 DEF RemoveRole
    <2>3. CASE ~(CountUserRoles(r) \/ RemoveRole(r))
      BY <2>3 DEF Request, UpdateUserRoles, ChangeOverride, UpdateRolePermissions, ChangeAcl,
         SetActivation, SaveAndEmit, TypeOK, RequestsOK
    <2> QED
      BY <2>1, <2>2, <2>3
  <1>3. OpenInv(u)'
    <2> SUFFICES ASSUME NEW q \in Requests, u \in change'[q].users, change'[q].op # "delete"
                 PROVE  tx'[q] # "counted" /\ (tx'[q] = "open" => stage'[q] = "sent")
      BY DEF OpenInv, Concerns
    <2>1. CASE q # r
      BY <1>1, <2>1 DEF OpenInv, Concerns
    <2>2. CASE q = r
      BY <1>2, <2>2 DEF OpenInv, Concerns
    <2> QED
      BY <2>1, <2>2
  <1>4. \A k \in Key : Excused(k) => Excused(k)'
    BY <1>1 DEF Excused, Due, Concerns
  <1>5. Undisturbed(u)
    BY <1>1, <1>4 DEF Undisturbed, Present
  <1> QED
    BY <1>3, <1>5, UndisturbedKeeps

LEMMA RollbackCoherent ==
  ASSUME TypeOK, NEW r \in Requests, Rollback(r), NEW u \in Users,
         OpenInv(u), EntriesInv(u), ChecksInv(u)
  PROVE  OpenInv(u)' /\ EntriesInv(u)' /\ ChecksInv(u)'
  <1>1. /\ tx[r] # "committed"
        /\ UNCHANGED <<db, cache, pc, subject, scope, seen, found, change, stage>>
        /\ tx'[r] = "aborted" /\ \A q \in Requests \ {r} : tx'[q] = tx[q]
    BY DEF Rollback, RequestOnly, checkVars, TypeOK, RequestsOK
  <1>2. OpenInv(u)'
    BY <1>1 DEF OpenInv, Concerns
  <1>3. \A k \in Key : Excused(k) => Excused(k)'
    BY <1>1 DEF Excused, Due, Concerns
  <1>4. Undisturbed(u)
    BY <1>1, <1>3 DEF Undisturbed, Present
  <1> QED
    BY <1>2, <1>4, UndisturbedKeeps

\* A commit makes entries and checks stale; its event, which has not been handled
\* yet, is due for each of them.  A role that is deleted decided nothing for a user
\* to whom it is not assigned by then.
LEMMA CommitCoherent ==
  ASSUME TypeOK, NEW r \in Requests, Commit(r), NEW u \in Users, NewHazards(u) = {},
         OpenInv(u), EntriesInv(u), ChecksInv(u)
  PROVE  OpenInv(u)' /\ EntriesInv(u)' /\ ChecksInv(u)'
  <1> DEFINE op == change[r].op
  <1>1. /\ tx[r] = "open" /\ UNCHANGED <<cache, pc, subject, scope, seen, found, change, stage>>
        /\ tx'[r] = "committed" /\ \A q \in Requests \ {r} : tx'[q] = tx[q]
    BY DEF Commit, RequestOnly, checkVars, TypeOK, RequestsOK
  <1>2. OpenInv(u)'
    BY <1>1 DEF OpenInv, Concerns
  <1>3. \A k \in Key : Excused(k) => Excused(k)'
    BY <1>1 DEF Excused, Due, Concerns
  <1>4. CASE u \notin change[r].users \/ op = "active"
    <2>1. db'[u] = [f \in Fact |-> IF u \in change[r].users /\ f \in Writes(op)
                                    THEN change[r].row ELSE db[u][f]]
      BY DEF Commit
    <2>2. \A f \in Fact : db'[u][f] = db[u][f]
      BY <1>4, <2>1 DEF Writes, Fact
    <2> QED
      BY <1>1, <1>2, <1>3, <2>2, SameRows, UndisturbedKeeps DEF Undisturbed, Present
  <1>6. CASE u \in change[r].users /\ op = "delete"
    <2>1. db'[u] = [f \in Fact |-> IF u \in change[r].users /\ f \in Writes(op)
                                    THEN change[r].row ELSE db[u][f]]
      BY DEF Commit
    <2>2. db'[u]["role"] = "absent"
      BY <1>6, <2>1 DEF Writes, Fact, TypeOK, RequestsOK, Change
    <2>3. db[u]["role"] = "absent"
      BY <1>1, <1>6, <2>2 DEF NewHazards
    <2>4. db'[u]["override"] = db[u]["override"] /\ db'[u]["acl"] = db[u]["acl"]
      BY <1>6, <2>1 DEF Writes, Fact
    <2>5. \A kind \in {"role", "roles", "perms", "acl", "plain", "resource"} :
              Decides(kind, db'[u]) = Decides(kind, db[u])
      BY <2>2, <2>3, <2>4, DecidesFact
    <2> QED
      BY <1>1, <1>2, <1>3, <2>5, UndisturbedKeeps DEF Undisturbed, Present
  <1>5. CASE u \in change[r].users /\ op \in Fact
    <2>1. stage[r] = "sent"
      BY <1>1, <1>5 DEF OpenInv, Concerns, Fact
    <2>2. \A kind \in Touches(op) : Excused(<<u, kind>>)'
      BY <1>1, <1>5, <2>1 DEF Excused, Due, Concerns
    <2>3. db'[u] = [f \in Fact |-> IF u \in change[r].users /\ f \in Writes(op)
                                    THEN change[r].row ELSE db[u][f]]
      BY DEF Commit
    <2>4. \A f \in Fact \ {op} : db'[u][f] = db[u][f]
      BY <1>5, <2>3 DEF Writes, Fact
    <2>5. \/ op = "acl" /\ \A f \in {"role", "grant", "override"} : db'[u][f] = db[u][f]
          \/ op \in {"role", "grant", "override"} /\ db'[u]["acl"] = db[u]["acl"]
      BY <1>5, <2>4 DEF Fact
    <2>6. \/ /\ Excused(<<u, "acl">>)' /\ Excused(<<u, "resource">>)'
             /\ \A kind \in {"role", "roles", "perms", "plain"} : Decides(kind, db'[u]) = Decides(kind, db[u])
          \/ /\ Excused(<<u, "perms">>)' /\ Excused(<<u, "plain">>)' /\ Excused(<<u, "resource">>)'
             /\ Decides("acl", db'[u]) = Decides("acl", db[u])
      <3>1. CASE op = "acl" /\ \A f \in {"role", "grant", "override"} : db'[u][f] = db[u][f]
        BY <2>2, <3>1, DecidesFact DEF Touches
      <3>2. CASE op \in {"role", "grant", "override"} /\ db'[u]["acl"] = db[u]["acl"]
        BY <2>2, <3>2, DecidesFact DEF Touches
      <3> QED
        BY <2>5, <3>1, <3>2
    <2>7. EntriesInv(u)'
      <3> SUFFICES ASSUME NEW k \in Key, k[1] = u, Stale(k)' PROVE Excused(k)'
        BY DEF EntriesInv
      <3>1. k = <<u, k[2]>> /\ k[2] \in {"perms", "acl", "plain", "resource"}
        BY DEF Key
      <3>2. Excused(k)' \/ Decides(k[2], db'[u]) = Decides(k[2], db[u])
        BY <2>6, <3>1
      <3>3. CASE Decides(k[2], db'[u]) = Decides(k[2], db[u])
        BY <1>1, <1>3, <3>3 DEF Stale, Present, EntriesInv
      <3> QED
        BY <3>2, <3>3
    <2>8. ASSUME NEW c \in Checks, subject[c] = u PROVE FoundInv(c)'
      <3>1. FoundInv(c) /\ scope[c] \in {"plain", "resource"}
        BY <2>8, ConstantsAssumption DEF ChecksInv, TypeOK, ChecksOK
      <3>2. \A key \in {"perms", "acl", "plain", "resource"} : <<u, key>> \in Key
        BY DEF Key
      <3> QED
        BY <1>1, <1>3, <2>6, <2>8, <3>1, <3>2 DEF FoundInv, Told
    <2> QED
      BY <1>1, <1>2, <2>7, <2>8 DEF ChecksInv
  <1>7. op \in Fact \cup {"active", "delete"}
    BY DEF TypeOK, RequestsOK, Change
  <1> QED
    BY <1>4, <1>5, <1>6, <1>7

\* What handlers do to entries: they go, and nothing else.
LEMMA DelFact ==
  ASSUME NEW ks, Del(ks), NEW k \in Key
  PROVE  /\ Present(k)' => Present(k) /\ cache'[k].val = cache[k].val
         /\ k \in ks => ~Present(k)'
  BY DEF Del, Present, NoEntry

LEMMA TouchesFact ==
  /\ Touches("acl") = {"acl", "resource"} /\ Touches("active") = {} /\ Touches("delete") = {}
  /\ \A op \in {"role", "grant", "override"} : Touches(op) = {"perms", "plain", "resource"}
  BY DEF Touches

\* Each step of a handler clears the entries it is due for, or is still due for them.
LEMMA HandleFact ==
  ASSUME TypeOK, NEW r \in Requests, Handle(r), NEW k \in Key, Concerns(r, k[1])
  PROVE  /\ Present(k)' => Present(k) /\ cache'[k].val = cache[k].val
         /\ Due(r, k) => Due(r, k)' \/ ~Present(k)'
  <1>0. /\ change' = change
        /\ k[1] \in change[r].users /\ k[1] \in Users /\ k = <<k[1], k[2]>>
        /\ k[2] \in {"perms", "acl", "plain", "resource"}
    BY DEF Handle, DelUserPerms, ScanPerms, DelPerms, ScanAuthz, DelAuthz, InvalidateAclCache,
           InvalidateAuthzDecision, HandlerStep, Key, Concerns
  <1>1. CASE DelUserPerms(r)
    <2>1. stage[r] = "sent" /\ stage'[r] = "permsGone" /\ change[r].op \in {"role", "override", "active"}
      BY <1>1 DEF DelUserPerms, HandlerStep, TypeOK, RequestsOK
    <2>2. k[2] \in Touches(change[r].op) => k[2] \in {"perms", "plain", "resource"}
      BY <2>1, TouchesFact
    <2>3. k[2] = "perms" => k \in change[r].users \X {"perms"}
      BY <1>0
    <2> QED
      BY <1>0, <1>1, <2>1, <2>2, <2>3, DelFact DEF DelUserPerms, Due
  <1>2. CASE ScanPerms(r)
    <2>1. stage[r] = "sent" /\ stage'[r] = "permsFound" /\ change[r].op = "grant" /\ cache' = cache
      BY <1>2 DEF ScanPerms, Collect, HandlerStep, TypeOK, RequestsOK
    <2>2. k[2] \in Touches(change[r].op) => k[2] \in {"perms", "plain", "resource"}
      BY <2>1, TouchesFact
    <2>3. k[2] = "perms" /\ Present(k) => k \in found'[r]
      BY <1>0, <1>2 DEF ScanPerms, Collect, TypeOK, RequestsOK
    <2> QED
      BY <1>0, <2>1, <2>2, <2>3 DEF Due, Present
  <1>3. CASE DelPerms(r)
    <2>1. stage[r] = "permsFound" /\ stage'[r] = "permsGone" /\ Del(found[r])
      BY <1>3 DEF DelPerms, HandlerStep, TypeOK, RequestsOK
    <2> QED
      BY <1>0, <2>1, DelFact DEF Due
  <1>4. CASE ScanAuthz(r)
    <2>1. stage[r] = "permsGone" /\ stage'[r] = "authzFound" /\ cache' = cache
      BY <1>4 DEF ScanAuthz, Collect, HandlerStep, TypeOK, RequestsOK
    <2>2. k[2] \in {"plain", "resource"} /\ Present(k) => k \in found'[r]
      BY <1>0, <1>4 DEF ScanAuthz, Collect, TypeOK, RequestsOK
    <2> QED
      BY <1>0, <2>1, <2>2 DEF Due, Present
  <1>5. CASE DelAuthz(r)
    <2>1. stage[r] = "authzFound" /\ Del(found[r])
      BY <1>5 DEF DelAuthz, HandlerStep
    <2> QED
      BY <1>0, <2>1, DelFact DEF Due
  <1>6. CASE InvalidateAclCache(r)
    <2>1. stage[r] = "sent" /\ stage'[r] = "aclGone" /\ change[r].op = "acl"
      BY <1>6 DEF InvalidateAclCache, HandlerStep, TypeOK, RequestsOK
    <2>2. k[2] \in Touches(change[r].op) => k[2] \in {"acl", "resource"}
      BY <2>1, TouchesFact
    <2>3. k[2] = "acl" => k \in change[r].users \X {"acl"}
      BY <1>0
    <2> QED
      BY <1>0, <1>6, <2>1, <2>2, <2>3, DelFact DEF InvalidateAclCache, Due
  <1>7. CASE InvalidateAuthzDecision(r)
    <2>1. stage[r] = "aclGone" /\ Del(change[r].users \X {"resource"})
      BY <1>7 DEF InvalidateAuthzDecision, HandlerStep
    <2>2. k[2] = "resource" => k \in change[r].users \X {"resource"}
      BY <1>0
    <2> QED
      BY <1>0, <2>1, <2>2, DelFact DEF Due
  <1> QED
    BY <1>1, <1>2, <1>3, <1>4, <1>5, <1>6, <1>7 DEF Handle

LEMMA HandlerFrame ==
  ASSUME TypeOK, NEW r \in Requests, Handle(r) \/ LoseEvent(r) \/ Redeliver(r)
  PROVE  /\ UNCHANGED <<db, pc, subject, scope, seen, tx, change>>
         /\ \A q \in Requests \ {r} : stage'[q] = stage[q] /\ found'[q] = found[q]
         /\ Handle(r) => Handled(r)
         /\ LoseEvent(r) => stage[r] # "lost" /\ stage'[r] = "lost" /\ cache' = cache
         /\ Redeliver(r) => stage'[r] = "sent" /\ cache' = cache
         /\ \A k \in Key : Present(k)' => Present(k) /\ cache'[k].val = cache[k].val
  <1>1. UNCHANGED <<db, pc, subject, scope, seen, tx, change>>
    BY DEF Handle, DelUserPerms, ScanPerms, DelPerms, ScanAuthz, DelAuthz, InvalidateAclCache,
           InvalidateAuthzDecision, HandlerStep, LoseEvent, Redeliver, checkVars
  <1>2. \A q \in Requests \ {r} : stage'[q] = stage[q] /\ found'[q] = found[q]
    BY DEF Handle, DelUserPerms, ScanPerms, DelPerms, ScanAuthz, DelAuthz, InvalidateAclCache,
           InvalidateAuthzDecision, HandlerStep, Collect, Forget, LoseEvent, Redeliver, TypeOK, RequestsOK
  <1>3. Handle(r) => Handled(r)
    BY DEF Handle, DelUserPerms, ScanPerms, DelPerms, ScanAuthz, DelAuthz, InvalidateAclCache,
           InvalidateAuthzDecision, HandlerStep, Handled, Handling, TypeOK, RequestsOK
  <1>4. /\ LoseEvent(r) => stage[r] # "lost" /\ stage'[r] = "lost" /\ cache' = cache
        /\ Redeliver(r) => stage'[r] = "sent" /\ cache' = cache
    BY DEF LoseEvent, Redeliver, Handling, TypeOK, RequestsOK
  <1>5. ASSUME NEW k \in Key PROVE Present(k)' => Present(k) /\ cache'[k].val = cache[k].val
    BY DelFact DEF Handle, DelUserPerms, ScanPerms, DelPerms, ScanAuthz, DelAuthz, Collect,
       InvalidateAclCache, InvalidateAuthzDecision, LoseEvent, Redeliver, Present
  <1> QED
    BY <1>1, <1>2, <1>3, <1>4, <1>5

LEMMA HazardFact ==
  ASSUME NEW u \in Users, NewHazards(u) = {}, NEW r \in Requests, Concerns(r, u)
  PROVE  /\ ~(stage[r] # "lost" /\ stage'[r] = "lost")
         /\ Handled(r) => tx[r] # "open" /\ \A c \in Checks : subject[c] = u => pc[c] = "idle"
  BY DEF NewHazards

\* Without a hazard an event is handled after the commit of its request and while no
\* check of a user it concerns is in progress.
LEMMA HandlerCoherent ==
  ASSUME TypeOK, NEW r \in Requests, Handle(r) \/ LoseEvent(r) \/ Redeliver(r), NEW u \in Users,
         NewHazards(u) = {}, OpenInv(u), EntriesInv(u), ChecksInv(u)
  PROVE  OpenInv(u)' /\ EntriesInv(u)' /\ ChecksInv(u)'
  <1>1. /\ UNCHANGED <<db, pc, subject, scope, seen, tx, change>>
        /\ \A q \in Requests \ {r} : stage'[q] = stage[q] /\ found'[q] = found[q]
        /\ \A k \in Key : Present(k)' => Present(k) /\ cache'[k].val = cache[k].val
    BY HandlerFrame
  <1>2. OpenInv(u)'
    BY <1>1, HandlerFrame, HazardFact DEF OpenInv, Concerns
  <1>3. ASSUME NEW k \in Key, k[1] = u, Excused(k)
        PROVE  Excused(k)' \/ (~Present(k)' /\ \A c \in Checks : subject[c] = u => pc[c] = "idle")
    <2>1. PICK q \in Requests : Concerns(q, u) /\ tx[q] = "committed" /\ Due(q, k)
      BY <1>3 DEF Excused
    <2>2. Due(q, k)' => Excused(k)'
      BY <1>1, <1>3, <2>1 DEF Excused, Concerns
    <2>3. CASE q # r
      BY <1>1, <2>1, <2>2, <2>3 DEF Due
    <2>4. CASE q = r /\ Handle(r)
      BY <1>3, <2>1, <2>2, <2>4, HandleFact, HandlerFrame, HazardFact
    <2>5. CASE q = r /\ Redeliver(r)
      BY <1>1, <2>1, <2>2, <2>5, HandlerFrame DEF Due
    <2>6. ~(q = r /\ LoseEvent(r))
      BY <2>1, HandlerFrame, HazardFact
    <2> QED
      BY <2>3, <2>4, <2>5, <2>6
  <1>4. Undisturbed(u)
    BY <1>1, <1>3 DEF Undisturbed
  <1> QED
    BY <1>2, <1>4, UndisturbedKeeps

LEMMA ExpiryCoherent ==
  ASSUME TypeOK, NEW t \in Users, RoleExpires(t), NEW u \in Users,
         NewHazards(u) = {}, OpenInv(u), EntriesInv(u), ChecksInv(u)
  PROVE  OpenInv(u)' /\ EntriesInv(u)' /\ ChecksInv(u)'
  <1>1. UNCHANGED <<cache, pc, subject, scope, seen, tx, change, stage, found>>
    BY DEF RoleExpires, RequestOnly, checkVars
  <1>2. db'[u] = db[u]
    <2>1. u # t => db'[u] = db[u]
      BY DEF RoleExpires, TypeOK, DbOK
    <2>2. db'[t]["role"] = "absent" /\ db[t]["role"] = "present"
      BY DEF RoleExpires, TypeOK, DbOK, View, Fact
    <2>3. u # t
      BY <1>1, <2>2 DEF NewHazards
    <2> QED
      BY <2>1, <2>3
  <1>3. Undisturbed(u)
    BY <1>1, <1>2 DEF Undisturbed, Present, Excused, Due, Concerns
  <1>4. OpenInv(u)'
    BY <1>1 DEF OpenInv, Concerns
  <1> QED
    BY <1>3, <1>4, UndisturbedKeeps

LEMMA TickCoherent ==
  ASSUME TypeOK, Tick, NEW u \in Users, OpenInv(u), EntriesInv(u), ChecksInv(u)
  PROVE  OpenInv(u)' /\ EntriesInv(u)' /\ ChecksInv(u)'
  <1>1. UNCHANGED <<db, pc, subject, scope, seen, tx, change, stage, found>>
    BY DEF Tick, eventVars
  <1>2. ASSUME NEW k \in Key PROVE Present(k)' => Present(k) /\ cache'[k].val = cache[k].val
    <2>1. cache[k] \in Entry
      BY DEF TypeOK, CacheOK
    <2>2. cache'[k] = IF cache[k].ttl > 1 THEN [cache[k] EXCEPT !.ttl = @ - 1] ELSE NoEntry
      BY DEF Tick
    <2>3. cache[k].ttl > 1 => /\ cache'[k].val = cache[k].val
                              /\ cache[k].ttl > 0
      BY <2>1, <2>2, MaxFact, ConstantsAssumption DEF Entry
    <2>4. ~(cache[k].ttl > 1) => ~Present(k)'
      BY <2>2 DEF Present, NoEntry
    <2> QED
      BY <2>3, <2>4 DEF Present
  <1>3. Undisturbed(u)
    BY <1>1, <1>2 DEF Undisturbed, Excused, Due, Concerns
  <1>4. OpenInv(u)'
    BY <1>1 DEF OpenInv, Concerns
  <1> QED
    BY <1>3, <1>4, UndisturbedKeeps

-----------------------------------------------------------------------------
(* The steps of a check c.                                                  *)

\* Anything but a check stands still, and other checks do.
Alone(c) ==
    /\ UNCHANGED <<db, tx, change, stage, found>>
    /\ \A b \in Checks \ {c} :
        pc'[b] = pc[b] /\ subject'[b] = subject[b] /\ scope'[b] = scope[b] /\ seen'[b] = seen[b]

LEMMA AloneKeeps ==
  ASSUME TypeOK, NEW c \in Checks, Alone(c), NEW u \in Users, OpenInv(u), EntriesInv(u), ChecksInv(u),
         subject'[c] = u => FoundInv(c)',
         \/ cache' = cache
         \/ \E k \in Key : \E v : Put(k, v) /\ (k[1] = u => Decides(k[2], db[u]) = v \/ Excused(k))
  PROVE  OpenInv(u)' /\ EntriesInv(u)' /\ ChecksInv(u)'
  <1>1. /\ db' = db
        /\ \A k \in Key : Excused(k)' <=> Excused(k)
        /\ \A v, key : Excused(<<v, key>>)' <=> Excused(<<v, key>>)
    BY DEF Alone, Excused, Due, Concerns
  <1>2. OpenInv(u)'
    BY DEF Alone, OpenInv, Concerns
  <1>3. EntriesInv(u)'
    <2>1. CASE cache' = cache
      BY <1>1, <2>1 DEF EntriesInv, Stale, Present
    <2>2. ASSUME NEW k \in Key, NEW v, Put(k, v), k[1] = u => Decides(k[2], db[u]) = v \/ Excused(k)
          PROVE  EntriesInv(u)'
      <3> SUFFICES ASSUME NEW j \in Key, j[1] = u, Stale(j)' PROVE Excused(j)'
        BY DEF EntriesInv
      <3>1. CASE j = k
        BY <1>1, <2>2, <3>1 DEF Stale, Put, TypeOK, CacheOK
      <3>2. CASE j # k
        BY <1>1, <2>2, <3>2 DEF Stale, Put, Present, EntriesInv, TypeOK, CacheOK
      <3> QED
        BY <3>1, <3>2
    <2> QED
      BY <2>1, <2>2
  <1>4. ASSUME NEW b \in Checks, b # c, subject'[b] = u PROVE FoundInv(b)'
    <2>1. FoundInv(b)
      BY <1>4 DEF ChecksInv, Alone
    <2> QED
      BY <1>1, <1>4, <2>1 DEF FoundInv, Told, Alone
  <1> QED
    BY <1>2, <1>3, <1>4 DEF ChecksInv

\* A check of u in progress, as it finds the database and the entries of u.
Going(c, u) ==
    /\ TypeOK /\ u = subject[c] /\ u \in Users /\ scope[c] \in {"plain", "resource"}
    /\ FoundInv(c) /\ EntriesInv(u)

\* What it needs to know at the label it goes to with what it has found.
Knows(c, l, v) ==
    /\ l = "grants"    => Told(c, "role", TRUE, "perms")
    /\ l = "overrides" => Told(c, "roles", v, "perms")
    /\ l = "setPerms"  => Told(c, "perms", v, "perms")
    /\ l \in {"acl", "countAcl", "setAcl"} => scope[c] = "resource" /\ Told(c, "perms", FALSE, "perms")
    /\ l = "setAcl"      => Told(c, "acl", v, "acl")
    /\ l = "setDecision" => Told(c, scope[c], v, scope[c])

LEMMA KnowsFact ==
  ASSUME NEW c \in Checks, NEW l, NEW v, TypeOK, Continue(c, l, v), Knows(c, l, v),
         Alone(c), subject' = subject, scope' = scope
  PROVE  FoundInv(c)'
  <1>1. pc'[c] = l /\ seen'[c] = v
    BY DEF Continue, Goto, Found, TypeOK, ChecksOK
  <1>2. \A kind, x, key : Told(c, kind, x, key)' <=> Told(c, kind, x, key)
    BY DEF Alone, Told, Excused, Due, Concerns
  <1> QED
    BY <1>1, <1>2 DEF Knows, FoundInv

\* An entry that is present says what the rows decide, or is due.
LEMMA EntryTold ==
  ASSUME NEW c \in Checks, NEW u, Going(c, u), NEW key \in {"perms", "acl", "plain", "resource"},
         Present(<<u, key>>)
  PROVE  Told(c, key, cache[<<u, key>>].val, key) /\ cache[<<u, key>>].val \in BOOLEAN
  <1>1. <<u, key>> \in Key
    BY DEF Going, Key
  <1> QED
    BY <1>1 DEF Going, EntriesInv, Stale, Told, TypeOK, CacheOK, Entry

\* What a permission set decides, a check without a resource or a permitted one has.
LEMMA AfterPermsTold ==
  ASSUME NEW c \in Checks, NEW u, Going(c, u), NEW v \in BOOLEAN, Told(c, "perms", v, "perms")
  PROVE  Knows(c, AfterPerms(c, v), v)
  <1>1. CASE v \/ scope[c] = "plain"
    <2>1. Decides("perms", db[u]) = v => Decides(scope[c], db[u]) = v
      BY <1>1, DecidesFact DEF Going
    <2>2. Told(c, scope[c], v, scope[c])
      BY <2>1, DueFact DEF Told, Going
    <2> QED
      BY <1>1, <2>2 DEF Knows, AfterPerms
  <1>2. CASE ~v /\ scope[c] # "plain"
    BY <1>2 DEF Knows, AfterPerms, Going
  <1> QED
    BY <1>1, <1>2

LEMMA AfterAclTold ==
  ASSUME NEW c \in Checks, NEW u, Going(c, u), NEW v \in BOOLEAN, pc[c] \in {"acl", "setAcl"},
         Told(c, "acl", v, "acl")
  PROVE  Knows(c, "setDecision", v)
  <1>1. scope[c] = "resource" /\ Told(c, "perms", FALSE, "perms")
    BY DEF Going, FoundInv
  <1>2. Decides("perms", db[u]) = FALSE /\ Decides("acl", db[u]) = v => Decides("resource", db[u]) = v
    BY DecidesFact
  <1>3. Told(c, "resource", v, "resource")
    BY <1>1, <1>2, DueFact DEF Told, Going
  <1> QED
    BY <1>1, <1>3 DEF Knows

LEMMA CheckFrame ==
  ASSUME TypeOK, NEW c \in Checks, CheckStep(c) \/ CheckFails(c)
  PROVE  Alone(c) /\ subject' = subject /\ scope' = scope
  <1>1. CheckOnly
    BY DEF CheckStep, CheckFails, PermsTier, DecisionTier, GetDecision, GetPermissions, GetUserRoles,
           GetRolePermissions, GetOverridesForUser, SetPermissions, GetAcl, CountAcl, SetAcl, SetDecision
  <1>2. ASSUME NEW l, NEW v, Continue(c, l, v) \/ Reply(c, v)
        PROVE  \A b \in Checks \ {c} : pc'[b] = pc[b] /\ seen'[b] = seen[b]
    BY <1>2 DEF Continue, Reply, Goto, Found, TypeOK, ChecksOK
  <1>3. \E l, v : Continue(c, l, v) \/ Reply(c, v)
    BY DEF CheckStep, CheckFails, PermsTier, DecisionTier, GetDecision, GetPermissions, GetUserRoles,
           GetRolePermissions, GetOverridesForUser, SetPermissions, GetAcl, CountAcl, SetAcl, SetDecision
  <1> QED
    BY <1>1, <1>2, <1>3 DEF CheckOnly, Alone, eventVars

\* Who has replied has found nothing.
LEMMA ReplyFact ==
  ASSUME TypeOK, NEW c \in Checks, NEW v, Reply(c, v)
  PROVE  FoundInv(c)'
  BY DEF Reply, Goto, TypeOK, ChecksOK, FoundInv

LEMMA CheckFinds ==
  ASSUME NEW c \in Checks, NEW u, Going(c, u), CheckStep(c) \/ CheckFails(c)
  PROVE  FoundInv(c)'
  <1>0. /\ Alone(c) /\ subject' = subject /\ scope' = scope /\ TypeOK
        /\ u = subject[c] /\ FoundInv(c) /\ seen[c] \in BOOLEAN
        /\ scope[c] \in {"plain", "resource"}
    BY CheckFrame DEF Going, TypeOK, ChecksOK
  <1>1. ASSUME NEW l, NEW v, Continue(c, l, v), Knows(c, l, v) PROVE FoundInv(c)'
    BY <1>0, <1>1, KnowsFact
  <1>2. CASE PermsTier(c) \/ DecisionTier(c) \/ GetDecision(c) \/ CheckFails(c)
    <2>1. \A l \in {"decisionTier", "decision", "perms"} : Knows(c, l, FALSE)
      BY DEF Knows
    <2> QED
      BY <1>0, <1>1, <1>2, <2>1, ReplyFact DEF PermsTier, DecisionTier, GetDecision, CheckFails
  <1>3. CASE GetPermissions(c)
    <2> DEFINE k == <<subject[c], "perms">>
    <2>1. CASE Present(k)
      <3>1. Continue(c, AfterPerms(c, cache[k].val), cache[k].val)
        BY <1>3, <2>1 DEF GetPermissions
      <3>2. cache[k].val \in BOOLEAN /\ Told(c, "perms", cache[k].val, "perms")
        BY <1>0, <2>1, EntryTold
      <3> QED
        BY <1>1, <3>1, <3>2, AfterPermsTold
    <2>2. CASE ~Present(k)
      BY <1>1, <1>3, <2>2 DEF GetPermissions, Knows
    <2> QED
      BY <2>1, <2>2
  <1>4. CASE GetUserRoles(c)
    <2> DEFINE v == db[subject[c]]["role"] = "present"
    <2>1. Continue(c, IF v THEN "grants" ELSE "overrides", v)
      BY <1>4 DEF GetUserRoles
    <2>2. v => Knows(c, "grants", v)
      BY DecidesFact DEF Knows, Told
    <2>3. ~v => Knows(c, "overrides", v)
      BY DecidesFact DEF Knows, Told
    <2> QED
      BY <1>1, <2>1, <2>2, <2>3
  <1>5. CASE GetRolePermissions(c)
    <2> DEFINE v == db[subject[c]]["grant"] = "present"
    <2>1. Continue(c, "overrides", v) /\ pc[c] = "grants"
      BY <1>5 DEF GetRolePermissions
    <2>2. Told(c, "role", TRUE, "perms")
      BY <1>0, <2>1 DEF FoundInv
    <2>3. Told(c, "roles", v, "perms")
      BY <2>2, DecidesFact DEF Told
    <2>4. Knows(c, "overrides", v)
      BY <2>3 DEF Knows
    <2> QED
      BY <1>1, <2>1, <2>4
  <1>6. CASE GetOverridesForUser(c)
    <2> DEFINE v == Effective(seen[c], db[subject[c]]["override"])
    <2>1. Continue(c, "setPerms", v) /\ pc[c] = "overrides"
      BY <1>6 DEF GetOverridesForUser
    <2>2. Told(c, "roles", seen[c], "perms")
      BY <1>0, <2>1 DEF FoundInv
    <2>3. Told(c, "perms", v, "perms")
      BY <2>2, DecidesFact DEF Told
    <2>4. Knows(c, "setPerms", v)
      BY <2>3 DEF Knows
    <2> QED
      BY <1>1, <2>1, <2>4
  <1>7. CASE SetPermissions(c)
    <2>1. Continue(c, AfterPerms(c, seen[c]), seen[c]) /\ Told(c, "perms", seen[c], "perms")
      BY <1>0, <1>7 DEF SetPermissions, FoundInv
    <2> QED
      BY <1>0, <1>1, <2>1, AfterPermsTold
  <1>8. CASE GetAcl(c)
    <2> DEFINE k == <<subject[c], "acl">>
    <2>1. CASE Present(k)
      <3>1. Continue(c, "setDecision", cache[k].val) /\ pc[c] = "acl"
        BY <1>8, <2>1 DEF GetAcl
      <3>2. cache[k].val \in BOOLEAN /\ Told(c, "acl", cache[k].val, "acl")
        BY <1>0, <2>1, EntryTold
      <3> QED
        BY <1>1, <3>1, <3>2, AfterAclTold
    <2>2. CASE ~Present(k)
      <3>1. Continue(c, "countAcl", FALSE) /\ pc[c] = "acl"
        BY <1>8, <2>2 DEF GetAcl
      <3> QED
        BY <1>0, <1>1, <3>1 DEF Knows, FoundInv
    <2> QED
      BY <2>1, <2>2
  <1>9. CASE CountAcl(c)
    <2> DEFINE v == db[subject[c]]["acl"] = "present"
    <2>1. Continue(c, "setAcl", v) /\ pc[c] = "countAcl"
      BY <1>9 DEF CountAcl
    <2>2. Told(c, "acl", v, "acl")
      BY DecidesFact DEF Told
    <2> QED
      BY <1>0, <1>1, <2>1, <2>2 DEF Knows, FoundInv
  <1>10. CASE SetAcl(c)
    <2>1. Continue(c, "setDecision", seen[c]) /\ pc[c] = "setAcl" /\ Told(c, "acl", seen[c], "acl")
      BY <1>0, <1>10 DEF SetAcl, FoundInv
    <2> QED
      BY <1>0, <1>1, <2>1, AfterAclTold
  <1>11. CASE SetDecision(c)
    BY <1>0, <1>11, ReplyFact DEF SetDecision
  <1> QED
    BY <1>2, <1>3, <1>4, <1>5, <1>6, <1>7, <1>8, <1>9, <1>10, <1>11 DEF CheckStep

\* What a check stores is what it has found, under the key it was told for.
LEMMA CheckStores ==
  ASSUME TypeOK, NEW c \in Checks, CheckStep(c) \/ CheckFails(c), NEW u \in Users,
         subject[c] = u => FoundInv(c)
  PROVE  \/ cache' = cache
         \/ \E k \in Key : \E v : Put(k, v) /\ (k[1] = u => Decides(k[2], db[u]) = v \/ Excused(k))
  <1>1. ASSUME NEW kind \in {"perms", "acl", "plain", "resource"}, Put(<<subject[c], kind>>, seen[c]),
               FoundInv(c) => Told(c, kind, seen[c], kind)
        PROVE  \E k \in Key : \E v : Put(k, v) /\ (k[1] = u => Decides(k[2], db[u]) = v \/ Excused(k))
    <2> DEFINE k == <<subject[c], kind>>
    <2>1. k \in Key /\ k[1] = subject[c] /\ k[2] = kind
      BY DEF Key, TypeOK, ChecksOK
    <2>2. k[1] = u => Decides(k[2], db[u]) = seen[c] \/ Excused(k)
      BY <1>1, <2>1 DEF Told
    <2> QED
      BY <1>1, <2>1, <2>2
  <1>2. CASE SetPermissions(c)
    BY <1>1, <1>2 DEF SetPermissions, FoundInv
  <1>3. CASE SetAcl(c)
    BY <1>1, <1>3 DEF SetAcl, FoundInv
  <1>4. CASE SetDecision(c)
    <2>1. scope[c] \in {"plain", "resource"}
      BY ConstantsAssumption DEF TypeOK, ChecksOK
    <2> QED
      BY <1>1, <1>4, <2>1 DEF SetDecision, FoundInv
  <1>5. CASE ~(SetPermissions(c) \/ SetAcl(c) \/ SetDecision(c))
    BY <1>5 DEF CheckStep, CheckFails, PermsTier, DecisionTier, GetDecision, GetPermissions, GetUserRoles,
       GetRolePermissions, GetOverridesForUser, GetAcl, CountAcl
  <1> QED
    BY <1>2, <1>3, <1>4, <1>5

LEMMA CheckCoherent ==
  ASSUME TypeOK, NEW c \in Checks, CheckStep(c) \/ CheckFails(c), NEW u \in Users,
         OpenInv(u), EntriesInv(u), ChecksInv(u)
  PROVE  OpenInv(u)' /\ EntriesInv(u)' /\ ChecksInv(u)'
  <1>1. Alone(c) /\ subject' = subject
    BY CheckFrame
  <1>2. subject[c] = u => Going(c, u)
    BY ConstantsAssumption DEF Going, ChecksInv, TypeOK, ChecksOK
  <1>3. subject'[c] = u => FoundInv(c)'
    BY <1>1, <1>2, CheckFinds
  <1>4. subject[c] = u => FoundInv(c)
    BY DEF ChecksInv
  <1> QED
    BY <1>1, <1>3, <1>4, CheckStores, AloneKeeps

LEMMA BeginCoherent ==
  ASSUME TypeOK, NEW c \in Checks, NEW t \in Users, NEW s \in Scopes, Check(c, t, s) \/ IsAllowed(c, t, s),
         NEW u \in Users, OpenInv(u), EntriesInv(u), ChecksInv(u)
  PROVE  OpenInv(u)' /\ EntriesInv(u)' /\ ChecksInv(u)'
  <1>1. PICK label \in {"decision", "permsTier"} : Begin(c, t, s, label)
    BY DEF Check, IsAllowed
  <1>2. Alone(c) /\ cache' = cache
    BY <1>1 DEF Begin, Goto, Alone, eventVars, TypeOK, ChecksOK
  <1>3. FoundInv(c)'
    BY <1>1 DEF Begin, Goto, FoundInv, TypeOK, ChecksOK
  <1> QED
    BY <1>2, <1>3, AloneKeeps

-----------------------------------------------------------------------------
LEMMA StepCoherenceInv == CoherenceInv /\ [HNext]_<<vars, hazard>> => CoherenceInv'
  <1> SUFFICES ASSUME CoherenceInv, [HNext]_<<vars, hazard>> PROVE CoherenceInv'
    OBVIOUS
  <1>1. CASE HNext
    <2>1. TypeOK /\ TypeOK' /\ Next
      BY <1>1, NextTypeOK DEF CoherenceInv, HNext
    <2>2. /\ hazard' \in [Users -> SUBSET Hazard]
          /\ \A u \in Users : hazard'[u] = {} => hazard[u] = {} /\ NewHazards(u) = {}
      BY <1>1 DEF CoherenceInv, HNext, NewHazards, Hazard
    <2>3. ASSUME NEW u \in Users, NewHazards(u) = {}, OpenInv(u), EntriesInv(u), ChecksInv(u)
          PROVE  OpenInv(u)' /\ EntriesInv(u)' /\ ChecksInv(u)'
      BY <2>1, <2>3, BeginCoherent, CheckCoherent, RequestCoherent, CommitCoherent, RollbackCoherent,
         ExpiryCoherent, HandlerCoherent, TickCoherent DEF Next, Step
    <2> QED
      BY <2>1, <2>2, <2>3 DEF CoherenceInv
  <1>2. CASE UNCHANGED <<vars, hazard>>
    <2>1. UNCHANGED <<db, cache, pc, subject, scope, seen, tx, stage, change, found, hazard>>
      BY <1>2 DEF vars, checkVars, eventVars
    <2>2. TypeOK'
      BY <1>2, NextTypeOK DEF CoherenceInv
    <2>3. ASSUME NEW u \in Users, OpenInv(u), EntriesInv(u), ChecksInv(u)
          PROVE  OpenInv(u)' /\ EntriesInv(u)' /\ ChecksInv(u)'
      <3>1. OpenInv(u)'
        BY <2>1, <2>3 DEF OpenInv, Concerns
      <3>2. Undisturbed(u)
        BY <2>1 DEF Undisturbed, Present, Excused, Due, Concerns
      <3> QED
        BY <2>3, <3>1, <3>2, UndisturbedKeeps DEF CoherenceInv
    <2> QED
      BY <2>1, <2>2, <2>3 DEF CoherenceInv
  <1> QED
    BY <1>1, <1>2

\* For any users, checks and requests: when the changes of a user are committed and
\* their events handled, no cache entry of the user contradicts the database, unless
\* an event was lost or came before the commit or during a check, or a role expired
\* or was deleted together with an assignment made since deleteCustomRole counted.
THEOREM CachesCoherent == HSpec => []Coherent
  <1>1. CoherenceInv => Coherent
    BY TouchesFact DEF CoherenceInv, Coherent, EntriesInv, Excused, Due, Settled, Concerns, Key
  <1> QED
    BY <1>1, InitCoherenceInv, StepCoherenceInv, PTL DEF HSpec
=============================================================================
