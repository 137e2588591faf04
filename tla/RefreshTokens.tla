---------------------------- MODULE RefreshTokens ----------------------------
(***************************************************************************)
(* The refresh tokens of one user of Generic-IAM: AuthService.login,       *)
(* refresh and logout, and UserService.setActivation and updateUser.       *)
(*                                                                         *)
(* AuthService is not request-scoped: its statements run on pooled         *)
(* connections and commit one by one.  setActivation saves is_active in    *)
(* the transaction of its request, but deletes the refresh tokens through  *)
(* the injected repository, on a connection of its own, before that        *)
(* transaction ends.                                                       *)
(*                                                                         *)
(* A token stands for a random string, its bcrypt hash and its row; the    *)
(* row of a token is found by comparing hashes, so only its own.           *)
(***************************************************************************)
EXTENDS FiniteSets

CONSTANTS
    Tokens,    \* bound: the random strings a behaviour may draw
    Calls,     \* calls of login() and refresh() that can be in progress at a time
    Admins,    \* requests to change is_active that can be open at a time
    NoToken    \* what a login presents

ASSUME NoTokenAssumption == NoToken \notin Tokens

VARIABLES
    isActive,   \* the committed users.is_active
    rows,       \* the rows of refresh_tokens
    expired,    \* the tokens whose expires_at has passed
    issued,     \* the tokens that have been drawn and stored
    pc,         \* where each login or refresh is
    presented,  \* the token a refresh was called with
    tx,         \* the transaction of each setActivation or updateUser
    target,     \* the is_active it sets
    dirty       \* whether it has updated, and so locks, the row of the user

callVars   == <<pc, presented>>
adminVars  == <<tx, target, dirty>>
tokenVars  == <<rows, expired, issued>>
vars       == <<isActive, tokenVars, callVars, adminVars>>

Init ==
    /\ isActive \in BOOLEAN
    /\ rows = {} /\ expired = {} /\ issued = {}
    /\ pc = [c \in Calls |-> "idle"]
    /\ presented = [c \in Calls |-> NoToken]
    /\ tx = [a \in Admins |-> "idle"]
    /\ target = [a \in Admins |-> TRUE]
    /\ dirty = [a \in Admins |-> FALSE]

-----------------------------------------------------------------------------
(* AuthService.login and refresh, one action for each await. *)

Goto(c, label) == pc' = [pc EXCEPT ![c] = label]
Return(c) == Goto(c, "idle") /\ presented' = [presented EXCEPT ![c] = NoToken]

Start(c, t, label) ==
    /\ pc[c] = "idle"
    /\ Goto(c, label)
    /\ presented' = [presented EXCEPT ![c] = t]
    /\ UNCHANGED <<isActive, tokenVars, adminVars>>

Login(c) == Start(c, NoToken, "findUser")

\* A wrong password ends the login; CallFails stands for that as well.
CheckPassword(c) ==
    /\ pc[c] = "password"
    /\ Goto(c, "save")
    /\ UNCHANGED <<isActive, tokenVars, presented, adminVars>>

\* find and the comparison of hashes.  Only a token that was issued can match:
\* any other, such as a super admin's, is refused here and changes nothing.
Refresh(c, t) == t \in rows /\ Start(c, t, "matched")

\* new Date() is compared with the expires_at that find returned.
CheckExpiry(c) ==
    /\ pc[c] = "matched"
    /\ Goto(c, IF presented[c] \in expired THEN "deleteExpired" ELSE "findUser")
    /\ UNCHANGED <<isActive, tokenVars, presented, adminVars>>

DeleteExpired(c) ==
    /\ pc[c] = "deleteExpired"
    /\ rows' = rows \ {presented[c]}
    /\ Return(c)
    /\ UNCHANGED <<isActive, expired, issued, adminVars>>

\* Mutant: is_active is not looked at.
FindAnyUser(c) ==
    /\ pc[c] = "findUser"
    /\ Goto(c, IF presented[c] = NoToken THEN "password" ELSE "deleteUsed")
    /\ UNCHANGED <<isActive, tokenVars, presented, adminVars>>

\* findOne in login and in refresh: an inactive user is refused.
FindUser(c) ==
    /\ pc[c] = "findUser"
    /\ IF isActive
          THEN /\ Goto(c, IF presented[c] = NoToken THEN "password" ELSE "deleteUsed")
               /\ UNCHANGED presented
          ELSE Return(c)
    /\ UNCHANGED <<isActive, tokenVars, adminVars>>

\* Mutant: the delete is by user_id, as in logout.
DeleteAllOnUse(c) ==
    /\ pc[c] = "deleteUsed"
    /\ rows' = {}
    /\ Goto(c, "save")
    /\ UNCHANGED <<isActive, expired, issued, presented, adminVars>>

\* Mutant: the used token stays.
KeepUsed(c) ==
    /\ pc[c] = "deleteUsed"
    /\ Goto(c, "save")
    /\ UNCHANGED <<isActive, tokenVars, presented, adminVars>>

\* The number of rows that were deleted is not looked at.
DeleteUsed(c) ==
    /\ pc[c] = "deleteUsed"
    /\ rows' = rows \ {presented[c]}
    /\ Goto(c, "save")
    /\ UNCHANGED <<isActive, expired, issued, presented, adminVars>>

\* generateTokens draws and stores a new token, whatever has happened to the
\* user or the old token since they were read.
SaveNew(c, n) ==
    /\ pc[c] = "save"
    /\ n \in Tokens \ issued
    /\ rows' = rows \cup {n}
    /\ issued' = issued \cup {n}
    /\ Return(c)
    /\ UNCHANGED <<isActive, expired, adminVars>>

\* A statement fails, the password is wrong or the instance stops.
CallFails(c) ==
    /\ pc[c] # "idle"
    /\ Return(c)
    /\ UNCHANGED <<isActive, tokenVars, adminVars>>

CallStep(c) ==
    \/ CheckPassword(c) \/ CheckExpiry(c) \/ DeleteExpired(c)
    \/ FindUser(c) \/ DeleteUsed(c) \/ \E n \in Tokens : SaveNew(c, n)

-----------------------------------------------------------------------------
\* Mutant: only one row is deleted.
LogoutOne ==
    /\ \E t \in rows : rows' = rows \ {t}
    /\ UNCHANGED <<isActive, expired, issued, callVars, adminVars>>

\* AuthService.logout deletes every row of the user in one statement.
Logout ==
    /\ rows # {}
    /\ rows' = {}
    /\ UNCHANGED <<isActive, expired, issued, callVars, adminVars>>

-----------------------------------------------------------------------------
(* UserService.setActivation and updateUser, and the interceptor around     *)
(* them.                                                                    *)

\* Mutant: the update is issued even when it changes nothing.
SaveActivationAlways(a, v) ==
    /\ tx[a] = "idle"
    /\ \A b \in Admins : ~dirty[b]
    /\ tx' = [tx EXCEPT ![a] = IF v THEN "open" ELSE "revoke"]
    /\ target' = [target EXCEPT ![a] = v]
    /\ dirty' = [dirty EXCEPT ![a] = TRUE]
    /\ UNCHANGED <<isActive, tokenVars, callVars>>

\* save() updates is_active when it differs from the committed value, and then
\* waits for another transaction that has updated it.
Save(a, v, label) ==
    /\ tx[a] = "idle"
    /\ v # isActive => \A b \in Admins : ~dirty[b]
    /\ tx' = [tx EXCEPT ![a] = label]
    /\ target' = [target EXCEPT ![a] = v]
    /\ dirty' = [dirty EXCEPT ![a] = v # isActive]
    /\ UNCHANGED <<isActive, tokenVars, callVars>>

SaveActivation(a, v) == Save(a, v, IF v THEN "open" ELSE "revoke")

\* updateUser with a new is_active in its body, which leaves the tokens alone.
UpdateUser(a, v) == v # isActive /\ Save(a, v, "update")

\* Not undone by a rollback.
RevokeTokens(a) ==
    /\ tx[a] = "revoke"
    /\ tx' = [tx EXCEPT ![a] = "open"]
    /\ rows' = {}
    /\ UNCHANGED <<isActive, expired, issued, callVars, target, dirty>>

EndTransaction(a) ==
    /\ tx' = [tx EXCEPT ![a] = "idle"]
    /\ target' = [target EXCEPT ![a] = TRUE]
    /\ dirty' = [dirty EXCEPT ![a] = FALSE]
    /\ UNCHANGED <<tokenVars, callVars>>

Commit(a) ==
    /\ tx[a] \in {"open", "update"}
    /\ isActive' = IF dirty[a] THEN target[a] ELSE isActive
    /\ EndTransaction(a)

Rollback(a) ==
    /\ tx[a] # "idle"
    /\ UNCHANGED isActive
    /\ EndTransaction(a)

-----------------------------------------------------------------------------
\* The expires_at of a row passes, or that of one a refresh has read and will compare.
Expire(t) ==
    /\ t \notin expired
    /\ t \in rows \/ \E c \in Calls : pc[c] = "matched" /\ presented[c] = t
    /\ expired' = expired \cup {t}
    /\ UNCHANGED <<isActive, rows, issued, callVars, adminVars>>

Next ==
    \/ \E c \in Calls : Login(c) \/ CallStep(c) \/ CallFails(c)
    \/ \E c \in Calls, t \in Tokens : Refresh(c, t)
    \/ Logout
    \/ \E a \in Admins, v \in BOOLEAN : SaveActivation(a, v) \/ UpdateUser(a, v)
    \/ \E a \in Admins : RevokeTokens(a) \/ Commit(a) \/ Rollback(a)
    \/ \E t \in Tokens : Expire(t)

Spec == Init /\ [][Next]_vars

-----------------------------------------------------------------------------
\* Type correctness.  Rows are of issued tokens, and only an update of the row
\* of the user locks it.
TypeOK ==
    /\ isActive \in BOOLEAN
    /\ issued \subseteq Tokens /\ rows \subseteq issued /\ expired \subseteq issued
    /\ pc \in [Calls -> {"idle", "matched", "deleteExpired", "findUser", "password",
                         "deleteUsed", "save"}]
    /\ presented \in [Calls -> issued \cup {NoToken}]
    /\ tx \in [Admins -> {"idle", "revoke", "open", "update"}]
    /\ target \in [Admins -> BOOLEAN]
    /\ dirty \in [Admins -> BOOLEAN]
    /\ \A a \in Admins : dirty[a] => tx[a] # "idle" /\ target[a] # isActive
    /\ \A a, b \in Admins : dirty[a] /\ dirty[b] => a = b
=============================================================================
