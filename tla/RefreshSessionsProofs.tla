------------------------ MODULE RefreshSessionsProofs ------------------------
(***************************************************************************)
(* For any number of tokens, concurrent calls and administrators: sessions *)
(* fork only by a race, stay revoked, are not lost by rotation, and        *)
(* nothing is stored for calls that begin after a deactivation.            *)
(***************************************************************************)
EXTENDS RefreshSessions, TLAPS

\* The points of a call before is_active has been looked at.
Early == {"matched", "deleteExpired", "findUser"}

\* A call that is about to store a token has removed the one it was given.
CallInv ==
    /\ late \subseteq Calls
    /\ \A c \in Calls :
        /\ pc[c] \in {"idle", "password"} => presented[c] = NoToken
        /\ pc[c] = "deleteExpired" => presented[c] # NoToken
        /\ pc[c] = "save" => presented[c] \notin rows
        /\ c \in late => ~isActive /\ pc[c] \in Early

\* A token is exchanged after its row is gone, by someone who had it before.
ForkInv ==
    /\ parent \in [Tokens -> Tokens \cup {NoToken}]
    /\ \A n \in issued : parent[n] # NoToken => parent[n] \in issued \ rows
    /\ \A c, d \in Calls :
        c # d /\ presented[c] = presented[d] => presented[c] \in raced \cup {NoToken}
    /\ \A n \in issued, c \in Calls :
        parent[n] = presented[c] => presented[c] \in raced \cup {NoToken}
    /\ ForkOnlyByRace

RootInv ==
    /\ root \in [Tokens -> Tokens]
    /\ \A t \in Tokens : IF t \in issued THEN root[t] \in issued ELSE root[t] = t
    /\ over \subseteq issued
    /\ \A c \in Calls : presented[c] # NoToken => root[presented[c]] \notin over
    /\ RevokedStaysOver

SessionsInv == TypeOK /\ CallInv /\ ForkInv /\ RootInv /\ SessionKept

LEMMA InitSessionsInv == SInit => SessionsInv
  <1> SUFFICES ASSUME SInit PROVE SessionsInv
    OBVIOUS
  <1>1. TypeOK
    BY DEF SInit, Init, TypeOK
  <1>2. CallInv
    BY DEF SInit, Init, CallInv
  <1>3. ForkInv
    BY DEF SInit, Init, ForkInv, ForkOnlyByRace
  <1>4. RootInv
    BY DEF SInit, Init, RootInv, RevokedStaysOver
  <1>5. SessionKept
    BY DEF SInit, Init, SessionKept, Sessions
  <1> QED
    BY <1>1, <1>2, <1>3, <1>4, <1>5 DEF SessionsInv

-----------------------------------------------------------------------------
\* Only an administrator's commit changes is_active, and he has the lock.
LEMMA StepTypeOK ==
  ASSUME TypeOK, Next
  PROVE  TypeOK'
  <1>1. ASSUME NEW c \in Calls, Login(c) \/ CallStep(c) \/ CallFails(c) PROVE TypeOK'
    <2>1. CASE Login(c)
      BY <2>1 DEF TypeOK, Login, Start, Goto, tokenVars, adminVars
    <2>2. CASE CheckPassword(c)
      BY <2>2 DEF TypeOK, CheckPassword, Goto, tokenVars, adminVars
    <2>3. CASE CheckExpiry(c)
      BY <2>3 DEF TypeOK, CheckExpiry, Goto, tokenVars, adminVars
    <2>4. CASE DeleteExpired(c)
      BY <2>4 DEF TypeOK, DeleteExpired, Return, Goto, adminVars
    <2>5. CASE FindUser(c)
      BY <2>5 DEF TypeOK, FindUser, Return, Goto, tokenVars, adminVars
    <2>6. CASE DeleteUsed(c)
      BY <2>6 DEF TypeOK, DeleteUsed, Goto, adminVars
    <2>7. ASSUME NEW n \in Tokens, SaveNew(c, n) PROVE TypeOK'
      <3>1. presented' \in [Calls -> issued' \cup {NoToken}]
        BY <2>7 DEF TypeOK, SaveNew, Return
      <3> QED
        BY <2>7, <3>1 DEF TypeOK, SaveNew, Return, Goto, adminVars
    <2>8. CASE CallFails(c)
      BY <2>8 DEF TypeOK, CallFails, Return, Goto, tokenVars, adminVars
    <2> QED
      BY <1>1, <2>1, <2>2, <2>3, <2>4, <2>5, <2>6, <2>7, <2>8 DEF CallStep
  <1>2. ASSUME NEW c \in Calls, NEW t \in Tokens, Refresh(c, t) PROVE TypeOK'
    BY <1>2 DEF TypeOK, Refresh, Start, Goto, tokenVars, adminVars
  <1>3. CASE Logout
    BY <1>3 DEF TypeOK, Logout, callVars, adminVars
  <1>4. ASSUME NEW a \in Admins, NEW v \in BOOLEAN, SaveActivation(a, v) \/ UpdateUser(a, v) PROVE TypeOK'
    <2>1. /\ tx' \in [Admins -> {"idle", "revoke", "open", "update"}] /\ target' \in [Admins -> BOOLEAN]
          /\ dirty' \in [Admins -> BOOLEAN]
          /\ UNCHANGED <<isActive, tokenVars, callVars>>
      BY <1>4 DEF TypeOK, SaveActivation, UpdateUser, Save
    <2>2. /\ tx'[a] # "idle" /\ target'[a] = v /\ (dirty'[a] <=> v # isActive)
          /\ \A b \in Admins \ {a} : tx'[b] = tx[b] /\ target'[b] = target[b] /\ dirty'[b] = dirty[b]
          /\ v # isActive => \A b \in Admins : ~dirty[b]
      BY <1>4 DEF TypeOK, SaveActivation, UpdateUser, Save
    <2>3. \A b \in Admins : dirty'[b] => tx'[b] # "idle" /\ target'[b] # isActive
      BY <2>2 DEF TypeOK
    <2>4. \A b, d \in Admins : dirty'[b] /\ dirty'[d] => b = d
      BY <2>2 DEF TypeOK
    <2> QED
      BY <2>1, <2>3, <2>4 DEF TypeOK, tokenVars, callVars
  <1>5. ASSUME NEW a \in Admins, RevokeTokens(a) PROVE TypeOK'
    BY <1>5 DEF TypeOK, RevokeTokens, callVars
  <1>6. ASSUME NEW a \in Admins, Commit(a) PROVE TypeOK'
    <2>1. /\ tx' \in [Admins -> {"idle", "revoke", "open", "update"}] /\ target' \in [Admins -> BOOLEAN]
          /\ dirty' \in [Admins -> BOOLEAN]
          /\ UNCHANGED <<tokenVars, callVars>>
      BY <1>6 DEF TypeOK, Commit, EndTransaction
    <2>2. /\ ~dirty'[a]
          /\ \A b \in Admins \ {a} : tx'[b] = tx[b] /\ target'[b] = target[b] /\ dirty'[b] = dirty[b]
          /\ isActive' = IF dirty[a] THEN target[a] ELSE isActive
      BY <1>6 DEF TypeOK, Commit, EndTransaction
    <2>3. isActive' \in BOOLEAN
      BY <2>2 DEF TypeOK
    <2>4. \A b \in Admins : dirty'[b] => tx'[b] # "idle" /\ target'[b] # isActive'
      BY <2>2 DEF TypeOK
    <2>5. \A b, d \in Admins : dirty'[b] /\ dirty'[d] => b = d
      BY <2>2 DEF TypeOK
    <2> QED
      BY <2>1, <2>3, <2>4, <2>5 DEF TypeOK, tokenVars, callVars
  <1>7. ASSUME NEW a \in Admins, Rollback(a) PROVE TypeOK'
    <2>1. /\ tx' \in [Admins -> {"idle", "revoke", "open", "update"}] /\ target' \in [Admins -> BOOLEAN]
          /\ dirty' \in [Admins -> BOOLEAN]
          /\ UNCHANGED <<isActive, tokenVars, callVars>>
      BY <1>7 DEF TypeOK, Rollback, EndTransaction
    <2>2. /\ ~dirty'[a]
          /\ \A b \in Admins \ {a} : tx'[b] = tx[b] /\ target'[b] = target[b] /\ dirty'[b] = dirty[b]
      BY <1>7 DEF TypeOK, Rollback, EndTransaction
    <2> QED
      BY <2>1, <2>2 DEF TypeOK, tokenVars, callVars
  <1>8. ASSUME NEW t \in Tokens, Expire(t) PROVE TypeOK'
    <2>1. t \in issued
      BY <1>8, NoTokenAssumption DEF TypeOK, Expire
    <2> QED
      BY <1>8, <2>1 DEF TypeOK, Expire, callVars, adminVars
  <1> QED
    BY <1>1, <1>2, <1>3, <1>4, <1>5, <1>6, <1>7, <1>8 DEF Next

-----------------------------------------------------------------------------
(* The kinds of steps, by what they do to the tokens.  Of a call:           *)

Only(c) ==
    /\ isActive' = isActive
    /\ \A d \in Calls \ {c} : pc'[d] = pc[d] /\ presented'[d] = presented[d]

Begins(c) ==
    /\ Only(c) /\ pc[c] = "idle" /\ pc'[c] \in {"matched", "findUser"}
    /\ presented'[c] \in rows \cup {NoToken} /\ UNCHANGED <<rows, issued>>

GoesOn(c) ==
    /\ Only(c) /\ pc[c] \in {"password", "matched", "findUser"}
    /\ pc'[c] \in {"deleteExpired", "findUser", "password", "deleteUsed", "save"}
    /\ pc'[c] = "save" => pc[c] = "password"
    /\ pc'[c] = "password" => presented[c] = NoToken
    /\ pc'[c] = "deleteExpired" => presented[c] # NoToken
    /\ pc'[c] \in Early \/ isActive \/ pc[c] = "password"
    /\ presented'[c] = presented[c] /\ UNCHANGED <<rows, issued>>

Uses(c) ==
    /\ Only(c) /\ pc[c] = "deleteUsed" /\ pc'[c] = "save"
    /\ presented'[c] = presented[c] /\ rows' = rows \ {presented[c]} /\ issued' = issued

Ends(c) ==
    /\ Only(c) /\ pc[c] # "idle" /\ pc'[c] = "idle"
    /\ presented'[c] = NoToken /\ issued' = issued
    /\ rows' = rows \/ (pc[c] = "deleteExpired" /\ rows' = rows \ {presented[c]})

Stores(c, n) ==
    /\ Only(c) /\ pc[c] = "save" /\ pc'[c] = "idle"
    /\ presented'[c] = NoToken
    /\ n \in Tokens \ issued /\ rows' = rows \cup {n} /\ issued' = issued \cup {n}

\* ... and of anyone else.
RevokesAll == UNCHANGED <<pc, presented, issued, isActive>> /\ rows' = {}
Elsewhere  == UNCHANGED <<pc, presented, issued, rows>>

LEMMA Kinds ==
  ASSUME TypeOK, Next
  PROVE  \/ \E c \in Calls : Begins(c) \/ GoesOn(c) \/ Uses(c) \/ Ends(c) \/ \E n \in Tokens : Stores(c, n)
         \/ RevokesAll \/ Elsewhere
  <1>1. ASSUME NEW c \in Calls, Login(c) PROVE Begins(c)
    BY <1>1 DEF TypeOK, Login, Start, Goto, Begins, Only, tokenVars
  <1>2. ASSUME NEW c \in Calls, NEW t \in Tokens, Refresh(c, t) PROVE Begins(c)
    BY <1>2 DEF TypeOK, Refresh, Start, Goto, Begins, Only, tokenVars
  <1>3. ASSUME NEW c \in Calls, CallStep(c) \/ CallFails(c)
        PROVE  GoesOn(c) \/ Uses(c) \/ Ends(c) \/ \E n \in Tokens : Stores(c, n)
    <2>0. NoToken \notin expired
      BY NoTokenAssumption DEF TypeOK
    <2>1. CASE CheckPassword(c)
      BY <2>1 DEF TypeOK, CheckPassword, Goto, tokenVars, GoesOn, Only
    <2>2. CASE CheckExpiry(c)
      BY <2>0, <2>2 DEF TypeOK, CheckExpiry, Goto, tokenVars, GoesOn, Only, Early
    <2>3. CASE DeleteExpired(c)
      BY <2>3 DEF TypeOK, DeleteExpired, Return, Goto, Ends, Only
    <2>4. CASE FindUser(c)
      BY <2>4 DEF TypeOK, FindUser, Return, Goto, tokenVars, GoesOn, Ends, Only
    <2>5. CASE DeleteUsed(c)
      BY <2>5 DEF TypeOK, DeleteUsed, Goto, Uses, Only
    <2>6. ASSUME NEW n \in Tokens, SaveNew(c, n) PROVE Stores(c, n)
      BY <2>6 DEF TypeOK, SaveNew, Return, Goto, Stores, Only
    <2>7. CASE CallFails(c)
      BY <2>7 DEF TypeOK, CallFails, Return, Goto, tokenVars, Ends, Only
    <2> QED
      BY <1>3, <2>1, <2>2, <2>3, <2>4, <2>5, <2>6, <2>7 DEF CallStep
  <1>4. CASE Logout \/ \E a \in Admins : RevokeTokens(a)
    BY <1>4 DEF Logout, RevokeTokens, RevokesAll, callVars
  <1>5. CASE \E a \in Admins : Commit(a) \/ Rollback(a) \/ \E v \in BOOLEAN : SaveActivation(a, v) \/ UpdateUser(a, v)
    BY <1>5 DEF Commit, Rollback, SaveActivation, UpdateUser, Save, EndTransaction, Elsewhere, callVars, tokenVars
  <1>6. CASE \E t \in Tokens : Expire(t)
    BY <1>6 DEF Expire, Elsewhere, callVars
  <1> QED
    BY <1>1, <1>2, <1>3, <1>4, <1>5, <1>6 DEF Next

-----------------------------------------------------------------------------
\* What the history variables record.
LEMMA HistoryFact ==
  ASSUME SNext, ForkInv, RootInv
  PROVE  /\ issued' = issued => \A t \in Tokens : parent'[t] = parent[t] /\ root'[t] = root[t]
         /\ raced \subseteq raced'
         /\ \A c, d \in Calls : c # d /\ presented'[c] = presented'[d] /\ presented'[c] \in Tokens
               => presented'[c] \in raced'
         /\ \A c \in late' : c \in Calls /\ ~isActive' /\ pc'[c] # "idle" /\ (c \in late \/ pc[c] = "idle")
         /\ \A s \in over' : s \in over \/ (/\ s \in Sessions /\ Revokes
                                            /\ \A c \in Calls : ~Refreshing(c, s))
         /\ cut \subseteq cut'
         /\ \A s \in Sessions : Revokes \/ (\E c \in Calls : Refreshing(c, s) /\ Drops(c)) => s \in cut'
  <1>1. issued' = issued => \A t \in Tokens : parent'[t] = parent[t] /\ root'[t] = root[t]
    BY DEF SNext
  <1>2. /\ raced \subseteq raced'
        /\ \A c, d \in Calls : c # d /\ presented'[c] = presented'[d] /\ presented'[c] \in Tokens
               => presented'[c] \in raced'
    BY DEF SNext
  <1>3. \A c \in late' : c \in Calls /\ ~isActive' /\ pc'[c] # "idle" /\ (c \in late \/ pc[c] = "idle")
    BY DEF SNext
  <1>4. \A s \in over' : s \in over \/ (/\ s \in Sessions /\ Revokes
                                        /\ \A c \in Calls : ~Refreshing(c, s))
    BY DEF SNext
  <1>5. /\ cut \subseteq cut'
        /\ \A s \in Sessions : Revokes \/ (\E c \in Calls : Refreshing(c, s) /\ Drops(c)) => s \in cut'
    BY DEF SNext
  <1> QED
    BY <1>1, <1>2, <1>3, <1>4, <1>5

\* A new token continues the session of the one it was exchanged for.
LEMMA StoresFact ==
  ASSUME TypeOK, SNext, ForkInv, RootInv, NEW c \in Calls, NEW n \in Tokens, Stores(c, n)
  PROVE  /\ parent'[n] = presented[c]
         /\ root'[n] = IF presented[c] = NoToken THEN n ELSE root[presented[c]]
         /\ \A t \in Tokens \ {n} : parent'[t] = parent[t] /\ root'[t] = root[t]
  <1> DEFINE from == presented[CHOOSE d \in Calls : pc[d] # pc'[d]]
  <1>1. (CHOOSE d \in Calls : pc[d] # pc'[d]) = c
    BY DEF Stores, Only
  <1>2. from = presented[c]
    BY <1>1
  <1>3. /\ parent' = [t \in Tokens |-> IF t \in issued' \ issued THEN from ELSE parent[t]]
        /\ root' = [t \in Tokens |->
                       IF t \in issued' \ issued /\ from # NoToken THEN root[from] ELSE root[t]]
    BY DEF SNext
  <1> HIDE DEF from
  <1>4. \A t \in Tokens : t \in issued' \ issued <=> t = n
    BY DEF Stores
  <1>5. root[n] = n
    BY DEF Stores, RootInv
  <1> QED
    BY <1>2, <1>3, <1>4, <1>5

LEMMA HistoryTypes ==
  ASSUME TypeOK, SNext, ForkInv, RootInv, TypeOK'
  PROVE  parent' \in [Tokens -> Tokens \cup {NoToken}] /\ root' \in [Tokens -> Tokens]
  <1>1. CASE issued' = issued
    BY <1>1 DEF SNext, ForkInv, RootInv
  <1>2. ASSUME NEW c \in Calls, NEW n \in Tokens, Stores(c, n)
        PROVE  parent' \in [Tokens -> Tokens \cup {NoToken}] /\ root' \in [Tokens -> Tokens]
    <2>1. /\ parent' = [t \in Tokens |-> parent'[t]] /\ root' = [t \in Tokens |-> root'[t]]
      BY DEF SNext
    <2>2. presented[c] \in Tokens \cup {NoToken}
      BY DEF TypeOK
    <2> QED
      BY <1>2, <2>1, <2>2, StoresFact DEF ForkInv, RootInv
  <1>3. issued' = issued \/ \E c \in Calls, n \in Tokens : Stores(c, n)
    BY Kinds DEF SNext, Begins, GoesOn, Uses, Ends, RevokesAll, Elsewhere
  <1> QED
    BY <1>1, <1>2, <1>3

-----------------------------------------------------------------------------
LEMMA StepCallInv ==
  ASSUME SessionsInv, SNext
  PROVE  CallInv'
  <1>0. TypeOK /\ CallInv /\ ForkInv /\ RootInv /\ NoToken \notin Tokens
    BY NoTokenAssumption DEF SessionsInv
  <1>1. \A c \in late' : c \in Calls /\ ~isActive' /\ pc'[c] # "idle" /\ (c \in late \/ pc[c] = "idle")
    BY <1>0, HistoryFact
  <1>2. ASSUME NEW c \in Calls, Begins(c) \/ GoesOn(c) \/ Uses(c) \/ Ends(c) PROVE CallInv'
    <2>1. /\ isActive' = isActive
          /\ \A d \in Calls \ {c} : pc'[d] = pc[d] /\ presented'[d] = presented[d]
          /\ rows' \subseteq rows
      BY <1>2 DEF Begins, GoesOn, Uses, Ends, Only
    <2>2. /\ pc'[c] \in {"idle", "password"} => presented'[c] = NoToken
          /\ pc'[c] = "deleteExpired" => presented'[c] # NoToken
          /\ pc'[c] = "save" => presented'[c] \notin rows'
      <3>1. NoToken \notin rows
        BY <1>0 DEF TypeOK
      <3>2. CASE Begins(c)
        BY <3>2 DEF Begins
      <3>3. CASE GoesOn(c)
        BY <1>0, <3>1, <3>3 DEF GoesOn, CallInv
      <3>4. CASE Uses(c)
        BY <3>4 DEF Uses
      <3>5. CASE Ends(c)
        BY <3>5 DEF Ends
      <3> QED
        BY <1>2, <3>2, <3>3, <3>4, <3>5
    <2>3. c \in late' => pc'[c] \in Early
      <3>1. CASE Begins(c)
        BY <3>1 DEF Begins, Early
      <3>2. CASE GoesOn(c)
        BY <1>0, <1>1, <3>2 DEF GoesOn, CallInv, Early, Only
      <3>3. CASE Uses(c)
        BY <1>0, <1>1, <3>3 DEF Uses, CallInv, Early, Only
      <3>4. CASE Ends(c)
        BY <1>1, <3>4 DEF Ends
      <3> QED
        BY <1>2, <3>1, <3>2, <3>3, <3>4
    <2>4. \A d \in Calls \ {c} : d \in late' => pc'[d] \in Early
      BY <1>0, <1>1, <2>1 DEF CallInv
    <2>5. \A d \in Calls \ {c} : /\ pc'[d] \in {"idle", "password"} => presented'[d] = NoToken
                                 /\ pc'[d] = "deleteExpired" => presented'[d] # NoToken
                                 /\ pc'[d] = "save" => presented'[d] \notin rows'
      BY <1>0, <2>1 DEF CallInv
    <2> QED
      BY <1>1, <2>2, <2>3, <2>4, <2>5 DEF CallInv
  <1>3. ASSUME NEW c \in Calls, NEW n \in Tokens, Stores(c, n) PROVE CallInv'
    <2>1. /\ isActive' = isActive /\ pc'[c] = "idle" /\ presented'[c] = NoToken
          /\ \A d \in Calls \ {c} : pc'[d] = pc[d] /\ presented'[d] = presented[d]
          /\ rows' = rows \cup {n} /\ n \notin issued
      BY <1>3 DEF Stores, Only
    <2>2. \A d \in Calls : presented[d] # n
      BY <1>0, <2>1 DEF TypeOK
    <2> QED
      BY <1>0, <1>1, <2>1, <2>2 DEF CallInv
  <1>4. CASE RevokesAll \/ Elsewhere
    BY <1>0, <1>1, <1>4 DEF CallInv, RevokesAll, Elsewhere
  <1> QED
    BY <1>0, <1>2, <1>3, <1>4, Kinds DEF SNext

LEMMA StepForkInv ==
  ASSUME SessionsInv, SNext, TypeOK'
  PROVE  ForkInv'
  <1>0. TypeOK /\ CallInv /\ ForkInv /\ RootInv /\ NoToken \notin Tokens
    BY NoTokenAssumption DEF SessionsInv
  <1>1. /\ issued' = issued => \A t \in Tokens : parent'[t] = parent[t]
        /\ raced \subseteq raced'
        /\ \A c, d \in Calls : c # d /\ presented'[c] = presented'[d] /\ presented'[c] \in Tokens
               => presented'[c] \in raced'
        /\ parent' \in [Tokens -> Tokens \cup {NoToken}]
    BY <1>0, HistoryFact, HistoryTypes
  <1>2. \A c \in Calls : presented'[c] \in Tokens \cup {NoToken}
    BY DEF TypeOK
  <1>3. \A c, d \in Calls :
          c # d /\ presented'[c] = presented'[d] => presented'[c] \in raced' \cup {NoToken}
    BY <1>1, <1>2
  <1>4. CASE /\ issued' = issued /\ rows' \subseteq rows
             /\ \A c \in Calls : presented'[c] \in {presented[c], NoToken} \cup rows
    <2>1. \A n \in issued : parent'[n] = parent[n]
      BY <1>0, <1>1, <1>4 DEF TypeOK
    <2>2. \A n \in issued : parent'[n] # NoToken => parent'[n] \in issued' \ rows'
      BY <1>0, <1>4, <2>1 DEF ForkInv
    <2>3. \A n \in issued, c \in Calls :
            parent'[n] = presented'[c] => presented'[c] \in raced' \cup {NoToken}
      BY <1>0, <1>1, <1>4, <2>1 DEF ForkInv
    <2>4. ForkOnlyByRace'
      BY <1>0, <1>1, <1>4, <2>1 DEF ForkInv, ForkOnlyByRace
    <2> QED
      BY <1>1, <1>3, <1>4, <2>2, <2>3, <2>4 DEF ForkInv
  <1>5. ASSUME NEW c \in Calls, NEW n \in Tokens, Stores(c, n) PROVE ForkInv'
    <2>1. /\ parent'[n] = presented[c] /\ \A t \in Tokens \ {n} : parent'[t] = parent[t]
          /\ pc[c] = "save" /\ presented'[c] = NoToken
          /\ \A d \in Calls \ {c} : presented'[d] = presented[d]
          /\ n \notin issued /\ rows' = rows \cup {n} /\ issued' = issued \cup {n}
      BY <1>0, <1>5, StoresFact DEF Stores, Only
    <2>2. presented[c] \in issued \cup {NoToken} /\ presented[c] \notin rows
      BY <1>0, <2>1 DEF TypeOK, CallInv
    <2>3. \A m \in issued : m # n /\ parent'[m] = parent[m] /\ m \in Tokens
      BY <1>0, <2>1 DEF TypeOK
    <2>4. \A m \in issued' : parent'[m] # NoToken => parent'[m] \in issued' \ rows'
      BY <1>0, <2>1, <2>2, <2>3 DEF ForkInv
    <2>5. \A m \in issued', d \in Calls :
            parent'[m] = presented'[d] => presented'[d] \in raced' \cup {NoToken}
      <3>1. \A m \in issued, d \in Calls :
              parent'[m] = presented'[d] => presented'[d] \in raced' \cup {NoToken}
        BY <1>0, <1>1, <2>1, <2>3 DEF ForkInv
      <3>2. \A d \in Calls : presented[c] = presented'[d] => presented'[d] \in raced' \cup {NoToken}
        BY <1>0, <1>1, <2>1 DEF ForkInv
      <3> QED
        BY <2>1, <3>1, <3>2
    <2>6. ForkOnlyByRace'
      <3>1. \A m \in issued : parent[m] = presented[c] => presented[c] \in raced \cup {NoToken}
        BY <1>0 DEF ForkInv
      <3> QED
        BY <1>0, <1>1, <2>1, <2>3, <3>1 DEF ForkInv, ForkOnlyByRace
    <2> QED
      BY <1>1, <1>3, <2>4, <2>5, <2>6 DEF ForkInv
  <1>6. ASSUME NEW c \in Calls, Begins(c) \/ GoesOn(c) \/ Uses(c) \/ Ends(c) PROVE ForkInv'
    BY <1>4, <1>6 DEF Begins, GoesOn, Uses, Ends, Only
  <1>7. ASSUME RevokesAll \/ Elsewhere PROVE ForkInv'
    BY <1>4, <1>7 DEF RevokesAll, Elsewhere
  <1> QED
    BY <1>0, <1>5, <1>6, <1>7, Kinds DEF SNext

LEMMA StepRootInv ==
  ASSUME SessionsInv, SNext, TypeOK'
  PROVE  RootInv'
  <1>0. TypeOK /\ CallInv /\ ForkInv /\ RootInv /\ NoToken \notin Tokens
    BY NoTokenAssumption DEF SessionsInv
  <1>1. /\ issued' = issued => \A t \in Tokens : root'[t] = root[t]
        /\ \A s \in over' : s \in over \/ (/\ s \in Sessions /\ Revokes
                                           /\ \A c \in Calls : ~Refreshing(c, s))
        /\ root' \in [Tokens -> Tokens]
    BY <1>0, HistoryFact, HistoryTypes
  <1>2. \A s \in Sessions : s \in issued
    BY <1>0 DEF Sessions, RootInv, TypeOK
  <1>3. ASSUME ~Revokes, issued' = issued, rows' \subseteq rows,
               \A c \in Calls : presented'[c] \in {presented[c], NoToken} \cup rows
        PROVE  RootInv'
    <2>1. \A t \in issued : root'[t] = root[t] /\ t \in Tokens
      BY <1>0, <1>1, <1>3 DEF TypeOK
    <2>2. over' \subseteq over
      BY <1>1, <1>3
    <2>3. \A t \in rows : root'[t] \notin over'
      BY <1>0, <2>1, <2>2 DEF TypeOK, RootInv, RevokedStaysOver
    <2>4. \A c \in Calls : presented'[c] # NoToken => root'[presented'[c]] \notin over'
      <3>1. \A c \in Calls : presented[c] # NoToken => root'[presented[c]] \notin over'
        BY <1>0, <2>1, <2>2 DEF TypeOK, RootInv
      <3> QED
        BY <1>3, <2>3, <3>1
    <2>5. \A t \in Tokens : IF t \in issued' THEN root'[t] \in issued' ELSE root'[t] = t
      BY <1>0, <1>1, <1>3 DEF RootInv
    <2>6. RevokedStaysOver'
      BY <1>3, <2>3 DEF RevokedStaysOver
    <2> QED
      BY <1>0, <1>1, <1>3, <2>2, <2>4, <2>5, <2>6 DEF RootInv
  <1>4. ASSUME NEW c \in Calls, Begins(c) \/ GoesOn(c) \/ Uses(c) \/ Ends(c) PROVE RootInv'
    <2>1. pc'[c] # pc[c] \/ rows' = rows
      BY <1>4 DEF Begins, GoesOn, Uses, Ends
    <2>2. ~Revokes
      BY <2>1 DEF Revokes
    <2> QED
      BY <1>3, <1>4, <2>2 DEF Begins, GoesOn, Uses, Ends, Only
  <1>5. CASE Elsewhere
    BY <1>3, <1>5 DEF Elsewhere, Revokes
  <1>6. CASE RevokesAll
    <2>1. \A t \in issued : root'[t] = root[t] /\ t \in Tokens
      BY <1>0, <1>1, <1>6 DEF TypeOK, RevokesAll
    <2>2. over' \subseteq issued
      BY <1>0, <1>1, <1>2 DEF RootInv
    <2>3. ASSUME NEW c \in Calls, presented'[c] # NoToken PROVE root'[presented'[c]] \notin over'
      <3>1. presented[c] # NoToken /\ presented[c] \in issued /\ pc[c] # "idle"
        BY <1>0, <1>6, <2>3 DEF RevokesAll, TypeOK, CallInv
      <3>2. Refreshing(c, root[presented[c]])
        BY <3>1 DEF Refreshing
      <3> QED
        BY <1>0, <1>1, <1>6, <2>1, <3>1, <3>2 DEF RootInv, RevokesAll
    <2>4. RevokedStaysOver'
      BY <1>6 DEF RevokedStaysOver, RevokesAll
    <2>5. \A t \in Tokens : IF t \in issued' THEN root'[t] \in issued' ELSE root'[t] = t
      BY <1>0, <1>1, <1>6 DEF RootInv, RevokesAll
    <2> QED
      BY <1>1, <1>6, <2>2, <2>3, <2>4, <2>5 DEF RootInv, RevokesAll
  <1>7. ASSUME NEW c \in Calls, NEW n \in Tokens, Stores(c, n) PROVE RootInv'
    <2>1. /\ root'[n] = IF presented[c] = NoToken THEN n ELSE root[presented[c]]
          /\ \A t \in Tokens \ {n} : root'[t] = root[t]
          /\ presented'[c] = NoToken /\ pc'[c] # pc[c]
          /\ \A d \in Calls \ {c} : presented'[d] = presented[d]
          /\ n \notin issued /\ rows' = rows \cup {n} /\ issued' = issued \cup {n}
      BY <1>0, <1>7, StoresFact DEF Stores, Only
    <2>2. over' \subseteq over
      BY <1>1, <2>1 DEF Revokes
    <2>3. root'[n] \notin over /\ root'[n] \in issued'
      <3>1. CASE presented[c] = NoToken
        BY <1>0, <2>1, <3>1 DEF RootInv
      <3>2. CASE presented[c] # NoToken
        BY <1>0, <2>1, <3>2 DEF RootInv, TypeOK
      <3> QED
        BY <3>1, <3>2
    <2>4. \A t \in issued : root'[t] = root[t] /\ t \in Tokens
      BY <1>0, <2>1 DEF TypeOK
    <2>5. \A t \in rows' : root'[t] \notin over'
      BY <1>0, <2>1, <2>2, <2>3, <2>4 DEF TypeOK, RootInv, RevokedStaysOver
    <2>6. \A d \in Calls : presented'[d] # NoToken => root'[presented'[d]] \notin over'
      BY <1>0, <2>1, <2>2, <2>4 DEF TypeOK, RootInv
    <2>7. \A t \in Tokens : IF t \in issued' THEN root'[t] \in issued' ELSE root'[t] = t
      BY <1>0, <2>1, <2>3 DEF RootInv
    <2> QED
      BY <1>0, <1>1, <2>1, <2>2, <2>5, <2>6, <2>7 DEF RootInv, RevokedStaysOver
  <1> QED
    BY <1>0, <1>4, <1>5, <1>6, <1>7, Kinds DEF SNext

\* The session s has a token, or a refresh is about to store one.
Kept(s) ==
    \/ \E t \in rows : root[t] = s
    \/ \E c \in Calls : Refreshing(c, s) /\ pc[c] = "save"

LEMMA StepSessionKept ==
  ASSUME SessionsInv, SNext, TypeOK'
  PROVE  SessionKept'
  <1>0. TypeOK /\ CallInv /\ ForkInv /\ RootInv /\ NoToken \notin Tokens
    BY NoTokenAssumption DEF SessionsInv
  <1>1. /\ issued' = issued => \A t \in Tokens : root'[t] = root[t]
        /\ cut \subseteq cut'
        /\ \A s \in Sessions : Revokes \/ (\E c \in Calls : Refreshing(c, s) /\ Drops(c)) => s \in cut'
    BY <1>0, HistoryFact
  <1>2. \A s \in Sessions \ cut : Kept(s)
    BY DEF SessionsInv, SessionKept, Kept
  <1>3. ASSUME NEW c \in Calls, NEW n \in Tokens, Stores(c, n), NEW s \in Sessions' \ cut'
        PROVE  Kept(s)'
    <2>1. /\ root'[n] = IF presented[c] = NoToken THEN n ELSE root[presented[c]]
          /\ \A t \in Tokens \ {n} : root'[t] = root[t]
          /\ \A d \in Calls \ {c} : presented'[d] = presented[d] /\ pc'[d] = pc[d]
          /\ n \notin issued /\ rows' = rows \cup {n} /\ issued' = issued \cup {n}
      BY <1>0, <1>3, StoresFact DEF Stores, Only
    <2>2. \A t \in issued : root'[t] = root[t]
      BY <1>0, <2>1 DEF TypeOK
    <2>3. CASE root'[n] = s
      BY <2>1, <2>3 DEF Kept
    <2>4. CASE root'[n] # s
      <3>1. s \in Sessions \ cut
        BY <1>1, <1>3, <2>1, <2>2, <2>4 DEF Sessions
      <3>2. CASE \E t \in rows : root[t] = s
        BY <1>0, <2>1, <2>2, <3>2 DEF Kept, TypeOK
      <3>3. CASE \E d \in Calls : Refreshing(d, s) /\ pc[d] = "save"
        <4>1. PICK d \in Calls : Refreshing(d, s) /\ pc[d] = "save"
          BY <3>3
        <4>2. d # c /\ presented[d] \in issued
          BY <1>0, <2>1, <2>4, <4>1 DEF Refreshing, TypeOK
        <4>3. Refreshing(d, s)' /\ pc'[d] = "save"
          BY <2>1, <2>2, <4>1, <4>2 DEF Refreshing
        <4> QED
          BY <4>3 DEF Kept
      <3> QED
        BY <1>2, <3>1, <3>2, <3>3 DEF Kept
    <2> QED
      BY <2>3, <2>4
  <1>4. ASSUME issued' = issued, NEW s \in Sessions' \ cut'
        PROVE  /\ s \in Sessions \ cut
               /\ ~Revokes /\ \A c \in Calls : Refreshing(c, s) => ~Drops(c)
               /\ \A t \in issued : root'[t] = root[t]
    <2>1. \A t \in issued : root'[t] = root[t]
      BY <1>0, <1>1, <1>4 DEF TypeOK
    <2>2. s \in Sessions
      BY <1>4, <2>1 DEF Sessions
    <2> QED
      BY <1>1, <1>4, <2>1, <2>2
  <1>5. ASSUME NEW c \in Calls, Begins(c) \/ GoesOn(c) \/ Uses(c) \/ Ends(c), NEW s \in Sessions' \ cut'
        PROVE  Kept(s)'
    <2>0. issued' = issued /\ \A d \in Calls \ {c} : presented'[d] = presented[d] /\ pc'[d] = pc[d]
      BY <1>5 DEF Begins, GoesOn, Uses, Ends, Only
    <2>1. /\ s \in Sessions \ cut /\ \A d \in Calls : Refreshing(d, s) => ~Drops(d)
          /\ \A t \in issued : root'[t] = root[t]
      BY <1>4, <2>0
    <2>2. CASE \E t \in rows : root[t] = s
      <3>1. PICK t \in rows : root[t] = s
        BY <2>2
      <3>2. t \in issued /\ t # NoToken
        BY <1>0, <3>1 DEF TypeOK
      <3>3. CASE t \in rows'
        BY <2>1, <3>1, <3>2, <3>3 DEF Kept
      <3>4. CASE t \notin rows'
        <4>1. Uses(c) \/ (Ends(c) /\ pc[c] = "deleteExpired")
          BY <1>5, <3>1, <3>4 DEF Begins, GoesOn, Ends
        <4>2. presented[c] = t
          BY <3>1, <3>4, <4>1 DEF Uses, Ends
        <4>3. Refreshing(c, s)
          BY <3>1, <3>2, <4>1, <4>2 DEF Refreshing, Uses, Ends
        <4>4. Uses(c)
          BY <2>0, <2>1, <4>1, <4>3 DEF Drops, Ends
        <4>5. Refreshing(c, s)' /\ pc'[c] = "save"
          BY <2>1, <3>1, <3>2, <4>2, <4>4 DEF Refreshing, Uses
        <4> QED
          BY <4>5 DEF Kept
      <3> QED
        BY <3>3, <3>4
    <2>3. CASE \E d \in Calls : Refreshing(d, s) /\ pc[d] = "save"
      <3>1. PICK d \in Calls : Refreshing(d, s) /\ pc[d] = "save"
        BY <2>3
      <3>2. presented[d] \in issued
        BY <1>0, <3>1 DEF Refreshing, TypeOK
      <3>3. d # c
        BY <1>5, <2>0, <2>1, <3>1 DEF Drops, Begins, GoesOn, Uses, Ends
      <3>4. Refreshing(d, s)' /\ pc'[d] = "save"
        BY <2>0, <2>1, <3>1, <3>2, <3>3 DEF Refreshing
      <3> QED
        BY <3>4 DEF Kept
    <2> QED
      BY <1>2, <2>1, <2>2, <2>3 DEF Kept
  <1>6. ASSUME RevokesAll \/ Elsewhere, NEW s \in Sessions' \ cut' PROVE Kept(s)'
    <2>1. issued' = issued /\ pc' = pc /\ presented' = presented
      BY <1>6 DEF RevokesAll, Elsewhere
    <2>2. /\ s \in Sessions \ cut /\ ~Revokes /\ \A t \in issued : root'[t] = root[t]
      BY <1>4, <1>6, <2>1
    <2>3. rows' = rows
      BY <2>1, <2>2 DEF Revokes
    <2> QED
      BY <1>0, <1>2, <2>1, <2>2, <2>3 DEF Kept, Refreshing, TypeOK
  <1>7. \A s \in Sessions' \ cut' : Kept(s)'
    BY <1>0, <1>3, <1>5, <1>6, Kinds DEF SNext
  <1> QED
    BY <1>7 DEF SessionKept, Kept

-----------------------------------------------------------------------------
LEMMA StepSessionsInv == SessionsInv /\ [SNext]_<<vars, historyVars>> => SessionsInv'
  <1> SUFFICES ASSUME SessionsInv, [SNext]_<<vars, historyVars>> PROVE SessionsInv'
    OBVIOUS
  <1>1. CASE SNext
    <2>1. TypeOK'
      BY <1>1, StepTypeOK DEF SNext, SessionsInv
    <2> QED
      BY <1>1, <2>1, StepCallInv, StepForkInv, StepRootInv, StepSessionKept DEF SessionsInv
  <1>2. CASE UNCHANGED <<vars, historyVars>>
    BY <1>2 DEF vars, historyVars, tokenVars, callVars, adminVars, SessionsInv, TypeOK, CallInv,
      ForkInv, ForkOnlyByRace, RootInv, RevokedStaysOver, SessionKept, Sessions, Refreshing
  <1> QED
    BY <1>1, <1>2

LEMMA SessionsInvAlways == SSpec => []SessionsInv
  BY InitSessionsInv, StepSessionsInv, PTL DEF SSpec

\* Rows are of tokens that were issued, and of several administrators only the
\* one who has updated the row of the user holds its lock.
THEOREM TypeCorrect == SSpec => []TypeOK
  <1>1. SessionsInv => TypeOK
    BY DEF SessionsInv
  <1> QED
    BY <1>1, SessionsInvAlways, PTL

\* A refresh token is exchanged for two others only if two refreshes with it were
\* in progress at once.
THEOREM ForksOnlyByRace == SSpec => []ForkOnlyByRace
  <1>1. SessionsInv => ForkOnlyByRace
    BY DEF SessionsInv, ForkInv
  <1> QED
    BY <1>1, SessionsInvAlways, PTL

\* A session revoked while no refresh of it is in progress has no token again.
THEOREM RevokedForGood == SSpec => []RevokedStaysOver
  <1>1. SessionsInv => RevokedStaysOver
    BY DEF SessionsInv, RootInv
  <1> QED
    BY <1>1, SessionsInvAlways, PTL

\* Rotation keeps a session until it is revoked or expires, or a call fails
\* between its delete and its insert.
THEOREM SessionsKept == SSpec => []SessionKept
  <1>1. SessionsInv => SessionKept
    BY DEF SessionsInv
  <1> QED
    BY <1>1, SessionsInvAlways, PTL

\* A call that begins after a committed deactivation stores no token.
THEOREM NothingForInactive == SSpec => []InactiveGetsNothing
  <1>1. SessionsInv => InactiveGetsNothing
    BY DEF SessionsInv, CallInv, InactiveGetsNothing, Early
  <1> QED
    BY <1>1, SessionsInvAlways, PTL
=============================================================================
