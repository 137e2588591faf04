--------------------------- MODULE RefreshSessions ---------------------------
(***************************************************************************)
(* The sessions behind RefreshTokens: a login starts one, and a refresh    *)
(* continues the session of the token it is called with.  History          *)
(* variables follow the sessions; the program does not know them.          *)
(***************************************************************************)
EXTENDS RefreshTokens

VARIABLES
    parent,   \* the token a token was exchanged for, NoToken for a login
    root,     \* the token that the login of its session returned
    raced,    \* the tokens with which two refreshes were in progress at once
    over,     \* sessions revoked while no refresh of theirs was in progress
    cut,      \* sessions that were revoked, expired or failed to store a token
    late,     \* the calls that began since the user is inactive
    how       \* the last step of the request that made the user inactive

historyVars == <<parent, root, raced, over, cut, late, how>>

Refreshing(c, s) == pc[c] # "idle" /\ presented[c] # NoToken /\ root[presented[c]] = s
Sessions   == {root[t] : t \in issued}

\* The step revokes tokens: logout, or a deactivation
Revokes    == pc' = pc /\ rows' # rows
\* ... or ends call c, at a label after which its token may be gone
Drops(c)   == pc[c] \in {"deleteExpired", "save"} /\ pc'[c] = "idle" /\ issued' = issued

SInit ==
    /\ Init
    /\ parent = [t \in Tokens |-> NoToken]
    /\ root = [t \in Tokens |-> t]
    /\ raced = {} /\ over = {} /\ cut = {} /\ late = {} /\ how = "none"

SNext ==
    /\ Next
    /\ LET made(t) == t \in issued' \ issued
           from    == presented[CHOOSE c \in Calls : pc[c] # pc'[c]]
       IN /\ parent' = [t \in Tokens |-> IF made(t) THEN from ELSE parent[t]]
          /\ root' = [t \in Tokens |->
                         IF made(t) /\ from # NoToken THEN root[from] ELSE root[t]]
    /\ raced' = raced \cup {t \in Tokens : \E c, d \in Calls :
                               c # d /\ presented'[c] = t /\ presented'[d] = t}
    /\ over' = over \cup
          {s \in Sessions : Revokes /\ \A c \in Calls : ~Refreshing(c, s)}
    /\ cut' = cut \cup
          {s \in Sessions : Revokes \/ \E c \in Calls : Refreshing(c, s) /\ Drops(c)}
    /\ late' = IF isActive' THEN {}
               ELSE {c \in Calls : pc'[c] # "idle" /\ (c \in late \/ pc[c] = "idle")}
    /\ how' = IF isActive' THEN "none"
              ELSE IF isActive THEN tx[CHOOSE a \in Admins : tx[a] # tx'[a]] ELSE how

SSpec == SInit /\ [][SNext]_<<vars, historyVars>>

-----------------------------------------------------------------------------
\* Rotation: "each token is single-use" (05-strategies.md), except that one is
\* exchanged for two others when two refreshes with it are in progress at once.
ForkOnlyByRace ==
    \A m, n \in issued :
        m # n /\ parent[m] = parent[n] /\ parent[m] # NoToken => parent[m] \in raced

\* A session that is revoked, by logout or deactivation, while no refresh of
\* it is in progress never has a token again.
RevokedStaysOver == \A t \in rows : root[t] \notin over

\* Rotation never loses a session: until it is revoked or expires, it has a
\* token, or a refresh that is about to store one.  Only a failure between the
\* delete of the used token and the insert of the next can end it.
SessionKept ==
    \A s \in Sessions \ cut :
        \/ \E t \in rows : root[t] = s
        \/ \E c \in Calls : Refreshing(c, s) /\ pc[c] = "save"

\* A login or refresh that begins once the deactivation of the user is
\* committed does not get to the point of storing a token.
InactiveGetsNothing == \A c \in late : pc[c] # "save"

-----------------------------------------------------------------------------
\* PATCH /users/:id/deactivate, that is setActivation, will "set is_active = false,
\* revoke all refresh tokens" (IMPLEMENTATION_PLAN.md): with no call in progress, a
\* user whom it has made inactive has no token.
DeactivationRevokes ==
    /\ ~isActive /\ how = "open"
    /\ \A c \in Calls : pc[c] = "idle"
    /\ \A a \in Admins : tx[a] = "idle"
    => rows = {}
=============================================================================
