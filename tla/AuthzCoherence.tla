---------------------------- MODULE AuthzCoherence ----------------------------
(***************************************************************************)
(* When do the events keep the caches of AuthzCache coherent with the      *)
(* database?  A history variable notes, for each user, the circumstances   *)
(* in which an invalidation cannot do its work; without any of them, once  *)
(* the changes of a user are committed and their events handled, no entry  *)
(* of the user contradicts the database.                                   *)
(***************************************************************************)
EXTENDS AuthzCache

VARIABLE hazard   \* history: hazard[u], what has stood in the way for user u

Hazard == {"lost", "early", "overlap", "expired", "cascaded"}

Concerns(r, u) == u \in change[r].users
Handled(r)     == stage'[r] # stage[r] /\ stage'[r] \in Handling \cup {"done"}

\* What the step that is being taken adds for user u:
NewHazards(u) ==
       \* an event of the user was not delivered, or its handler threw
    {h \in {"lost"}    : \E r \in Requests :
                            Concerns(r, u) /\ stage[r] # "lost" /\ stage'[r] = "lost"}
       \* the consumer ran while the request that emitted the event was open
    \cup
    {h \in {"early"}   : \E r \in Requests :
                            Concerns(r, u) /\ Handled(r) /\ tx[r] = "open"}
       \* the consumer ran while a check of the user was in progress
    \cup
    {h \in {"overlap"} : \E r \in Requests, c \in Checks :
                            /\ Concerns(r, u) /\ Handled(r)
                            /\ pc[c] # "idle" /\ subject[c] = u}
       \* the role assignment of the user expired, which emits nothing
    \cup
    {h \in {"expired"} : tx' = tx /\ db'[u]["role"] # db[u]["role"]}
       \* the role went together with an assignment that deleteCustomRole had not
       \* counted, which emits nothing for the consumer either
    \cup
    {h \in {"cascaded"} : \E r \in Requests :
                            /\ change[r].op = "delete" /\ tx'[r] # tx[r]
                            /\ db'[u]["role"] # db[u]["role"]}

HInit == Init /\ hazard = [u \in Users |-> {}]
HNext == Next /\ hazard' = [u \in Users |-> hazard[u] \cup NewHazards(u)]
HSpec == HInit /\ [][HNext]_<<vars, hazard>>

-----------------------------------------------------------------------------
\* No change of the user is under way: each is undone, or committed and its
\* event, if it has one, handled to the end.
Settled(u) == \A r \in Requests : Concerns(r, u) =>
    \/ tx[r] = "aborted"
    \/ tx[r] = "committed" /\ (stage[r] = "done" \/ change[r].op = "delete")

Stale(k) == Present(k) /\ cache[k].val # Decides(k[2], db[k[1]])

\* The five hazards are the only ways in which a stale entry remains when the
\* changes of a user are committed and their events handled.
Coherent == \A k \in Key : Settled(k[1]) /\ hazard[k[1]] = {} => ~Stale(k)

\* The IAM service "clears [the perms: key] on every permission change, so it is
\* always fresh when present" (iam-authz.service.ts), read generously: with no
\* change under way, no check in progress, no event lost, no role expired or
\* deleted, and no check interrupted by an invalidation.
AlwaysFreshWhenPresent ==
    \A u \in Users :
        /\ Settled(u)
        /\ \A c \in Checks : pc[c] = "idle"
        /\ hazard[u] \subseteq {"early"}
        => ~Stale(<<u, "perms">>)
=============================================================================
