---------------------------- MODULE AuthzStaleness ----------------------------
(***************************************************************************)
(* How stale can an answer of AuthzCache be?  The ages of the database     *)
(* rows are added to it as a history variable, and every cache entry and   *)
(* every answer is related to rows that were committed recently.           *)
(***************************************************************************)
EXTENDS AuthzCache, AuthzAges

VARIABLE age   \* history: the ages of the rows of db

\* How old a database read can be when a check uses it: the read was made at
\* most CheckTime before it entered a cache, and stayed there at most one TTL.
SourceWindow == CheckTime + Max2(PermsTTL, DecisionTTL)

\* How old a database read can be when it decides an answer: a decision taken
\* from such a source is cached in turn, within CheckTime, for DecisionTTL.
AnswerWindow == SourceWindow + CheckTime + DecisionTTL

ASSUME HorizonAssumption == Horizon \in Nat /\ Horizon > AnswerWindow

AInit == Init /\ age = FirstAges(db)
ANext == \/ Step /\ age' = AgesUpon(age, db')
         \/ Tick /\ age' = AgesAfterTick(age, db)
ASpec == AInit /\ [][ANext]_<<vars, age>>

-----------------------------------------------------------------------------
\* A row that is in the database is not old.
AgesOK ==
    /\ age \in [Users -> [Fact -> [Row -> 0..Horizon]]]
    /\ \A u \in Users, f \in Fact : age[u][f][db[u][f]] = 0

\* An entry that has r left of its life was derived, directly or through one
\* other entry, from rows that were in the database within EntryWindow - r.
\* This is what the TTLs of CacheService promise whatever the events do: the
\* life of a value is never renewed by reading it.
EntryWindow(kind) == CASE kind = "perms" -> CheckTime + PermsTTL
                       [] kind = "acl"   -> CheckTime + DecisionTTL
                       [] OTHER          -> AnswerWindow

EntriesBounded ==
    \A k \in Key : Present(k) =>
        Justified(age[k[1]], k[2], cache[k].val, EntryWindow(k[2]) - cache[k].ttl)

\* A check in progress has read rows that were in the database since it began,
\* or taken them from an entry that had some of its life left when it was read.
\* A decision to deny that goes on to the ACLs keeps the permission set it is
\* based on, however long the ACL takes.
CheckBounded(c) ==
    LET Is(kind, v, n) == Justified(age[subject[c]], kind, v, n + elapsed[c]) IN
    /\ pc[c] = "grants"      => Is("role", TRUE, 0)
    /\ pc[c] = "overrides"   => Is("roles", seen[c], 0)
    /\ pc[c] = "setPerms"    => Is("perms", seen[c], 0)
    /\ pc[c] \in {"acl", "countAcl", "setAcl"} =>
           scope[c] = "resource" /\ Is("perms", FALSE, SourceWindow - 1)
    /\ pc[c] = "setAcl"      => Is("acl", seen[c], 0)
    /\ pc[c] = "setDecision" => Is(scope[c], seen[c], SourceWindow - 1)

ChecksBounded == \A c \in Checks : CheckBounded(c)

\* check and isAllowed keep the promise of AuthzContract: no answer
\* rests on a row that was replaced AnswerWindow ago or earlier.  A stale answer
\* is at most two TTLs and two checks old, even when every event is lost, early
\* or late, and the rows behind it may be of different times.
Contract == INSTANCE AuthzContract WITH
    Callers <- Checks,
    Window  <- AnswerWindow - 1,
    asked   <- [c \in Checks |-> IF pc[c] = "idle" THEN <<>> ELSE <<subject[c], scope[c]>>]

KeepsContract == Contract!CSpec
=============================================================================
