---------------------------- MODULE RoleGuarantees ----------------------------
(***************************************************************************)
(* What a request on a role assignment has achieved when it commits, given *)
(* what else went on meanwhile.  History variables follow the overlaps of  *)
(* the requests of RoleAssignment.                                         *)
(***************************************************************************)
EXTENDS RoleAssignment

VARIABLES
    met,      \* met[r]: what has gone on while request r was in progress
    raced     \* whether two requests that add the role have ever overlapped

Kinds(o) == (IF o.add # "no" THEN {"add"} ELSE {}) \cup
            (IF o.remove THEN {"remove"} ELSE {}) \cup
            (IF o = Deletion THEN {"delete"} ELSE {})

GInit == Init /\ met = [r \in Requests |-> {}] /\ raced = FALSE

GNext ==
    /\ Next
    /\ LET others(r) == {q \in Requests \ {r} : pc'[q] # "idle"}
           clock     == {e \in {"expire"} : pc' = pc /\ \E i \in Rows : rows[i] = "future" /\ rows'[i] = "past"}
                        \cup {e \in {"purge"} : pc' = pc /\ \E i \in Rows : rows[i] = "past" /\ rows'[i] = "none"}
       IN /\ met' = [r \in Requests |->
                        IF pc'[r] = "idle" THEN {}
                        ELSE met[r] \cup clock \cup UNION {Kinds(op'[q]) : q \in others(r)}]
          /\ raced' = (raced \/ \E r \in Requests : \E q \in others(r) :
                          pc'[r] # "idle" /\ "add" \in Kinds(op'[r]) \cap Kinds(op'[q]))

GSpec == GInit /\ [][GNext]_<<vars, met, raced>>

Ready(r) == pc[r] = "ready"

-----------------------------------------------------------------------------
\* Type correctness.  Two transactions never hold a write of the same row, and
\* the role is not deleted while an insert holds on to it.
TypeOK ==
    /\ role \in BOOLEAN /\ raced \in BOOLEAN
    /\ rows \in [Rows -> Cell]
    /\ pc \in [Requests -> {"idle", "role", "find", "save", "update", "insert", "revoke",
                            "delete", "count", "removeRole", "cascade", "ready"}]
    /\ op \in [Requests -> Operation]
    /\ row \in [Requests -> Rows \cup {NoRow}]
    /\ draft \in [Requests -> [Rows -> Cell \cup {"same"}]]
    /\ shares \in [Requests -> BOOLEAN] /\ dropped \in [Requests -> BOOLEAN]
    /\ met \in [Requests -> SUBSET {"add", "remove", "delete", "expire", "purge"}]
    /\ \A r \in Requests, i \in Rows : draft[r][i] # "same" => ~Locked(r, i)
    /\ \A q, r \in Requests : shares[q] => ~dropped[r]

\* Although nothing in the table forbids it, a user is assigned a role twice
\* only when two requests that assign it overlap: find-then-insert suffices
\* without a race, also when assignments expire and are purged between its
\* statements.
DuplicatesOnlyByRace == Cardinality({i \in Rows : rows[i] # "none"}) > 1 => raced

\* A request that removes the role removes it: the user does not have it when
\* it commits, unless a request that adds it overlapped, or left a duplicate.
RevokeRevokes == \A r \in Requests :
    Ready(r) /\ op[r].remove /\ "add" \notin met[r] /\ ~raced => Visible(r) = {}

\* A request that only adds the role gives it to the user: when it commits there is
\* an unexpired assignment, whatever other requests add at the same time,
\* unless one that takes it away overlapped, or the purge or the clock did.
GrantSticks == \A r \in Requests :
    Ready(r) /\ op[r].add # "no" /\ ~op[r].remove /\ met[r] \subseteq {"add"}
        => \E i \in Rows : Sees(r, i) \in {"never", "future"}

\* Deleting a role takes an assignment along only when a request that adds one
\* overlapped: those from before are refused with a conflict.
CascadeOnlyRaces == \A r \in Requests :
    Ready(r) /\ dropped[r] /\ (\E i \in Rows : rows[i] # "none") => "add" \in met[r]
=============================================================================
