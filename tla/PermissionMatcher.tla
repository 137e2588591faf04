-------------------------- MODULE PermissionMatcher --------------------------
(***************************************************************************)
(* How Generic-IAM decides from permission codes: getEffectivePermissions  *)
(* of OverrideService computes the codes a user has, and hasPermission     *)
(* looks for the required one, or a wildcard over it, among them.          *)
(*                                                                         *)
(* A code such as expense.claims.read is the sequence of its parts.  The   *)
(* column permissions.code is unique, so a code stands for its row.        *)
(***************************************************************************)
EXTENDS Integers, Sequences

CONSTANTS
    Part,      \* what the dots of a code separate
    Star,      \* the part "*"
    Held,      \* the sets of codes that roles, grants and denies may hold
    Required   \* the codes a check may ask for

Code == Seq(Part) \ {<<>>}
ASSUME CodeAssumption ==
    Star \in Part /\ Required \subseteq Code /\ \A codes \in Held : codes \subseteq Code

VARIABLES
    roles, grants, denies,   \* the codes of the user's roles and overrides
    required,                \* the code asked for
    effective,               \* the Set hasPermission is called with
    pc, i, current,          \* where hasPermission is, and its local variables
    result                   \* what it returns

inputs == <<roles, grants, denies, required>>
vars   == <<inputs, effective, pc, i, current, result>>

Init ==
    /\ roles \in Held /\ grants \in Held /\ denies \in Held
    /\ required \in Required
    /\ effective = {}
    /\ pc = "effective" /\ i = 0 /\ current = <<>>
    /\ result = FALSE

-----------------------------------------------------------------------------
\* (role permissions + grants) - denies, by permission id
EffectivePermissions ==
    /\ pc = "effective"
    /\ effective' = (roles \cup grants) \ denies
    /\ pc' = "global"
    /\ UNCHANGED <<inputs, i, current, result>>

Return(v) == pc' = "done" /\ result' = v /\ UNCHANGED <<inputs, effective, i, current>>

\* has('*.*')
TestGlobal ==
    /\ pc = "global"
    /\ \/ <<Star, Star>> \in effective /\ Return(TRUE)
       \/ /\ <<Star, Star>> \notin effective
          /\ pc' = "loop"
          /\ UNCHANGED <<inputs, effective, i, current, result>>

\* Mutant: the loop leaves out the wildcard next to the last part.
TestFewerWildcards ==
    /\ pc = "loop" /\ i < Len(required)
    /\ \/ i < Len(required) - 1 /\ Append(current, Star) \in effective /\ Return(TRUE)
       \/ /\ i = Len(required) - 1 \/ Append(current, Star) \notin effective
          /\ current' = Append(current, required[i + 1])
          /\ i' = i + 1
          /\ UNCHANGED <<inputs, effective, pc, result>>

\* One turn of the loop: the parts before the i-th, followed by a star.
TestWildcard ==
    /\ pc = "loop" /\ i < Len(required)
    /\ \/ Append(current, Star) \in effective /\ Return(TRUE)
       \/ /\ Append(current, Star) \notin effective
          /\ current' = Append(current, required[i + 1])
          /\ i' = i + 1
          /\ UNCHANGED <<inputs, effective, pc, result>>

TestExact ==
    /\ pc = "loop" /\ i = Len(required)
    /\ Return(required \in effective)

Next == EffectivePermissions \/ TestGlobal \/ TestWildcard \/ TestExact
Spec == Init /\ [][Next]_vars

-----------------------------------------------------------------------------
\* A wildcard covers the codes that begin with the parts before its star and go
\* on, at any depth; *.* covers every code, also one with a single part.
Covers(p, code) ==
    \/ p = code
    \/ p = <<Star, Star>>
    \/ \E n \in 0 .. Len(code) - 1 : p = Append(SubSeq(code, 1, n), Star)

\* hasPermission finds the required code exactly when a code the user holds and
\* is not denied covers it.
Correct ==
    pc = "done" =>
        (result <=> \E p \in (roles \cup grants) \ denies : Covers(p, required))

\* "Explicit deny = absolute deny" (IAM_DESIGN_DOCUMENT.md): a check of a code
\* without a wildcard that the user is denied is refused.
DenyWins ==
    pc = "done" /\ required \in denies /\ required[Len(required)] # Star => ~result
=============================================================================
