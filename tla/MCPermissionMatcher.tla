------------------------- MODULE MCPermissionMatcher -------------------------
(***************************************************************************)
(* PermissionMatcher for TLC: codes of one service with up to MaxParts     *)
(* parts, and at most one code each from roles, grants and denies.         *)
(***************************************************************************)
EXTENDS PermissionMatcher

CONSTANTS
    Service,    \* the first part of the codes
    MaxParts    \* bound

StarLast(c) == \A k \in 1 .. Len(c) - 1 : c[k] # Star
Asked    == {c \in UNION {[1..k -> Part] : k \in 1..MaxParts} :
                StarLast(c) /\ c[1] \in {Service, Star}}
Holdings == {{}} \cup {{c} : c \in Asked \cup {<<Star, Star>>}}
=============================================================================
