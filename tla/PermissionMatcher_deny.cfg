\* A role that holds a wildcard, and an override that denies a code under it.
SPECIFICATION Spec
CONSTANTS
    Part = {expense, claims, Star}
    Star = Star
    Service = expense
    MaxParts = 3
    Held <- Holdings
    Required <- Asked
INVARIANT DenyWins
CHECK_DEADLOCK FALSE
