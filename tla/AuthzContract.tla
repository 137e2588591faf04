---------------------------- MODULE AuthzContract ----------------------------
(***************************************************************************)
(* What an authorization check promises to its caller, with no caches and  *)
(* no events: the answer is what rows decide that were in the database at  *)
(* most Window before.  It says nothing of how the rows are found, nor     *)
(* that an answer comes.  AuthzStaleness shows that AuthorizationService   *)
(* keeps this promise.                                                     *)
(***************************************************************************)
EXTENDS AuthzAges

CONSTANTS
    Callers,   \* the calls that can be in progress at a time
    Scopes,    \* whether a call names the resource
    Window     \* how old the rows behind an answer can be

NotAsked == <<>>

VARIABLES
    db,       \* the committed rows
    age,      \* their ages
    asked,    \* asked[c], the user and scope caller c waits for, or NotAsked
    answer    \* the last answer of each caller

contractVars == <<db, age, asked, answer>>

CInit ==
    /\ db \in [Users -> [Fact -> Row]]
    /\ age = FirstAges(db)
    /\ asked = [c \in Callers |-> NotAsked]
    /\ answer = [c \in Callers |-> "none"]

Ask(c, u, s) ==
    /\ asked[c] = NotAsked
    /\ asked' = [asked EXCEPT ![c] = <<u, s>>]
    /\ answer' = [answer EXCEPT ![c] = "none"]
    /\ UNCHANGED <<db, age>>

AnswerCaller(c, v) ==
    /\ asked[c] # NotAsked
    /\ asked' = [asked EXCEPT ![c] = NotAsked]
    /\ answer' = [answer EXCEPT ![c] = IF v THEN "allow" ELSE "deny"]
    /\ Justified(age[asked[c][1]], asked[c][2], v, Window)
    /\ UNCHANGED <<db, age>>

FailCaller(c) ==
    /\ asked[c] # NotAsked
    /\ asked' = [asked EXCEPT ![c] = NotAsked]
    /\ UNCHANGED <<db, age, answer>>

\* The administrators and the clock change rows for any users at once.
ChangeRows ==
    /\ UNCHANGED <<asked, answer>>
    /\ db' \in [Users -> [Fact -> Row]]
    /\ age' = AgesUpon(age, db')

TimePasses ==
    /\ age' = AgesAfterTick(age, db)
    /\ UNCHANGED <<db, asked, answer>>

CNext ==
    \/ \E c \in Callers, u \in Users, s \in Scopes : Ask(c, u, s)
    \/ \E c \in Callers, v \in BOOLEAN : AnswerCaller(c, v)
    \/ \E c \in Callers : FailCaller(c)
    \/ ChangeRows
    \/ TimePasses

CSpec == CInit /\ [][CNext]_contractVars
=============================================================================
