-------------------------- MODULE RouteGuardsProofs --------------------------
(***************************************************************************)
(* hasPermission finds what is held, and the guards let a call through     *)
(* exactly when its caller is entitled to it, whatever codes are held,     *)
(* granted and denied and whatever other routes there are; the roles of    *)
(* the seed open to an administrator and to an employee what they should.  *)
(***************************************************************************)
EXTENDS RouteGuards, TLAPS

-----------------------------------------------------------------------------
(* The matcher.                                                            *)

Usable == (roles \cup grants) \ denies

Prefix(n) == SubSeq(required, 1, n)

\* What the loop has established: none of the wildcards it has passed is held.
Passed(n) == <<Star, Star>> \notin Usable /\ \A m \in 0 .. n - 1 : Append(Prefix(m), Star) \notin Usable

MatcherInv ==
    /\ required \in Code
    /\ pc \in {"effective", "global", "loop", "done"}
    /\ pc \in {"global", "loop"} => effective = Usable
    /\ pc \in {"effective", "global"} => i = 0 /\ current = <<>>
    /\ pc = "loop" => i \in 0 .. Len(required) /\ current = Prefix(i) /\ Passed(i)
    /\ Correct

LEMMA InitMatcherInv == Init => MatcherInv
  BY CodeAssumption DEF Init, MatcherInv, Correct

\* A turn of the loop extends the prefix by a part.
LEMMA PrefixFact ==
  ASSUME required \in Code
  PROVE  /\ Len(required) \in Nat \ {0}
         /\ Prefix(0) = <<>>
         /\ \A n \in 0 .. Len(required) - 1 :
                Append(Prefix(n), required[n + 1]) = Prefix(n + 1)
  BY DEF Code, Prefix

LEMMA NextMatcherInv ==
  ASSUME MatcherInv, [Next]_vars
  PROVE  MatcherInv'
  <1>1. CASE EffectivePermissions
    BY <1>1 DEF EffectivePermissions, MatcherInv, Usable, inputs, Correct
  <1>2. CASE TestGlobal
    <2>1. CASE <<Star, Star>> \in effective /\ Return(TRUE)
      BY <1>2, <2>1 DEF TestGlobal, MatcherInv, Usable, inputs, Correct, Covers, Return
    <2>2. CASE <<Star, Star>> \notin effective /\ pc' = "loop"
               /\ UNCHANGED <<inputs, effective, i, current, result>>
      BY <1>2, <2>2, PrefixFact
      DEF TestGlobal, MatcherInv, Usable, inputs, Correct, Passed, Prefix
    <2> QED
      BY <1>2, <2>1, <2>2 DEF TestGlobal
  <1>3. CASE TestWildcard
    <2>0. /\ pc = "loop" /\ i \in 0 .. Len(required) - 1 /\ Len(required) \in Nat
          /\ effective = Usable /\ current = Prefix(i) /\ Passed(i) /\ required \in Code
      BY <1>3, PrefixFact DEF TestWildcard, MatcherInv
    <2>1. CASE Append(current, Star) \in effective /\ Return(TRUE)
      <3>1. Covers(Append(Prefix(i), Star), required)
        BY <2>0 DEF Covers, Prefix
      <3>2. Append(Prefix(i), Star) \in Usable
        BY <2>0, <2>1
      <3> QED
        BY <2>0, <2>1, <3>1, <3>2
        DEF MatcherInv, Usable, inputs, Correct, Covers, Return
    <2>2. CASE /\ Append(current, Star) \notin effective
               /\ current' = Append(current, required[i + 1]) /\ i' = i + 1
               /\ UNCHANGED <<inputs, effective, pc, result>>
      <3>1. current' = Prefix(i + 1)
        BY <2>0, <2>2, PrefixFact
      <3>2. Passed(i + 1)
        BY <2>0, <2>2 DEF Passed
      <3>3. i + 1 \in 0 .. Len(required)
        BY <2>0
      <3> QED
        BY <2>0, <2>2, <3>1, <3>2, <3>3
        DEF MatcherInv, Usable, inputs, Correct, Passed, Prefix
    <2> QED
      BY <1>3, <2>1, <2>2 DEF TestWildcard
  <1>4. CASE TestExact
    <2>0. /\ pc = "loop" /\ effective = Usable /\ Passed(Len(required)) /\ required \in Code
          /\ pc' = "done" /\ result' = (required \in effective)
          /\ UNCHANGED <<inputs, effective, i, current>>
      BY <1>4 DEF TestExact, MatcherInv, Return
    <2>1. ASSUME NEW p \in Usable, Covers(p, required)
          PROVE  p = required
      BY <2>0, <2>1 DEF Covers, Passed, Prefix
    <2>2. Covers(required, required)
      BY DEF Covers
    <2>3. (required \in Usable) <=> \E p \in Usable : Covers(p, required)
      BY <2>1, <2>2
    <2> QED
      BY <2>0, <2>3 DEF MatcherInv, Usable, inputs, Correct, Covers
  <1>5. CASE UNCHANGED vars
    BY <1>5 DEF vars, inputs, MatcherInv, Usable, Correct, Passed, Prefix, Covers
  <1> QED
    BY <1>1, <1>2, <1>3, <1>4, <1>5 DEF Next

\* Whatever codes roles, grants and denies hold, a check finds the required
\* code exactly when a code that is held and not denied covers it.
THEOREM MatcherCorrect == Spec => []Correct
  <1>1. MatcherInv => Correct
    BY DEF MatcherInv
  <1> QED
    BY <1>1, InitMatcherInv, NextMatcherInv, PTL DEF Spec

-----------------------------------------------------------------------------
(* The guards.                                                             *)

InCheck  == pc \in {"effective", "global", "loop", "done"}
At(who)  == pc = who \/ (InCheck /\ asking = who)

\* check() is asked for a code and answers as it should.
CheckInv == InCheck => MatcherInv

\* Of the k codes that have been asked for, missing tells of all but the last.
Counted(k) ==
    /\ required = route.codes[k] /\ left \in Seq(Code)
    /\ Len(left) = Len(route.codes) - k
    /\ \A j \in 1 .. Len(left) : left[j] = route.codes[k + j]
    /\ missing <=> \E j \in 1 .. k - 1 : ~Holds(route.codes[j])

CodesInv == InCheck /\ asking = "permission" =>
    /\ ~Exempt /\ user # None
    /\ \E k \in 1 .. Len(route.codes) : Counted(k)

AclInv == InCheck /\ asking = "acl" =>
    /\ route.acl # <<>> /\ ~IsCaller("SUPER_ADMIN")
    /\ Caller # None /\ request.target # None
    /\ required = route.acl

HandlerInv == InCheck /\ asking = "handler" =>
    /\ Asks /\ Caller.sub # request.target
    /\ required = <<"user", IF route.test = "findOne" THEN "read" ELSE "write">>

\* What the guards before the present one have made sure of.
PassedInv ==
    /\ pc = "jwt" => user = None
    /\ pc # "jwt" => user = Caller
    /\ pc \notin {"jwt", "over"} => Authenticated
    /\ pc \notin {"jwt", "identity", "over"} => Identified
    /\ At("acl") \/ At("handler") \/ pc = "lookup" => Permitted
    /\ At("handler") \/ pc = "lookup" => Listed
    /\ pc = "lookup" => Asks /\ OwnOrHeld

VerdictInv ==
    /\ pc # "over" => verdict = "none"
    /\ pc = "over" => (verdict = "handled" <=> Entitled)

GivenInv ==
    /\ RouteOK(route) /\ request.token \in Tokens \cup {None}
    /\ where = "iam" => route \in IamRoutes

GuardInv == GivenInv /\ CheckInv /\ CodesInv /\ AclInv /\ HandlerInv /\ PassedInv /\ VerdictInv

-----------------------------------------------------------------------------
LEMMA PairIsCode ==
  ASSUME NEW s \in Part, NEW a \in Part
  PROVE  <<s, a>> \in Code
  BY DEF Code

Names     == {"public", "types", "codes", "self", "acl", "path", "test"}
Fields(r) == DOMAIN r = Names /\ r.codes \in Seq(Code) /\ r.acl \in Code \cup {<<>>}

\* The decorators set the field they are about and leave the others.
LEMMA BareFields == Fields(Bare) /\ Fields(Public)
  <1>1. <<>> \in Seq(Code)
    OBVIOUS
  <1>2. Fields(Bare)
    BY <1>1 DEF Bare, Fields, Names
  <1> QED
    BY <1>2 DEF Public, Fields, Names

LEMMA NeedsFields ==
  ASSUME NEW s \in Part, NEW a \in Part
  PROVE  Fields(Needs(s, a))
  <1>1. <<<<s, a>>>> \in Seq(Code)
    BY PairIsCode
  <1> QED
    BY <1>1, BareFields DEF Needs, Fields, Names

LEMMA FieldsKept ==
  ASSUME NEW r, NEW v, Fields(r)
  PROVE  Fields(Only(v, r)) /\ Fields(On(v, r)) /\ Fields(Tested(v, r)) /\ Fields(OrSelf(r))
  BY DEF Only, On, Tested, OrSelf, Fields, Names

\* Every route of the service is as RouteAssumption has the others.
LEMMA IamRoutesOK == \A r \in IamRoutes : RouteOK(r)
  <1>0. /\ Star \in Part
        /\ "user" \in Part /\ "role" \in Part /\ "acl" \in Part /\ "tenant" \in Part
        /\ "audit" \in Part /\ "read" \in Part /\ "write" \in Part /\ "assign" \in Part
    BY CodeAssumption, RouteAssumption
  <1>1. \A s, a \in Part : Fields(Needs(s, a))
    BY NeedsFields
  <1>2. \A r \in OpenRoutes \cup SuperAdminRoutes : Fields(r)
    BY BareFields, FieldsKept DEF OpenRoutes, SuperAdminRoutes
  <1>3. \A r \in TenantRoutes : Fields(r)
    BY <1>0, <1>1, BareFields, FieldsKept DEF TenantRoutes
  <1>4. \A r \in UserRoutes : Fields(r)
    BY <1>0, <1>1, BareFields, FieldsKept DEF UserRoutes
  <1>5. \A r \in AssignmentRoutes : Fields(r)
    BY <1>0, <1>1, FieldsKept DEF AssignmentRoutes
  <1>6. \A r \in RoleRoutes \cup PermissionRoutes \cup AclRoutes : Fields(r)
    BY <1>0, <1>1, BareFields DEF RoleRoutes, PermissionRoutes, AclRoutes
  <1> QED
    BY <1>2, <1>3, <1>4, <1>5, <1>6 DEF IamRoutes, ManagementRoutes, Fields, RouteOK

LEMMA InitGuardInv == GuardInit => GuardInv
  <1> SUFFICES ASSUME GuardInit PROVE GuardInv
    OBVIOUS
  <1>1. RouteOK(route) /\ request.token \in Tokens \cup {None}
        /\ (where = "iam" => route \in IamRoutes)
    BY IamRoutesOK, RouteAssumption DEF GuardInit, route
  <1>2. pc = "jwt" /\ user = None /\ verdict = "none"
    BY DEF GuardInit
  <1> QED
    BY <1>1, <1>2
    DEF GuardInv, GivenInv, InCheck, CheckInv, CodesInv, AclInv, HandlerInv, PassedInv, VerdictInv, At

-----------------------------------------------------------------------------
\* The answer of check() is that a held code covers the one asked for.
LEMMA AllowedIffHolds ==
  ASSUME GuardInv, pc = "done"
  PROVE  Allowed <=> Holds(required)
  <1>1. user = Caller /\ MatcherInv
    BY DEF GuardInv, PassedInv, CheckInv, InCheck
  <1>2. result <=> \E p \in (roles \cup grants) \ denies : Covers(p, required)
    BY <1>1 DEF MatcherInv, Correct
  <1> QED
    BY <1>1, <1>2 DEF Allowed, Holds, Is, IsCaller

\* What a request is entitled to depends on what it was given.
LEMMA Frame ==
  ASSUME UNCHANGED given
  PROVE  /\ route' = route /\ Caller' = Caller /\ (Asks' <=> Asks)
         /\ \A code : Holds(code)' <=> Holds(code)
         /\ (Authenticated' <=> Authenticated) /\ (Identified' <=> Identified)
         /\ (Permitted' <=> Permitted) /\ (Listed' <=> Listed)
         /\ (OwnOrHeld' <=> OwnOrHeld) /\ (Entitled' <=> Entitled)
  <1>1. route' = route /\ Caller' = Caller /\ request' = request
    BY DEF given, route, Caller
  <1>2. \A code : Holds(code)' <=> Holds(code)
    BY <1>1 DEF given, Holds, IsCaller
  <1>3. /\ (Authenticated' <=> Authenticated) /\ (Identified' <=> Identified)
        /\ (Asks' <=> Asks)
    BY <1>1 DEF Authenticated, Identified, IsCaller, Asks
  <1>4. /\ (Permitted' <=> Permitted) /\ (Listed' <=> Listed)
        /\ (OwnOrHeld' <=> OwnOrHeld)
    BY <1>1, <1>2 DEF given, Permitted, Listed, OwnOrHeld, IsCaller
  <1>5. InTenant' <=> InTenant
    BY <1>1, <1>3, <1>4 DEF InTenant, IsCaller
  <1> QED
    BY <1>1, <1>2, <1>3, <1>4, <1>5 DEF Entitled

\* A step of check() leaves alone what the guards have found.
LEMMA CheckStep ==
  ASSUME GuardInv, Next, Matches
  PROVE  GuardInv'
  <1>1. InCheck /\ InCheck'
    BY DEF Next, EffectivePermissions, TestGlobal, TestWildcard, TestExact, Return, InCheck
  <1>2. UNCHANGED given /\ UNCHANGED <<required, user, asking, left, missing, verdict>>
    BY DEF Next, EffectivePermissions, TestGlobal, TestWildcard, TestExact, Return, inputs,
           Matches, guardVars, given
  <1>3. MatcherInv'
    BY <1>1, NextMatcherInv DEF GuardInv, CheckInv
  <1>4. CodesInv'
    <2>1. Exempt' <=> Exempt
      BY <1>2, Frame DEF Exempt, Is, Self, given
    <2>2. ASSUME NEW k, Counted(k) PROVE Counted(k)'
      BY <1>2, <2>2, Frame DEF Counted
    <2> QED
      BY <1>1, <1>2, <2>1, <2>2, Frame DEF GuardInv, CodesInv
  <1>5. AclInv' /\ HandlerInv' /\ GivenInv'
    BY <1>1, <1>2
    DEF given, GuardInv, AclInv, HandlerInv, GivenInv, route, IsCaller, Caller, Asks, RouteOK
  <1>6. PassedInv' /\ VerdictInv'
    BY <1>1, <1>2, Frame DEF GuardInv, PassedInv, VerdictInv, InCheck, At
  <1> QED
    BY <1>3, <1>4, <1>5, <1>6 DEF GuardInv, CheckInv

LEMMA GivenStep ==
  ASSUME GivenInv, UNCHANGED given
  PROVE  GivenInv'
  BY DEF GivenInv, given, route, RouteOK

\* The request goes on, to where what has been tested allows it to be.
LEMMA PassStep ==
  ASSUME GuardInv, user' = Caller, UNCHANGED given, verdict' = "none",
         pc' \in {"identity", "permission", "acl", "handler", "lookup"},
         Authenticated,
         pc' # "identity" => Identified,
         pc' \in {"acl", "handler", "lookup"} => Permitted,
         pc' \in {"handler", "lookup"} => Listed,
         pc' = "lookup" => Asks /\ OwnOrHeld
  PROVE  GuardInv'
  <1>1. ~InCheck'
    BY DEF InCheck
  <1>2. PassedInv' /\ VerdictInv'
    BY <1>1, Frame DEF PassedInv, VerdictInv, At
  <1> QED
    BY <1>1, <1>2, GivenStep DEF GuardInv, CheckInv, CodesInv, AclInv, HandlerInv

LEMMA EndStep ==
  ASSUME GuardInv, NEW v, End(v), user = Caller, v = "handled" <=> Entitled
  PROVE  GuardInv'
  <1>1. ~InCheck' /\ UNCHANGED given
    BY DEF InCheck, End
  <1>2. PassedInv' /\ VerdictInv'
    BY <1>1, Frame DEF PassedInv, VerdictInv, At, End
  <1> QED
    BY <1>1, <1>2, GivenStep DEF GuardInv, CheckInv, CodesInv, AclInv, HandlerInv

LEMMA AskStep ==
  ASSUME GuardInv, NEW code \in Code, NEW rest,
         NEW who \in {"permission", "acl", "handler"}, Ask(code, who, rest),
         user = Caller, verdict = "none", Authenticated, Identified,
         who # "permission" => Permitted, who = "handler" => Listed,
         CodesInv', AclInv', HandlerInv'
  PROVE  GuardInv'
  <1>1. /\ InCheck' /\ UNCHANGED given /\ UNCHANGED <<user, verdict>>
        /\ pc' = "effective" /\ asking' = who
    BY DEF InCheck, Ask
  <1>2. MatcherInv'
    BY DEF Ask, MatcherInv, Correct
  <1>3. PassedInv' /\ VerdictInv'
    BY <1>1, Frame DEF PassedInv, VerdictInv, At
  <1> QED
    BY <1>1, <1>2, <1>3, GivenStep DEF GuardInv, CheckInv

-----------------------------------------------------------------------------
LEMMA JwtStep ==
  ASSUME GuardInv, JwtAuthGuard
  PROVE  GuardInv'
  <1>0. pc = "jwt" /\ user = None /\ verdict = "none"
    BY DEF JwtAuthGuard, GuardInv, PassedInv, VerdictInv
  <1>1. CASE route.public /\ Pass("identity")
    <2>1. user' = Caller /\ UNCHANGED given /\ verdict' = "none" /\ pc' = "identity"
      BY <1>0, <1>1 DEF Pass, guardVars, Caller
    <2> QED
      BY <1>1, <2>1, PassStep DEF Authenticated
  <1>2. CASE ~route.public /\ request.token = None /\ End("401")
    <2>1. user = Caller /\ ~Authenticated
      BY <1>0, <1>2 DEF Caller, Authenticated
    <2> QED
      BY <1>2, <2>1, EndStep DEF Entitled
  <1>3. CASE /\ ~route.public /\ request.token # None
             /\ user' = request.token /\ pc' = "identity"
             /\ UNCHANGED <<given, Matching, asking, left, missing, verdict>>
    BY <1>0, <1>3, PassStep DEF Authenticated, Caller
  <1> QED
    BY <1>1, <1>2, <1>3 DEF JwtAuthGuard

LEMMA IdentityStep ==
  ASSUME GuardInv, IdentityTypeGuard
  PROVE  GuardInv'
  <1>0. /\ pc = "identity" /\ user = Caller /\ verdict = "none" /\ Authenticated
        /\ \A t : Is(t) <=> IsCaller(t)
    BY DEF IdentityTypeGuard, GuardInv, PassedInv, VerdictInv, Is, IsCaller
  <1>1. CASE (route.types = {} \/ \E t \in route.types : Is(t)) /\ Pass("permission")
    <2>1. user' = Caller /\ UNCHANGED given /\ verdict' = "none" /\ pc' = "permission"
      BY <1>0, <1>1 DEF Pass, guardVars
    <2> QED
      BY <1>0, <1>1, <2>1, PassStep DEF Identified
  <1>2. CASE route.types # {} /\ ~(\E t \in route.types : Is(t)) /\ Refuse
    BY <1>0, <1>2, EndStep DEF Refuse, Entitled, Identified
  <1> QED
    BY <1>1, <1>2 DEF IdentityTypeGuard

-----------------------------------------------------------------------------
\* The tokens of all but super admins are about Me.
LEMMA CallerFact ==
  ASSUME GivenInv, Caller # None, ~IsCaller("SUPER_ADMIN")
  PROVE  Caller.sub # None
  BY RouteAssumption DEF GivenInv, Caller, IsCaller, Tokens

LEMMA CodesFact ==
  ASSUME GivenInv
  PROVE  /\ route.codes \in Seq(Code) /\ Len(route.codes) \in Nat
         /\ DOMAIN route.codes = 1 .. Len(route.codes)
         /\ route.acl # <<>> => route.acl \in Code
  BY DEF GivenInv, RouteOK

\* For a caller who is not exempt it is his codes that count.
LEMMA ExemptFact ==
  ASSUME GuardInv, user = Caller
  PROVE  /\ Exempt => Permitted
         /\ ~Exempt => (Permitted <=> /\ user # None
                                     /\ \A k \in 1 .. Len(route.codes) : Holds(route.codes[k]))
  <1>1. Is("SUPER_ADMIN") <=> IsCaller("SUPER_ADMIN")
    BY DEF Is, IsCaller
  <1>2. Caller # None /\ ~IsCaller("SUPER_ADMIN") => Caller.sub # None
    BY CallerFact DEF GuardInv
  <1>3. DOMAIN route.codes = 1 .. Len(route.codes)
    BY CodesFact DEF GuardInv
  <1> QED
    BY <1>1, <1>2, <1>3 DEF Exempt, Permitted, Self

LEMMA PermissionStep ==
  ASSUME GuardInv, PermissionGuard
  PROVE  GuardInv'
  <1>0. /\ pc = "permission" /\ user = Caller /\ verdict = "none" /\ Authenticated /\ Identified
    BY DEF PermissionGuard, GuardInv, PassedInv, VerdictInv
  <1>1. CASE Exempt /\ Pass("acl")
    <2>1. user' = Caller /\ UNCHANGED given /\ verdict' = "none" /\ pc' = "acl"
      BY <1>0, <1>1 DEF Pass, guardVars
    <2> QED
      BY <1>0, <1>1, <2>1, PassStep, ExemptFact
  <1>2. CASE ~Exempt /\ user = None /\ Refuse
    <2>1. ~Entitled
      BY <1>0, <1>2, ExemptFact DEF Entitled
    <2> QED
      BY <1>0, <1>2, <2>1, EndStep DEF Refuse
  <1>3. CASE /\ ~Exempt /\ user # None
             /\ Ask(Head(route.codes), "permission", Tail(route.codes)) /\ missing' = FALSE
    <2>1. route.codes # <<>> /\ route.codes \in Seq(Code)
      BY <1>3, CodesFact DEF Exempt, GuardInv
    <2>2. /\ Head(route.codes) = route.codes[1] /\ Head(route.codes) \in Code
          /\ Len(route.codes) \in Nat /\ Len(route.codes) > 0 /\ Tail(route.codes) \in Seq(Code)
          /\ Len(Tail(route.codes)) = Len(route.codes) - 1
          /\ \A j \in 1 .. Len(Tail(route.codes)) : Tail(route.codes)[j] = route.codes[1 + j]
      BY <2>1
    <2>3. /\ UNCHANGED given /\ user' = user /\ asking' = "permission"
          /\ required' = Head(route.codes) /\ left' = Tail(route.codes)
      BY <1>3 DEF Ask
    <2>4. Counted(1)'
      BY <1>3, <2>2, <2>3, Frame DEF Counted
    <2>5. ~Exempt'
      BY <1>3, <2>3, Frame DEF Exempt, Is, Self, given
    <2>6. CodesInv' /\ AclInv' /\ HandlerInv'
      BY <1>3, <2>2, <2>3, <2>4, <2>5, Frame DEF CodesInv, AclInv, HandlerInv
    <2> QED
      BY <1>0, <1>3, <2>2, <2>6, AskStep
  <1> QED
    BY <1>1, <1>2, <1>3 DEF PermissionGuard

LEMMA PermissionAnswerStep ==
  ASSUME GuardInv, PermissionAnswered
  PROVE  GuardInv'
  <1>0. /\ pc = "done" /\ asking = "permission" /\ InCheck
        /\ user = Caller /\ verdict = "none" /\ Authenticated /\ Identified
    BY DEF PermissionAnswered, Answered, GuardInv, PassedInv, VerdictInv, InCheck
  <1>1. ~Exempt /\ user # None
    BY <1>0 DEF GuardInv, CodesInv
  <1>2. PICK k \in 1 .. Len(route.codes) : Counted(k)
    BY <1>0 DEF GuardInv, CodesInv
  <1>3. Allowed <=> Holds(route.codes[k])
    BY <1>0, <1>2, AllowedIffHolds DEF Counted
  <1>4. Len(route.codes) \in Nat /\ k \in Nat /\ k >= 1 /\ k <= Len(route.codes)
    BY CodesFact DEF GuardInv
  <1>5. Permitted <=> \A j \in 1 .. Len(route.codes) : Holds(route.codes[j])
    BY <1>0, <1>1, ExemptFact
  <1>6. missing \/ ~Allowed <=> \E j \in 1 .. k : ~Holds(route.codes[j])
    BY <1>2, <1>3, <1>4 DEF Counted
  <1>7. CASE where = "sdk" /\ ~Allowed /\ Refuse
    <2>1. ~Entitled
      BY <1>3, <1>5, <1>7 DEF Entitled
    <2> QED
      BY <1>0, <1>7, <2>1, EndStep DEF Refuse
  <1>8. CASE /\ left # <<>> /\ Ask(Head(left), "permission", Tail(left))
             /\ missing' = (missing \/ ~Allowed)
    <2>1. /\ left \in Seq(Code) /\ Len(left) = Len(route.codes) - k
          /\ \A j \in 1 .. Len(left) : left[j] = route.codes[k + j]
      BY <1>2 DEF Counted
    <2>2. /\ Head(left) = left[1] /\ Head(left) \in Code /\ Len(left) > 0 /\ Len(left) \in Nat
          /\ Tail(left) \in Seq(Code) /\ Len(Tail(left)) = Len(left) - 1
          /\ \A j \in 1 .. Len(Tail(left)) : Tail(left)[j] = left[1 + j]
      BY <1>8, <2>1
    <2>3. /\ k + 1 \in 1 .. Len(route.codes) /\ Head(left) = route.codes[k + 1]
          /\ Len(Tail(left)) = Len(route.codes) - (k + 1)
          /\ \A j \in 1 .. Len(Tail(left)) : Tail(left)[j] = route.codes[(k + 1) + j]
      <3>1. k + 1 \in 1 .. Len(route.codes) /\ Len(Tail(left)) = Len(route.codes) - (k + 1)
        BY <1>4, <2>1, <2>2
      <3>2. Head(left) = route.codes[k + 1]
        BY <1>4, <2>1, <2>2
      <3>3. ASSUME NEW j \in 1 .. Len(Tail(left))
            PROVE  Tail(left)[j] = route.codes[(k + 1) + j]
        <4>1. 1 + j \in 1 .. Len(left) /\ k + (1 + j) = (k + 1) + j
          BY <1>4, <2>2
        <4> QED
          BY <2>1, <2>2, <4>1
      <3> QED
        BY <3>1, <3>2, <3>3
    <2>4. /\ UNCHANGED given /\ user' = user /\ asking' = "permission"
          /\ required' = Head(left) /\ left' = Tail(left)
      BY <1>8 DEF Ask
    <2>5. Counted(k + 1)'
      <3>1. missing' <=> \E j \in 1 .. (k + 1) - 1 : ~Holds(route.codes[j])
        <4>1. (k + 1) - 1 = k
          BY <1>4
        <4>2. missing' <=> \E j \in 1 .. k : ~Holds(route.codes[j])
          BY <1>6, <1>8, Zenon
        <4> QED
          BY <4>1, <4>2, Zenon
      <3>2. route' = route /\ \A code : Holds(code)' <=> Holds(code)
        BY <2>4, Frame
      <3> DEFINE rest == Tail(left)
                 codes == route.codes
      <3>3. /\ required' = codes[k + 1] /\ left' = rest /\ rest \in Seq(Code)
            /\ Len(rest) = Len(codes) - (k + 1)
            /\ \A j \in 1 .. Len(rest) : rest[j] = codes[(k + 1) + j]
        BY <2>2, <2>3, <2>4
      <3> QED
        BY <3>1, <3>2, <3>3 DEF Counted
    <2>6. ~Exempt'
      BY <1>1, <2>4, Frame DEF Exempt, Is, Self, given
    <2>7. CodesInv' /\ AclInv' /\ HandlerInv'
      BY <1>1, <2>3, <2>4, <2>5, <2>6, Frame DEF CodesInv, AclInv, HandlerInv
    <2> QED
      BY <1>0, <1>8, <2>2, <2>7, AskStep
  <1>9. ASSUME left = <<>>
        PROVE  Permitted <=> ~missing /\ Allowed
    <2>1. k = Len(route.codes)
      BY <1>2, <1>4, <1>9 DEF Counted
    <2> QED
      BY <1>5, <1>6, <2>1
  <1>10. CASE left = <<>> /\ Allowed /\ ~missing /\ Pass("acl")
    <2>1. user' = Caller /\ UNCHANGED given /\ verdict' = "none" /\ pc' = "acl"
      BY <1>0, <1>10 DEF Pass, guardVars
    <2> QED
      BY <1>0, <1>9, <1>10, <2>1, PassStep
  <1>11. CASE left = <<>> /\ (missing \/ ~Allowed) /\ Refuse
    <2>1. ~Entitled
      BY <1>9, <1>11 DEF Entitled
    <2> QED
      BY <1>0, <1>11, <2>1, EndStep DEF Refuse
  <1> QED
    BY <1>7, <1>8, <1>10, <1>11 DEF PermissionAnswered

LEMMA AclStep ==
  ASSUME GuardInv, AclGuard
  PROVE  GuardInv'
  <1>0. /\ pc = "acl" /\ user = Caller /\ verdict = "none"
        /\ Authenticated /\ Identified /\ Permitted
    BY DEF AclGuard, GuardInv, PassedInv, VerdictInv, At
  <1>1. Is("SUPER_ADMIN") <=> IsCaller("SUPER_ADMIN")
    BY <1>0 DEF Is, IsCaller
  <1>2. CASE (route.acl = <<>> \/ Is("SUPER_ADMIN")) /\ Pass("handler")
    <2>1. user' = Caller /\ UNCHANGED given /\ verdict' = "none" /\ pc' = "handler"
      BY <1>0, <1>2 DEF Pass, guardVars
    <2>2. Listed
      BY <1>1, <1>2 DEF Listed
    <2> QED
      BY <1>0, <2>1, <2>2, PassStep
  <1>3. CASE /\ route.acl # <<>> /\ ~Is("SUPER_ADMIN")
             /\ (user = None \/ request.target = None) /\ Refuse
    <2>1. ~Entitled
      BY <1>0, <1>1, <1>3 DEF Entitled, Listed
    <2> QED
      BY <1>0, <1>3, <2>1, EndStep DEF Refuse
  <1>4. CASE /\ route.acl # <<>> /\ ~Is("SUPER_ADMIN")
             /\ user # None /\ request.target # None
             /\ Ask(route.acl, "acl", <<>>) /\ UNCHANGED missing
    <2>1. /\ UNCHANGED given /\ asking' = "acl" /\ required' = route.acl /\ request' = request
      BY <1>4 DEF Ask, given
    <2>2. route.acl \in Code
      BY <1>4, CodesFact DEF GuardInv
    <2>3. AclInv'
      BY <1>0, <1>1, <1>4, <2>1, Frame DEF AclInv, IsCaller
    <2>4. CodesInv' /\ HandlerInv'
      BY <2>1 DEF CodesInv, HandlerInv
    <2> QED
      BY <1>0, <1>4, <2>2, <2>3, <2>4, AskStep
  <1> QED
    BY <1>2, <1>3, <1>4 DEF AclGuard

LEMMA AclAnswerStep ==
  ASSUME GuardInv, AclAnswered
  PROVE  GuardInv'
  <1>0. /\ pc = "done" /\ asking = "acl" /\ InCheck
        /\ user = Caller /\ verdict = "none" /\ Authenticated /\ Identified /\ Permitted
    BY DEF AclAnswered, Answered, GuardInv, PassedInv, VerdictInv, InCheck, At
  <1>1. /\ route.acl # <<>> /\ ~IsCaller("SUPER_ADMIN") /\ Caller # None
        /\ request.target # None /\ required = route.acl
    BY <1>0 DEF GuardInv, AclInv
  <1>2. Listed <=> listed \/ Allowed
    BY <1>0, <1>1, AllowedIffHolds DEF Listed
  <1>3. CASE (Allowed \/ listed) /\ Pass("handler")
    <2>1. user' = Caller /\ UNCHANGED given /\ verdict' = "none" /\ pc' = "handler"
      BY <1>0, <1>3 DEF Pass, guardVars
    <2> QED
      BY <1>0, <1>2, <1>3, <2>1, PassStep
  <1>4. CASE ~(Allowed \/ listed) /\ Refuse
    <2>1. ~Entitled
      BY <1>2, <1>4 DEF Entitled
    <2> QED
      BY <1>0, <1>4, <2>1, EndStep DEF Refuse
  <1> QED
    BY <1>3, <1>4 DEF AclAnswered

LEMMA HandlerStep ==
  ASSUME GuardInv, Handler
  PROVE  GuardInv'
  <1>0. /\ pc = "handler" /\ user = Caller /\ verdict = "none"
        /\ Authenticated /\ Identified /\ Permitted /\ Listed
    BY DEF Handler, GuardInv, PassedInv, VerdictInv, At
  <1>1. Is("SUPER_ADMIN") <=> IsCaller("SUPER_ADMIN")
    BY <1>0 DEF Is, IsCaller
  <1>2. CASE route.test = "none" /\ Handle
    <2>1. Entitled
      BY <1>0, <1>2 DEF Entitled, InTenant, Asks
    <2> QED
      BY <1>0, <1>2, <2>1, EndStep DEF Handle
  <1>3. CASE /\ route.test = "auditLogs"
             /\ (Is("SUPER_ADMIN") \/ user.tenant = request.target) /\ Handle
    <2>1. Entitled
      BY <1>0, <1>1, <1>3 DEF Entitled, InTenant, Asks
    <2> QED
      BY <1>0, <1>3, <2>1, EndStep DEF Handle
  <1>4. CASE /\ route.test = "auditLogs"
             /\ ~Is("SUPER_ADMIN") /\ user.tenant # request.target /\ Refuse
    <2>1. ~Entitled
      BY <1>0, <1>1, <1>4 DEF Entitled, InTenant
    <2> QED
      BY <1>0, <1>4, <2>1, EndStep DEF Refuse
  <1>5. CASE Asks /\ user.sub = request.target /\ Pass("lookup")
    <2>1. user' = Caller /\ UNCHANGED given /\ verdict' = "none" /\ pc' = "lookup"
      BY <1>0, <1>5 DEF Pass, guardVars
    <2>2. OwnOrHeld
      BY <1>0, <1>5 DEF OwnOrHeld
    <2> QED
      BY <1>0, <1>5, <2>1, <2>2, PassStep
  <1>6. CASE /\ Asks /\ user.sub # request.target /\ UNCHANGED missing
             /\ Ask(<<"user", IF route.test = "findOne" THEN "read" ELSE "write">>, "handler", <<>>)
    <2> DEFINE code == <<"user", IF route.test = "findOne" THEN "read" ELSE "write">>
    <2>1. code \in Code
      BY RouteAssumption, PairIsCode
    <2>2. /\ UNCHANGED given /\ asking' = "handler" /\ required' = code /\ request' = request
      BY <1>6 DEF Ask, given
    <2>3. HandlerInv'
      BY <1>0, <1>6, <2>2, Frame DEF HandlerInv
    <2>4. CodesInv' /\ AclInv'
      BY <2>2 DEF CodesInv, AclInv
    <2> HIDE DEF code
    <2>5. Ask(code, "handler", <<>>)
      BY <1>6 DEF code
    <2> QED
      BY <1>0, <2>1, <2>3, <2>4, <2>5, AskStep
  <1> QED
    BY <1>2, <1>3, <1>4, <1>5, <1>6 DEF Handler

LEMMA HandlerAnswerStep ==
  ASSUME GuardInv, HandlerAnswered
  PROVE  GuardInv'
  <1>0. /\ pc = "done" /\ asking = "handler" /\ InCheck /\ user = Caller /\ verdict = "none"
        /\ Authenticated /\ Identified /\ Permitted /\ Listed
    BY DEF HandlerAnswered, Answered, GuardInv, PassedInv, VerdictInv, InCheck, At
  <1>1. /\ Asks /\ Caller.sub # request.target
        /\ required = <<"user", IF route.test = "findOne" THEN "read" ELSE "write">>
    BY <1>0 DEF GuardInv, HandlerInv
  <1>2. OwnOrHeld <=> Allowed
    BY <1>0, <1>1, AllowedIffHolds DEF OwnOrHeld
  <1>3. CASE Allowed /\ Pass("lookup")
    <2>1. user' = Caller /\ UNCHANGED given /\ verdict' = "none" /\ pc' = "lookup"
      BY <1>0, <1>3 DEF Pass, guardVars
    <2> QED
      BY <1>0, <1>1, <1>2, <1>3, <2>1, PassStep
  <1>4. CASE ~Allowed /\ Refuse
    <2>1. ~Entitled
      BY <1>1, <1>2, <1>4 DEF Entitled, InTenant
    <2> QED
      BY <1>0, <1>4, <2>1, EndStep DEF Refuse
  <1> QED
    BY <1>3, <1>4 DEF HandlerAnswered

LEMMA LookupStep ==
  ASSUME GuardInv, Lookup
  PROVE  GuardInv'
  <1>0. /\ user = Caller /\ verdict = "none" /\ Asks /\ OwnOrHeld
        /\ Authenticated /\ Identified /\ Permitted /\ Listed
    BY DEF Lookup, GuardInv, PassedInv, VerdictInv
  <1>1. Entitled <=> TenantOf[request.target] = user.tenant
    BY <1>0 DEF Entitled, InTenant, Asks
  <1> QED
    BY <1>0, <1>1, EndStep DEF Lookup, Handle

LEMMA GuardStutter ==
  ASSUME GuardInv, UNCHANGED allVars
  PROVE  GuardInv'
  <1>1. UNCHANGED vars /\ Matches /\ UNCHANGED <<given, user, asking, left, missing, verdict>>
    BY DEF allVars, given, guardVars, Matches
  <1>2. UNCHANGED <<pc, required, roles, grants, denies, effective, i, current, result>>
    BY <1>1 DEF vars, inputs
  <1>3. CheckInv'
    BY <1>1, <1>2, NextMatcherInv DEF GuardInv, CheckInv, InCheck
  <1>4. CodesInv'
    <2>1. Exempt' <=> Exempt
      BY <1>1, Frame DEF Exempt, Is, Self, given
    <2>2. ASSUME NEW k, Counted(k) PROVE Counted(k)'
      BY <1>1, <1>2, <2>2, Frame DEF Counted
    <2> QED
      BY <1>1, <1>2, <2>1, <2>2, Frame DEF GuardInv, CodesInv, InCheck
  <1>5. AclInv' /\ HandlerInv'
    BY <1>1, <1>2, Frame DEF GuardInv, AclInv, HandlerInv, InCheck, IsCaller, given
  <1>6. PassedInv' /\ VerdictInv'
    BY <1>1, <1>2, Frame DEF GuardInv, PassedInv, VerdictInv, InCheck, At
  <1> QED
    BY <1>1, <1>3, <1>4, <1>5, <1>6, GivenStep DEF GuardInv

LEMMA NextGuardInv == GuardInv /\ [GuardNext]_allVars => GuardInv'
  BY CheckStep, JwtStep, IdentityStep, PermissionStep, PermissionAnswerStep, AclStep,
     AclAnswerStep, HandlerStep, HandlerAnswerStep, LookupStep, GuardStutter
  DEF GuardNext, Next

-----------------------------------------------------------------------------
\* Whatever the routes of other services ask and whatever the user holds, is
\* granted and is denied, the guards and the tests of the handlers let a call
\* through exactly when its caller is entitled to it.
THEOREM GuardsRight == GuardSpec => []HandledIffEntitled
  <1>1. GuardInv => HandledIffEntitled
    BY DEF GuardInv, VerdictInv, HandledIffEntitled
  <1> QED
    BY <1>1, InitGuardInv, NextGuardInv, PTL DEF GuardSpec

\* check() answers a guard as it should, however often it is asked.
THEOREM AnswersRight == GuardSpec => []Correct
  <1>1. GuardInv => Correct
    BY DEF GuardInv, CheckInv, InCheck, MatcherInv, Correct
  <1> QED
    BY <1>1, InitGuardInv, NextGuardInv, PTL DEF GuardSpec
-----------------------------------------------------------------------------
(* What the seeded roles are let through to.                               *)

\* A wildcard covers the pairs of its service, which nothing but codes of the
\* service and wildcards covers.
LEMMA PairFact ==
  ASSUME NEW s \in Part, NEW a \in Part
  PROVE  /\ Covers(<<s, Star>>, <<s, a>>)
         /\ \A p : Covers(p, <<s, a>>) => p[1] \in {s, Star}
  <1>0. PICK code : code = <<s, a>>
    OBVIOUS
  <1>1. code \in Seq(Part) /\ Len(code) = 2 /\ code[1] = s
    BY <1>0
  <1>2. Star \in Part /\ 0 .. Len(code) - 1 = {0, 1}
    BY <1>1, CodeAssumption
  <1>3. <<s, Star>> = Append(SubSeq(code, 1, 1), Star)
    <2>1. PICK q : q = Append(SubSeq(code, 1, 1), Star)
      OBVIOUS
    <2>2. q \in Seq(Part) /\ Len(q) = 2 /\ q[1] = s /\ q[2] = Star
      BY <1>1, <1>2, <2>1
    <2>3. q = <<s, Star>>
      BY <1>2, <2>2
    <2> QED
      BY <2>1, <2>3
  <1>4. Covers(<<s, Star>>, code)
    BY <1>2, <1>3 DEF Covers
  <1>5. ASSUME NEW p, Covers(p, code) PROVE p[1] \in {s, Star}
    <2>1. CASE p = code \/ p = <<Star, Star>>
      BY <1>1, <2>1
    <2>2. ASSUME NEW n \in {0, 1}, p = Append(SubSeq(code, 1, n), Star) PROVE p[1] \in {s, Star}
      BY <1>1, <1>2, <2>2
    <2> QED
      BY <1>2, <1>5, <2>1, <2>2 DEF Covers
  <1> QED
    BY <1>0, <1>4, <1>5

LEMMA TenantAdminFact ==
  ASSUME NEW s \in {"user", "role", "acl"}
  PROVE  <<s, Star>> \in Seeded("TenantAdmin")
  <1>1. <<s, Star>> \in Catalog
    <2>1. <<"acl", Star>> \in Catalog
      BY DEF Catalog
    <2>2. \A t, actions : <<t, Star>> \in Codes(t, actions)
      BY DEF Codes
    <2>3. <<"user", Star>> \in Catalog /\ <<"role", Star>> \in Catalog
      BY <2>2 DEF Catalog
    <2> QED
      BY <2>1, <2>3
  <1>2. <<s, Star>> \in SystemRoles["TenantAdmin"]
    BY DEF SystemRoles
  <1>3. <<s, Star>> \in Expand(<<s, Star>>)
    BY <1>1 DEF Expand
  <1> QED
    BY <1>2, <1>3 DEF Seeded

LEMMA EmployeeFact ==
  ASSUME NEW p \in Seeded("Employee")
  PROVE  p[1] \in {"expense", "payroll"}
  <1>1. PICK code \in SystemRoles["Employee"] : p \in Expand(code)
    BY DEF Seeded
  <1>2. code[1] \in {"expense", "payroll"}
    BY DEF SystemRoles
  <1>3. p[1] = code[1]
    BY <1>1 DEF Expand
  <1> QED
    BY <1>2, <1>3

\* What each decorator sets.
LEMMA BareFact ==
  /\ DOMAIN Bare = Names
  /\ Bare.public = FALSE /\ Bare.types = {} /\ Bare.codes = <<>> /\ Bare.self = FALSE
  /\ Bare.acl = <<>> /\ Bare.path = "none" /\ Bare.test = "none"
  BY DEF Bare, Names

Pairs(services) == {<<<<s, a>>>> : s \in services, a \in Part}

LEMMA NeedsFact ==
  ASSUME NEW services, NEW s \in services, NEW a \in Part
  PROVE  /\ DOMAIN Needs(s, a) = Names /\ Needs(s, a).codes \in Pairs(services)
         /\ Needs(s, a).public = FALSE /\ Needs(s, a).types = {} /\ Needs(s, a).self = FALSE
         /\ Needs(s, a).acl = <<>> /\ Needs(s, a).path = "none" /\ Needs(s, a).test = "none"
  <1>1. Needs(s, a).codes = <<<<s, a>>>>
    BY BareFact DEF Needs, Names
  <1>2. Needs(s, a).codes \in Pairs(services)
    BY <1>1 DEF Pairs
  <1> QED
    BY <1>2, BareFact DEF Needs, Names

LEMMA OnlyFact ==
  ASSUME NEW r, DOMAIN r = Names, NEW v
  PROVE  /\ DOMAIN Only(v, r) = Names /\ Only(v, r).public = r.public /\ Only(v, r).types = v
         /\ Only(v, r).codes = r.codes /\ Only(v, r).self = r.self /\ Only(v, r).acl = r.acl
         /\ Only(v, r).path = r.path /\ Only(v, r).test = r.test
  BY DEF Only, Names

LEMMA OnFact ==
  ASSUME NEW r, DOMAIN r = Names, NEW v
  PROVE  /\ DOMAIN On(v, r) = Names /\ On(v, r).public = r.public /\ On(v, r).types = r.types
         /\ On(v, r).codes = r.codes /\ On(v, r).self = r.self /\ On(v, r).acl = r.acl
         /\ On(v, r).path = v /\ On(v, r).test = r.test
  BY DEF On, Names

LEMMA TestedFact ==
  ASSUME NEW r, DOMAIN r = Names, NEW v
  PROVE  /\ DOMAIN Tested(v, r) = Names /\ Tested(v, r).public = r.public /\ Tested(v, r).types = r.types
         /\ Tested(v, r).codes = r.codes /\ Tested(v, r).self = r.self /\ Tested(v, r).acl = r.acl
         /\ Tested(v, r).path = r.path /\ Tested(v, r).test = v
  BY DEF Tested, Names

LEMMA OrSelfFact ==
  ASSUME NEW r, DOMAIN r = Names
  PROVE  /\ DOMAIN OrSelf(r) = Names /\ OrSelf(r).public = r.public /\ OrSelf(r).types = r.types
         /\ OrSelf(r).codes = r.codes /\ OrSelf(r).self = TRUE /\ OrSelf(r).acl = r.acl
         /\ OrSelf(r).path = r.path /\ OrSelf(r).test = r.test
  BY DEF OrSelf, Names

\* A route of the management of users, roles and ACLs asks of a user no more than
\* a code of its service; of the others, users are kept out, or need a code too.
Managed(r) ==
    /\ r.public = FALSE /\ r.types \in {{}, Both} /\ r.acl = <<>>
    /\ r.codes \in {<<>>} \cup Pairs({"user", "role", "acl"})
    /\ r.test \in {"none", "findOne", "update"}
    /\ r.test # "none" => r.path = "user"

Reserved(r) ==
    \/ r.types = AdminOnly
    \/ r.public = FALSE /\ r.codes \in Pairs({"user", "role", "acl", "tenant", "audit"})
    \/ r.public = FALSE /\ r.test \in {"findOne", "update"}

LEMMA ManagedFact == \A r \in ManagementRoutes : Managed(r)
  <1>0. /\ Star \in Part /\ "read" \in Part /\ "write" \in Part /\ "assign" \in Part
    BY CodeAssumption, RouteAssumption
  <1> DEFINE services == {"user", "role", "acl"}
             Plain(r) == /\ DOMAIN r = Names /\ r.public = FALSE /\ r.types = {} /\ r.acl = <<>>
                         /\ r.codes \in {<<>>} \cup Pairs(services)
                         /\ r.test = "none"
  <1>1. Plain(Bare)
    BY BareFact
  <1>2. \A s \in services, a \in Part : Plain(Needs(s, a))
    BY NeedsFact
  <1>3. ASSUME NEW r, Plain(r), NEW path
        PROVE  Plain(On(path, r)) /\ On(path, r).path = path /\ Plain(OrSelf(r))
    <2>1. Plain(On(path, r)) /\ On(path, r).path = path
      <3>1. PICK x : x = On(path, r)
        OBVIOUS
      <3>2. Plain(x) /\ x.path = path
        BY <1>3, <3>1, OnFact
      <3> QED
        BY <3>1, <3>2
    <2>2. Plain(OrSelf(r))
      <3>1. PICK x : x = OrSelf(r)
        OBVIOUS
      <3>2. Plain(x)
        BY <1>3, <3>1, OrSelfFact
      <3> QED
        BY <3>1, <3>2
    <2> QED
      BY <2>1, <2>2
  <1>4. ASSUME NEW r, Plain(r)
        PROVE  Managed(r) /\ Managed(Only(Both, r))
    BY <1>4, OnlyFact DEF Managed
  <1>5. ASSUME NEW r, Plain(r), r.path = "user", NEW test \in {"findOne", "update"}
        PROVE  Managed(Only(Both, Tested(test, r)))
    <2>1. PICK x : x = Tested(test, r)
      OBVIOUS
    <2>2. /\ DOMAIN x = Names /\ x.public = FALSE /\ x.types = {} /\ x.acl = <<>>
          /\ x.codes \in {<<>>} \cup Pairs(services) /\ x.test = test /\ x.path = "user"
      BY <1>5, <2>1, TestedFact
    <2> QED
      BY <2>1, <2>2, OnlyFact DEF Managed
  <1> HIDE DEF Plain
  <1>6. /\ \A a \in Part : Plain(Needs("user", a)) /\ Plain(Needs("role", a)) /\ Plain(Needs("acl", a))
        /\ Plain(On("user", Bare)) /\ On("user", Bare).path = "user"
    BY <1>1, <1>2, <1>3
  <1>7. \A r \in UserRoutes : Managed(r)
    BY <1>0, <1>3, <1>4, <1>5, <1>6 DEF UserRoutes
  <1>8. \A r \in AssignmentRoutes : Managed(r)
    BY <1>0, <1>3, <1>4, <1>6 DEF AssignmentRoutes
  <1>9. \A r \in RoleRoutes \cup PermissionRoutes \cup AclRoutes : Managed(r)
    BY <1>0, <1>1, <1>4, <1>6 DEF RoleRoutes, PermissionRoutes, AclRoutes
  <1> QED
    BY <1>7, <1>8, <1>9 DEF ManagementRoutes

LEMMA ReservedFact == \A r \in IamRoutes \ OpenRoutes : Reserved(r)
  <1>0. Star \in Part /\ "read" \in Part /\ "write" \in Part /\ "assign" \in Part
    BY CodeAssumption, RouteAssumption
  <1> DEFINE services == {"user", "role", "acl", "tenant", "audit"}
             Coded(r) == DOMAIN r = Names /\ r.public = FALSE /\ r.codes \in Pairs(services)
  <1>1. \A s \in services, a \in Part : Coded(Needs(s, a))
    BY NeedsFact
  <1>2. ASSUME NEW r, Coded(r), NEW v
        PROVE  /\ Coded(On(v, r)) /\ Coded(Only(v, r)) /\ Coded(Tested(v, r)) /\ Coded(OrSelf(r))
               /\ Reserved(r)
    <2>1. Coded(On(v, r))
      BY <1>2, OnFact
    <2>2. Coded(Only(v, r))
      BY <1>2, OnlyFact
    <2>3. Coded(Tested(v, r))
      BY <1>2, TestedFact
    <2>4. Coded(OrSelf(r))
      BY <1>2, OrSelfFact
    <2>5. Reserved(r)
      BY <1>2 DEF Reserved
    <2> QED
      BY <2>1, <2>2, <2>3, <2>4, <2>5
  <1> HIDE DEF Coded
  <1>3. ASSUME NEW r, DOMAIN r = Names PROVE Reserved(Only(AdminOnly, r))
    BY <1>3, OnlyFact DEF Reserved
  <1>4. ASSUME NEW r, DOMAIN r = Names, r.public = FALSE, NEW test \in {"findOne", "update"}
        PROVE  Reserved(Only(Both, Tested(test, r)))
    <2>1. PICK x : x = Tested(test, r)
      OBVIOUS
    <2>2. DOMAIN x = Names /\ x.public = FALSE /\ x.test = test
      BY <1>4, <2>1, TestedFact
    <2> QED
      BY <2>1, <2>2, OnlyFact DEF Reserved
  <1>5. /\ \A a \in Part : /\ Coded(Needs("user", a)) /\ Coded(Needs("role", a)) /\ Coded(Needs("acl", a))
                          /\ Coded(Needs("tenant", a)) /\ Coded(Needs("audit", a))
        /\ DOMAIN Bare = Names /\ \A v : DOMAIN On(v, Bare) = Names /\ On(v, Bare).public = FALSE
    BY <1>1, BareFact, OnFact
  <1>6. \A r \in SuperAdminRoutes : Reserved(r)
    BY <1>3, <1>5 DEF SuperAdminRoutes
  <1>7. \A r \in TenantRoutes : Reserved(r)
    BY <1>0, <1>2, <1>3, <1>5 DEF TenantRoutes
  <1>8. \A r \in UserRoutes : Reserved(r)
    BY <1>0, <1>2, <1>4, <1>5 DEF UserRoutes
  <1>9. \A r \in AssignmentRoutes : Reserved(r)
    BY <1>0, <1>2, <1>5 DEF AssignmentRoutes
  <1>10. \A r \in (RoleRoutes \cup PermissionRoutes \cup AclRoutes) \ OpenRoutes : Reserved(r)
    BY <1>0, <1>2, <1>5 DEF RoleRoutes, PermissionRoutes, AclRoutes, OpenRoutes
  <1> QED
    BY <1>6, <1>7, <1>8, <1>9, <1>10 DEF IamRoutes, ManagementRoutes

\* A token of a user is of Me.
LEMMA UserToken ==
  ASSUME GuardInv, AsUser
  PROVE  /\ request.token.identity = "USER" /\ request.token.sub = Me
         /\ request.token.tenant = TenantOf[Me] /\ request.token # None
  BY DEF GuardInv, GivenInv, AsUser, Tokens

\* Whatever is granted besides, and whichever tenants and users there are: the
\* guards let a tenant administrator through to every route of users, roles,
\* overrides and ACLs of his own tenant.
THEOREM AdminsManage == GuardSpec => []AdminManages
  <1>1. ASSUME GuardInv, Plainly("TenantAdmin"), AsUser, denies = {}, route \in ManagementRoutes,
               route.path = "user" => TenantOf[request.target] = TenantOf[Me]
        PROVE  verdict = "handled"
    <2>1. Managed(route) /\ RouteOK(route)
      BY <1>1, ManagedFact DEF GuardInv, GivenInv
    <2>2. /\ Caller = request.token /\ Caller # None /\ Caller.identity = "USER"
          /\ Caller.sub = Me /\ Caller.tenant = TenantOf[Me]
      BY <1>1, <2>1, UserToken DEF Managed, Caller
    <2>3. ASSUME NEW s \in {"user", "role", "acl"}, NEW a \in Part
          PROVE  Holds(<<s, a>>)
      <3>1. Covers(<<s, Star>>, <<s, a>>)
        BY PairFact, RouteAssumption
      <3>2. <<s, Star>> \in (roles \cup grants) \ denies
        BY <1>1, TenantAdminFact DEF Plainly
      <3> QED
        BY <2>2, <3>1, <3>2 DEF Holds, IsCaller
    <2>4. Authenticated /\ Listed
      BY <2>1, <2>2 DEF Authenticated, Listed, Managed
    <2>5. Identified
      BY <2>1, <2>2 DEF Identified, IsCaller, Managed, Both
    <2>6. Permitted
      <3>1. CASE route.codes = <<>>
        BY <3>1 DEF Permitted
      <3>2. CASE route.codes \in Pairs({"user", "role", "acl"})
        <4>1. PICK s \in {"user", "role", "acl"}, a \in Part : route.codes = <<<<s, a>>>>
          BY <3>2 DEF Pairs
        <4>2. \A k \in DOMAIN route.codes : route.codes[k] = <<s, a>>
          BY <4>1
        <4> QED
          BY <2>2, <2>3, <4>2 DEF Permitted
      <3> QED
        BY <2>1, <3>1, <3>2 DEF Managed
    <2>7. InTenant
      <3>1. Holds(<<"user", IF route.test = "findOne" THEN "read" ELSE "write">>)
        BY <2>3, RouteAssumption
      <3>2. Asks => TenantOf[request.target] = Caller.tenant
        BY <1>1, <2>1, <2>2 DEF Asks, Managed
      <3>3. route.test # "auditLogs"
        BY <2>1 DEF Managed
      <3> QED
        BY <3>1, <3>2, <3>3 DEF InTenant, OwnOrHeld
    <2>8. Entitled
      BY <2>4, <2>5, <2>6, <2>7 DEF Entitled
    <2> QED
      BY <1>1, <2>8 DEF GuardInv, VerdictInv, Plainly
  <1>2. GuardInv => AdminManages
    BY <1>1 DEF AdminManages
  <1> QED
    BY <1>2, InitGuardInv, NextGuardInv, PTL DEF GuardSpec

\* Whatever is denied, and whichever tenants and users there are: with nothing but
\* the role of an employee, a user gets only to the open routes and to himself.
THEOREM EmployeesOnlySelf == GuardSpec => []EmployeeOnlySelf
  <1>1. ASSUME GuardInv, Plainly("Employee"), AsUser, grants = {}, verdict = "handled",
               route \notin OpenRoutes
        PROVE  request.target = Me
    <2>1. Reserved(route) /\ RouteOK(route)
      BY <1>1, ReservedFact DEF GuardInv, GivenInv, Plainly
    <2>2. Entitled
      BY <1>1 DEF GuardInv, VerdictInv
    <2>3. /\ Caller # None => Caller.identity = "USER" /\ Caller.sub = Me
          /\ ~IsCaller("SUPER_ADMIN")
      BY <1>1, UserToken DEF Caller, IsCaller
    <2>4. ASSUME NEW s \in {"user", "role", "acl", "tenant", "audit"}, NEW a \in Part
          PROVE  ~Holds(<<s, a>>)
      <3>1. s \in Part /\ s # Star /\ Star \notin {"expense", "payroll"}
        BY RouteAssumption
      <3>2. ASSUME NEW p \in (roles \cup grants) \ denies PROVE ~Covers(p, <<s, a>>)
        <4>1. p[1] \in {"expense", "payroll"}
          BY <1>1, EmployeeFact DEF Plainly
        <4> QED
          BY <3>1, <4>1, PairFact
      <3> QED
        BY <3>2 DEF Holds
    <2>5. CASE route.types = AdminOnly
      BY <2>2, <2>3, <2>5 DEF Entitled, Identified, AdminOnly
    <2>6. CASE route.public = FALSE /\ route.codes \in Pairs({"user", "role", "acl", "tenant", "audit"})
      <3>1. PICK s \in {"user", "role", "acl", "tenant", "audit"}, a \in Part :
                route.codes = <<<<s, a>>>>
        BY <2>6 DEF Pairs
      <3>2. 1 \in DOMAIN route.codes /\ route.codes[1] = <<s, a>> /\ route.codes # <<>>
        BY <3>1
      <3>3. ~ \A k \in DOMAIN route.codes : Holds(route.codes[k])
        BY <2>4, <3>2
      <3> QED
        BY <2>2, <2>3, <2>6, <3>2, <3>3 DEF Entitled, Permitted
    <2>7. CASE route.public = FALSE /\ route.test \in {"findOne", "update"}
      <3>1. ~Holds(<<"user", IF route.test = "findOne" THEN "read" ELSE "write">>)
        BY <2>4, RouteAssumption
      <3>2. request.target = Caller.sub
        BY <2>2, <2>7, <3>1 DEF Entitled, InTenant, Asks, OwnOrHeld
      <3>3. Caller # None
        BY <2>2, <2>7 DEF Entitled, Authenticated
      <3> QED
        BY <2>3, <3>2, <3>3
    <2> QED
      BY <2>1, <2>5, <2>6, <2>7 DEF Reserved
  <1>2. GuardInv => EmployeeOnlySelf
    BY <1>1 DEF EmployeeOnlySelf
  <1> QED
    BY <1>2, InitGuardInv, NextGuardInv, PTL DEF GuardSpec
=============================================================================
