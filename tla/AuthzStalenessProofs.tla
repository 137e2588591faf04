------------------------- MODULE AuthzStalenessProofs -------------------------
(***************************************************************************)
(* The answers of AuthzCache are of bounded staleness, whatever the TTLs,  *)
(* the number of users, checks and requests, and the fate of the events.   *)
(***************************************************************************)
EXTENDS AuthzStaleness, AuthzCacheProofs

LEMMA WindowFact ==
    /\ SourceWindow \in Nat \ {0}
    /\ SourceWindow >= CheckTime + PermsTTL
    /\ SourceWindow >= CheckTime + DecisionTTL
    /\ AnswerWindow = SourceWindow + CheckTime + DecisionTTL
    /\ Horizon \in Nat
  <1> DEFINE m == Max2(PermsTTL, DecisionTTL)
  <1>1. m \in Nat /\ PermsTTL =< m /\ DecisionTTL =< m
    BY MaxFact, ConstantsAssumption
  <1>2. SourceWindow = CheckTime + m
    BY DEF SourceWindow
  <1> HIDE DEF m
  <1> QED
    BY <1>1, <1>2, ConstantsAssumption, HorizonAssumption DEF AnswerWindow

\* Arithmetic of a check that has been in progress for e.
LEMMA ElapsedFact ==
  ASSUME NEW e \in 0..CheckTime
  PROVE  /\ e \in Nat /\ e =< CheckTime
         /\ 0 + e \in Nat
         /\ SourceWindow - 1 + e \in Int
         /\ 0 + e =< SourceWindow - 1 + e
         /\ CheckTime + PermsTTL - 1 \in Int
         /\ CheckTime + PermsTTL - 1 =< SourceWindow - 1 + e
         /\ CheckTime + DecisionTTL - 1 \in Int
         /\ CheckTime + DecisionTTL - 1 =< SourceWindow - 1 + e
         /\ CheckTime \in Int /\ 0 + e =< CheckTime
         /\ AnswerWindow - DecisionTTL \in Int
         /\ SourceWindow - 1 + e =< AnswerWindow - DecisionTTL
         /\ AnswerWindow - 1 \in Int
         /\ SourceWindow - 1 + e =< AnswerWindow - 1
  BY WindowFact, ConstantsAssumption

-----------------------------------------------------------------------------
(* Justified *)
Ages == [Fact -> [Row -> Int]]

\* What is justified by recent rows is justified by rows that are not older.
LEMMA JustifiedLater ==
  ASSUME NEW a1 \in Ages, NEW a2 \in Ages, NEW d \in Int, NEW kind, NEW v, NEW n \in Int,
         NEW m \in Int, n + d =< m,
         \A f \in Fact, x \in Row : a2[f][x] =< a1[f][x] + d,
         Justified(a1, kind, v, n)
  PROVE  Justified(a2, kind, v, m)
  <1>1. PICK w \in View : HeldWithin(a1, w, n) /\ Decides(kind, w) = v
    BY DEF Justified
  <1>2. \A f \in Fact : w[f] \in Row /\ a1[f][w[f]] \in Int /\ a2[f][w[f]] \in Int
    BY DEF View, Ages
  <1>3. HeldWithin(a2, w, m)
    BY <1>1, <1>2 DEF HeldWithin
  <1> QED
    BY <1>1, <1>3 DEF Justified

LEMMA JustifiedWeaker ==
  ASSUME NEW a \in Ages, NEW kind, NEW v, NEW n \in Int, NEW m \in Int, n =< m,
         Justified(a, kind, v, n)
  PROVE  Justified(a, kind, v, m)
  BY JustifiedLater DEF Ages

\* The rows of the moment justify what they decide.
LEMMA JustifiedNow ==
  ASSUME NEW a \in Ages, NEW w \in View, \A f \in Fact : a[f][w[f]] = 0,
         NEW kind, NEW n \in Nat
  PROVE  Justified(a, kind, Decides(kind, w), n)
  BY DEF Justified, HeldWithin

\* A permission set decides a check that names no resource, and one that does
\* when it grants the permission; otherwise the ACL decides.
LEMMA JustifiedByPerms ==
  ASSUME NEW a, NEW n, NEW v \in BOOLEAN, NEW s \in {"plain", "resource"},
         v \/ s = "plain", Justified(a, "perms", v, n)
  PROVE  Justified(a, s, v, n)
  BY DEF Justified, Decides, Granted, Effective

\* A row read later completes the rows already known.
LEMMA Complete ==
  ASSUME NEW a, NEW n, NEW w \in View, HeldWithin(a, w, n),
         NEW f \in Fact, NEW x \in RowsOf(f), a[f][x] =< n
  PROVE  [w EXCEPT ![f] = x] \in View /\ HeldWithin(a, [w EXCEPT ![f] = x], n)
  BY ViewFact DEF HeldWithin, View

LEMMA JustifiedByAcl ==
  ASSUME NEW a \in Ages, NEW n, NEW v \in BOOLEAN,
         Justified(a, "perms", FALSE, n), Justified(a, "acl", v, n)
  PROVE  Justified(a, "resource", v, n)
  <1>1. PICK p \in View : HeldWithin(a, p, n) /\ Decides("perms", p) = FALSE
    BY DEF Justified
  <1>2. PICK l \in View : HeldWithin(a, l, n) /\ Decides("acl", l) = v
    BY DEF Justified
  <1> DEFINE w == [p EXCEPT !["acl"] = l["acl"]]
  <1>3. w \in View
    BY <1>1, <1>2, Complete DEF View, Fact, HeldWithin
  <1>4. HeldWithin(a, w, n)
    BY <1>1, <1>2, Complete DEF View, Fact, HeldWithin
  <1>5. Decides("resource", w) = v
    BY <1>1, <1>2 DEF Decides, Granted, RoleGrants, View, Fact
  <1> QED
    BY <1>3, <1>4, <1>5 DEF Justified

-----------------------------------------------------------------------------
(* The inductive invariant *)
StaleInv == AgesOK /\ EntriesBounded /\ ChecksBounded

LEMMA EntryFact ==
  ASSUME TypeOK, NEW k \in Key
  PROVE  cache[k].val \in BOOLEAN /\ cache[k].ttl \in Nat
  <1>1. Max2(PermsTTL, DecisionTTL) \in Nat
    BY MaxFact, ConstantsAssumption
  <1> QED
    BY <1>1 DEF TypeOK, CacheOK, Entry

LEMMA EntryFactAfter ==
  ASSUME TypeOK', NEW k \in Key
  PROVE  cache'[k].val \in BOOLEAN /\ cache'[k].ttl \in Nat
  <1>1. Max2(PermsTTL, DecisionTTL) \in Nat
    BY MaxFact, ConstantsAssumption
  <1> QED
    BY <1>1 DEF TypeOK, CacheOK, Entry

\* An entry that is read still has a unit of its life.
LEMMA ReadEntry ==
  ASSUME TypeOK, AgesOK, EntriesBounded, NEW k \in Key, Present(k)
  PROVE  /\ cache[k].val \in BOOLEAN
         /\ Justified(age[k[1]], k[2], cache[k].val, EntryWindow(k[2]) - 1)
  <1>1. cache[k].val \in BOOLEAN /\ cache[k].ttl \in Nat \ {0}
    BY EntryFact DEF Present
  <1>2. EntryWindow(k[2]) \in Int
    BY WindowFact, ConstantsAssumption DEF EntryWindow
  <1>3. age[k[1]] \in Ages
    BY DEF AgesOK, Ages, Key
  <1>4. Justified(age[k[1]], k[2], cache[k].val, EntryWindow(k[2]) - cache[k].ttl)
    BY DEF EntriesBounded
  <1> HIDE DEF EntryWindow
  <1>5. EntryWindow(k[2]) - cache[k].ttl \in Int /\ EntryWindow(k[2]) - 1 \in Int
        /\ EntryWindow(k[2]) - cache[k].ttl =< EntryWindow(k[2]) - 1
    BY <1>1, <1>2
  <1> QED
    BY <1>1, <1>3, <1>4, <1>5, JustifiedWeaker

LEMMA InitStaleInv == AInit => StaleInv
  <1> SUFFICES ASSUME AInit PROVE StaleInv
    OBVIOUS
  <1>1. AgesOK
    BY WindowFact, ConstantsAssumption DEF AInit, Init, AgesOK, FirstAges, View
  <1>2. EntriesBounded
    BY DEF AInit, Init, EntriesBounded, Present, NoEntry
  <1>3. ChecksBounded
    BY DEF AInit, Init, ChecksBounded, CheckBounded
  <1> QED
    BY <1>1, <1>2, <1>3 DEF StaleInv

-----------------------------------------------------------------------------
(* What a step does not touch stays justified.  d is the time the step      *)
(* takes: 1 for Tick, 0 for the others.                                     *)
NotOlder(d) == \A u \in Users, f \in Fact, x \in Row : age'[u][f][x] =< age[u][f][x] + d

LEMMA StillJustified ==
  ASSUME AgesOK, AgesOK', NEW d \in {0, 1}, NotOlder(d), NEW u \in Users,
         NEW kind, NEW v, NEW n \in Int, NEW m \in Int, n + d =< m,
         Justified(age[u], kind, v, n)
  PROVE  Justified(age'[u], kind, v, m)
  <1>1. age[u] \in Ages /\ age'[u] \in Ages
    BY WindowFact DEF AgesOK, Ages
  <1>2. PICK w \in View : HeldWithin(age[u], w, n) /\ Decides(kind, w) = v
    BY DEF Justified
  <1>3. ASSUME NEW f \in Fact
        PROVE  age'[u][f][w[f]] =< m
    <2>1. w[f] \in Row /\ age[u][f][w[f]] \in Int /\ age'[u][f][w[f]] \in Int
      BY <1>1 DEF View, Ages
    <2>2. age[u][f][w[f]] =< n /\ age'[u][f][w[f]] =< age[u][f][w[f]] + d
      BY <1>2, <2>1 DEF HeldWithin, NotOlder
    <2> QED
      BY <2>1, <2>2
  <1>4. HeldWithin(age'[u], w, m)
    BY <1>3 DEF HeldWithin
  <1> QED
    BY <1>2, <1>4 DEF Justified

LEMMA EntryKept ==
  ASSUME TypeOK, TypeOK', AgesOK, AgesOK', EntriesBounded, NEW d \in {0, 1}, NotOlder(d),
         NEW k \in Key, Present(k)', cache'[k].val = cache[k].val,
         cache'[k].ttl + d =< cache[k].ttl
  PROVE  Justified(age[k[1]], k[2], cache[k].val, EntryWindow(k[2]) - cache[k].ttl)'
  <1>1. cache[k].ttl \in Nat /\ cache'[k].ttl \in Nat
    BY EntryFact, EntryFactAfter
  <1>2. EntryWindow(k[2]) \in Int
    BY WindowFact, ConstantsAssumption DEF EntryWindow
  <1>3. Present(k)
    BY <1>1 DEF Present
  <1> DEFINE n == EntryWindow(k[2]) - cache[k].ttl
             m == EntryWindow(k[2]) - cache'[k].ttl
  <1>4. Justified(age[k[1]], k[2], cache[k].val, n)
    BY <1>3 DEF EntriesBounded
  <1>5. n \in Int /\ m \in Int /\ n + d =< m
    BY <1>1, <1>2
  <1>6. k[1] \in Users
    BY DEF Key
  <1> HIDE DEF n, m
  <1>7. Justified(age'[k[1]], k[2], cache[k].val, m)
    BY <1>4, <1>5, <1>6, StillJustified
  <1> QED
    BY <1>7 DEF m

LEMMA CheckKept ==
  ASSUME TypeOK, AgesOK, AgesOK', NEW d \in {0, 1}, NotOlder(d), NEW c \in Checks, CheckBounded(c),
         pc'[c] = pc[c], subject'[c] = subject[c], scope'[c] = scope[c], seen'[c] = seen[c],
         pc[c] = "idle" \/ elapsed'[c] = elapsed[c] + d
  PROVE  CheckBounded(c)'
  <1>1. CASE pc[c] = "idle"
    BY <1>1 DEF CheckBounded
  <1>2. CASE pc[c] # "idle"
    <2>1. subject[c] \in Users /\ elapsed[c] \in Int /\ SourceWindow \in Int
      BY WindowFact, ConstantsAssumption DEF TypeOK, ChecksOK
    <2>2. ASSUME NEW kind, NEW v, NEW n \in Int, NEW m \in Int, n + d =< m,
                 Justified(age[subject[c]], kind, v, n)
          PROVE  Justified(age'[subject'[c]], kind, v, m)
      BY <2>1, <2>2, StillJustified
    <2>3. ASSUME NEW kind, NEW v, NEW n \in Int, Justified(age[subject[c]], kind, v, n + elapsed[c])
          PROVE  Justified(age'[subject'[c]], kind, v, n + elapsed'[c])
      <3>1. /\ n + elapsed[c] \in Int /\ n + elapsed'[c] \in Int
            /\ n + elapsed[c] + d =< n + elapsed'[c]
        BY <1>2, <2>1
      <3> HIDE DEF Justified
      <3> QED
        BY <2>2, <2>3, <3>1
    <2>4. /\ 0 \in Int /\ SourceWindow - 1 \in Int
      BY <2>1
    <2> DEFINE J(kind, v, n)  == Justified(age[subject[c]], kind, v, n + elapsed[c])
               J2(kind, v, n) == Justified(age'[subject'[c]], kind, v, n + elapsed'[c])
    <2>5. \A kind, v : \A n \in Int : J(kind, v, n) => J2(kind, v, n)
      BY <2>3
    <2>6. CheckBounded(c)' <=>
            /\ pc[c] = "grants"      => J2("role", TRUE, 0)
            /\ pc[c] = "overrides"   => J2("roles", seen[c], 0)
            /\ pc[c] = "setPerms"    => J2("perms", seen[c], 0)
            /\ pc[c] \in {"acl", "countAcl", "setAcl"} =>
                   scope[c] = "resource" /\ J2("perms", FALSE, SourceWindow - 1)
            /\ pc[c] = "setAcl"      => J2("acl", seen[c], 0)
            /\ pc[c] = "setDecision" => J2(scope[c], seen[c], SourceWindow - 1)
      BY DEF CheckBounded, SourceWindow
    <2>7. /\ pc[c] = "grants"      => J("role", TRUE, 0)
          /\ pc[c] = "overrides"   => J("roles", seen[c], 0)
          /\ pc[c] = "setPerms"    => J("perms", seen[c], 0)
          /\ pc[c] \in {"acl", "countAcl", "setAcl"} =>
                 scope[c] = "resource" /\ J("perms", FALSE, SourceWindow - 1)
          /\ pc[c] = "setAcl"      => J("acl", seen[c], 0)
          /\ pc[c] = "setDecision" => J(scope[c], seen[c], SourceWindow - 1)
      BY DEF CheckBounded
    <2> HIDE DEF J, J2
    <2> QED
      BY <2>4, <2>5, <2>6, <2>7
  <1> QED
    BY <1>1, <1>2

-----------------------------------------------------------------------------
(* The ages *)
LEMMA StepAges ==
  ASSUME TypeOK', AgesOK, age' = AgesUpon(age, db')
  PROVE  AgesOK' /\ NotOlder(0)
  BY WindowFact DEF AgesOK, AgesUpon, NotOlder, TypeOK, DbOK, View

LEMMA SameAges ==
  ASSUME AgesOK, db' = db, age' = AgesUpon(age, db')
  PROVE  age' = age
  BY WindowFact DEF AgesOK, AgesUpon

LEMMA TickAges ==
  ASSUME TypeOK, AgesOK, db' = db, age' = AgesAfterTick(age, db)
  PROVE  AgesOK' /\ NotOlder(1)
  <1>1. ASSUME NEW u \in Users, NEW f \in Fact, NEW x \in Row
        PROVE  /\ age'[u][f][x] \in 0..Horizon
               /\ age'[u][f][x] =< age[u][f][x] + 1
    <2>1. age[u][f][x] \in 0..Horizon
      BY DEF AgesOK
    <2>2. age'[u][f][x] = IF db[u][f] = x THEN 0 ELSE Min2(age[u][f][x] + 1, Horizon)
      BY DEF AgesAfterTick
    <2> QED
      BY <2>1, <2>2, WindowFact DEF Min2
  <1>2. age' \in [Users -> [Fact -> [Row -> 0..Horizon]]]
    BY <1>1 DEF AgesAfterTick
  <1>3. ASSUME NEW u \in Users, NEW f \in Fact
        PROVE  age'[u][f][db'[u][f]] = 0
    <2>1. db[u][f] \in Row
      BY DEF TypeOK, DbOK, View
    <2> QED
      BY <2>1 DEF AgesAfterTick
  <1> QED
    BY <1>1, <1>2, <1>3 DEF AgesOK, NotOlder

-----------------------------------------------------------------------------
(* A step of check c: the database and the ages do not change.             *)
Quiet(c) ==
    /\ TypeOK /\ TypeOK' /\ StaleInv /\ AgesOK'
    /\ age' = age /\ db' = db /\ subject' = subject /\ scope' = scope

LEMMA PutKept ==
  ASSUME NEW c \in Checks, Quiet(c), NEW k \in Key, NEW v \in BOOLEAN, Put(k, v),
         Justified(age[k[1]], k[2], v, EntryWindow(k[2]) - TTL(k))
  PROVE  EntriesBounded'
  <1> SUFFICES ASSUME NEW j \in Key, Present(j)'
               PROVE  Justified(age[j[1]], j[2], cache[j].val, EntryWindow(j[2]) - cache[j].ttl)'
    BY DEF EntriesBounded, EntryWindow, AnswerWindow, SourceWindow
  <1>1. CASE j = k
    <2>1. cache'[j] = [val |-> v, ttl |-> TTL(k)]
      BY <1>1 DEF Put, Quiet, TypeOK, CacheOK
    <2> QED
      BY <1>1, <2>1 DEF Quiet, EntryWindow, AnswerWindow, SourceWindow
  <1>2. CASE j # k
    <2>1. cache'[j] = cache[j]
      BY <1>2 DEF Put, Quiet, TypeOK, CacheOK
    <2>2. Justified(age[j[1]], j[2], cache[j].val, EntryWindow(j[2]) - cache[j].ttl)
      BY <2>1 DEF Quiet, StaleInv, EntriesBounded, Present
    <2> QED
      BY <2>1, <2>2 DEF Quiet, EntryWindow, AnswerWindow, SourceWindow
  <1> QED
    BY <1>1, <1>2

LEMMA OthersKept ==
  ASSUME NEW c \in Checks, Quiet(c), CheckBounded(c)',
         \A b \in Checks \ {c} :
             pc'[b] = pc[b] /\ seen'[b] = seen[b] /\ elapsed'[b] = elapsed[b]
  PROVE  ChecksBounded'
  <1> SUFFICES ASSUME NEW b \in Checks, b # c PROVE CheckBounded(b)'
    BY DEF ChecksBounded
  <1>1. NotOlder(0)
    BY DEF NotOlder, Quiet, StaleInv, AgesOK
  <1>2. elapsed'[b] = elapsed[b] + 0
    BY DEF Quiet, TypeOK, ChecksOK
  <1> QED
    BY <1>1, <1>2, CheckKept DEF Quiet, StaleInv, ChecksBounded

\* What is known of a check in progress.
LEMMA CheckFact ==
  ASSUME NEW c \in Checks, Quiet(c)
  PROVE  /\ subject[c] \in Users /\ scope[c] \in {"plain", "resource"}
         /\ seen[c] \in BOOLEAN /\ elapsed[c] \in 0..CheckTime
         /\ age[subject[c]] \in Ages
         /\ db[subject[c]] \in View
         /\ \A f \in Fact : age[subject[c]][f][db[subject[c]][f]] = 0
         /\ CheckBounded(c)
         /\ \A kind \in {"perms", "acl", "plain", "resource"} : <<subject[c], kind>> \in Key
  <1>1. /\ subject[c] \in Users /\ scope[c] \in {"plain", "resource"}
        /\ seen[c] \in BOOLEAN /\ elapsed[c] \in 0..CheckTime
    <2>1. TypeOK
      BY DEF Quiet
    <2>2. subject[c] \in Users /\ scope[c] \in Scopes /\ seen[c] \in BOOLEAN
      BY <2>1 DEF TypeOK, ChecksOK
    <2>3. elapsed[c] \in 0..CheckTime
      BY <2>1 DEF TypeOK, ChecksOK
    <2> QED
      BY <2>2, <2>3, ElapsedFact, ConstantsAssumption
  <1>2. age[subject[c]] \in Ages
    BY <1>1, WindowFact DEF Quiet, StaleInv, AgesOK, Ages
  <1>3. db[subject[c]] \in View
    BY <1>1 DEF Quiet, TypeOK, DbOK
  <1>4. \A f \in Fact : age[subject[c]][f][db[subject[c]][f]] = 0
    BY <1>1 DEF Quiet, StaleInv, AgesOK
  <1>5. CheckBounded(c)
    BY DEF Quiet, StaleInv, ChecksBounded
  <1> QED
    BY <1>1, <1>2, <1>3, <1>4, <1>5 DEF Key

LEMMA WindowOf ==
  /\ EntryWindow("perms") = CheckTime + PermsTTL
  /\ EntryWindow("acl") = CheckTime + DecisionTTL
  /\ EntryWindow("plain") = AnswerWindow
  /\ EntryWindow("resource") = AnswerWindow
  BY DEF EntryWindow

\* The arithmetic of a check.
LEMMA OwnElapsed ==
  ASSUME NEW c \in Checks, Quiet(c)
  PROVE  /\ 0 + elapsed[c] \in Int /\ 0 + elapsed[c] =< CheckTime
         /\ 0 + elapsed[c] =< SourceWindow - 1 + elapsed[c]
         /\ SourceWindow - 1 + elapsed[c] \in Int
         /\ CheckTime \in Int /\ AnswerWindow - DecisionTTL \in Int
         /\ SourceWindow - 1 + elapsed[c] =< AnswerWindow - DecisionTTL
         /\ AnswerWindow - 1 \in Int
         /\ SourceWindow - 1 + elapsed[c] =< AnswerWindow - 1
         /\ \A kind \in {"perms", "acl"} :
                /\ EntryWindow(kind) - 1 \in Int
                /\ EntryWindow(kind) - 1 =< SourceWindow - 1 + elapsed[c]
  <1>1. elapsed[c] \in 0..CheckTime
    BY CheckFact
  <1>2. ASSUME NEW kind \in {"perms", "acl"}
        PROVE  /\ EntryWindow(kind) - 1 \in Int
               /\ EntryWindow(kind) - 1 =< SourceWindow - 1 + elapsed[c]
    <2>1. CASE kind = "perms"
      <3> DEFINE n == CheckTime + PermsTTL - 1
                 m == SourceWindow - 1 + elapsed[c]
      <3>1. n \in Int /\ n =< m
        BY <1>1, ElapsedFact
      <3>2. EntryWindow(kind) = CheckTime + PermsTTL
        BY <2>1, WindowOf
      <3>3. EntryWindow(kind) - 1 = n
        BY <3>2, ConstantsAssumption
      <3> HIDE DEF n, m
      <3>4. EntryWindow(kind) - 1 \in Int /\ EntryWindow(kind) - 1 =< m
        BY <3>1, <3>3
      <3> QED
        BY <3>4 DEF m
    <2>2. CASE kind = "acl"
      <3> DEFINE n == CheckTime + DecisionTTL - 1
                 m == SourceWindow - 1 + elapsed[c]
      <3>1. n \in Int /\ n =< m
        BY <1>1, ElapsedFact
      <3>2. EntryWindow(kind) = CheckTime + DecisionTTL
        BY <2>2, WindowOf
      <3>3. EntryWindow(kind) - 1 = n
        BY <3>2, ConstantsAssumption
      <3> HIDE DEF n, m
      <3>4. EntryWindow(kind) - 1 \in Int /\ EntryWindow(kind) - 1 =< m
        BY <3>1, <3>3
      <3> QED
        BY <3>4 DEF m
    <2> QED
      BY <2>1, <2>2
  <1>3. 0 + elapsed[c] \in Int
    BY <1>1, ElapsedFact
  <1>4. 0 + elapsed[c] =< CheckTime
    BY <1>1, ElapsedFact
  <1>5. 0 + elapsed[c] =< SourceWindow - 1 + elapsed[c]
    BY <1>1, ElapsedFact
  <1>6. SourceWindow - 1 + elapsed[c] \in Int
    BY <1>1, ElapsedFact
  <1>7. CheckTime \in Int /\ AnswerWindow - DecisionTTL \in Int /\ AnswerWindow - 1 \in Int
    BY <1>1, ElapsedFact
  <1>8. SourceWindow - 1 + elapsed[c] =< AnswerWindow - DecisionTTL
        /\ SourceWindow - 1 + elapsed[c] =< AnswerWindow - 1
    BY <1>1, ElapsedFact
  <1> QED
    BY <1>2, <1>3, <1>4, <1>5, <1>6, <1>7, <1>8

\* Continue leaves the other checks alone, Reply too.
LEMMA MoveFact ==
  ASSUME NEW c \in Checks, Quiet(c), NEW l, NEW v, Continue(c, l, v) \/ Reply(c, v)
  PROVE  /\ \A b \in Checks \ {c} :
                pc'[b] = pc[b] /\ seen'[b] = seen[b] /\ elapsed'[b] = elapsed[b]
         /\ Continue(c, l, v) =>
                pc'[c] = l /\ seen'[c] = v /\ elapsed'[c] = elapsed[c]
         /\ Reply(c, v) => pc'[c] = "idle"
  BY DEF Quiet, TypeOK, ChecksOK, Continue, Reply, Goto, Found

\* What Continue must establish for the check to stay bounded.
LEMMA BoundedNext ==
  ASSUME NEW c \in Checks, Quiet(c), NEW l, NEW v, Continue(c, l, v),
         l = "grants"      => Justified(age[subject[c]], "role", TRUE, 0 + elapsed[c]),
         l = "overrides"   => Justified(age[subject[c]], "roles", v, 0 + elapsed[c]),
         l = "setPerms"    => Justified(age[subject[c]], "perms", v, 0 + elapsed[c]),
         l \in {"acl", "countAcl", "setAcl"} =>
             /\ scope[c] = "resource"
             /\ Justified(age[subject[c]], "perms", FALSE, SourceWindow - 1 + elapsed[c]),
         l = "setAcl"      => Justified(age[subject[c]], "acl", v, 0 + elapsed[c]),
         l = "setDecision" => Justified(age[subject[c]], scope[c], v, SourceWindow - 1 + elapsed[c])
  PROVE  ChecksBounded'
  <1>1. CheckBounded(c)'
    <2>1. /\ pc'[c] = l /\ seen'[c] = v /\ elapsed'[c] = elapsed[c]
          /\ age' = age /\ subject' = subject /\ scope' = scope
      BY MoveFact DEF Quiet
    <2> QED
      BY <2>1 DEF CheckBounded, SourceWindow
  <1> QED
    BY <1>1, MoveFact, OthersKept

LEMMA BoundedReply ==
  ASSUME NEW c \in Checks, Quiet(c), NEW v, Reply(c, v)
  PROVE  ChecksBounded'
  BY MoveFact, OthersKept DEF CheckBounded

-----------------------------------------------------------------------------
(* The steps of a check, one lemma for each that does more than move on.   *)

\* The permission set is known, from the cache or the database: what follows
\* for the decision.
LEMMA AfterPermsStale ==
  ASSUME NEW c \in Checks, Quiet(c), NEW v \in BOOLEAN, Continue(c, AfterPerms(c, v), v),
         NEW n \in Int, n =< SourceWindow - 1 + elapsed[c],
         Justified(age[subject[c]], "perms", v, n)
  PROVE  ChecksBounded'
  <1> DEFINE m == SourceWindow - 1 + elapsed[c]
  <1>0. m \in Int /\ n =< m /\ age[subject[c]] \in Ages
    BY OwnElapsed, CheckFact
  <1>1. Justified(age[subject[c]], "perms", v, m)
    <2> HIDE DEF m
    <2> QED
      BY <1>0, JustifiedWeaker
  <1> HIDE DEF m
  <1>2. CASE v \/ scope[c] = "plain"
    <2>1. Justified(age[subject[c]], scope[c], v, m)
      BY <1>1, <1>2, CheckFact, JustifiedByPerms
    <2> QED
      BY <1>2, <2>1, BoundedNext DEF AfterPerms, m
  <1>3. CASE v = FALSE /\ scope[c] = "resource"
    BY <1>1, <1>3, BoundedNext DEF AfterPerms, m
  <1> QED
    BY <1>2, <1>3, CheckFact

\* The ACL is known, and the permission set denies.
LEMMA AfterAclStale ==
  ASSUME NEW c \in Checks, Quiet(c), NEW v \in BOOLEAN, Continue(c, "setDecision", v),
         pc[c] \in {"acl", "setAcl"},
         NEW n \in Int, n =< SourceWindow - 1 + elapsed[c],
         Justified(age[subject[c]], "acl", v, n)
  PROVE  ChecksBounded'
  <1> DEFINE m == SourceWindow - 1 + elapsed[c]
  <1>0. m \in Int /\ n =< m /\ age[subject[c]] \in Ages
    BY OwnElapsed, CheckFact
  <1>1. Justified(age[subject[c]], "acl", v, m)
    <2> HIDE DEF m
    <2> QED
      BY <1>0, JustifiedWeaker
  <1>2. scope[c] = "resource" /\ Justified(age[subject[c]], "perms", FALSE, m)
    BY CheckFact DEF CheckBounded
  <1> HIDE DEF m
  <1>3. Justified(age[subject[c]], "resource", v, m)
    BY <1>1, <1>2, CheckFact, JustifiedByAcl
  <1> QED
    BY <1>2, <1>3, BoundedNext DEF m

LEMMA ReadOwn ==
  ASSUME NEW c \in Checks, Quiet(c), NEW kind \in {"perms", "acl", "plain", "resource"},
         Present(<<subject[c], kind>>)
  PROVE  LET v == cache[<<subject[c], kind>>].val
         IN  v \in BOOLEAN /\ Justified(age[subject[c]], kind, v, EntryWindow(kind) - 1)
  <1> DEFINE k == <<subject[c], kind>>
  <1>1. k \in Key /\ Present(k) /\ k[1] = subject[c] /\ k[2] = kind
    BY CheckFact
  <1> HIDE DEF k
  <1>2. cache[k].val \in BOOLEAN /\ Justified(age[k[1]], k[2], cache[k].val, EntryWindow(k[2]) - 1)
    BY <1>1, ReadEntry DEF Quiet, StaleInv
  <1>3. cache[k].val \in BOOLEAN /\ Justified(age[subject[c]], kind, cache[k].val, EntryWindow(kind) - 1)
    BY <1>1, <1>2
  <1> QED
    BY <1>3 DEF k

LEMMA GetPermissionsStale ==
  ASSUME NEW c \in Checks, Quiet(c), GetPermissions(c)
  PROVE  ChecksBounded'
  <1> DEFINE k == <<subject[c], "perms">>
  <1>1. CASE Present(k)
    <2>1. cache[k].val \in BOOLEAN /\ Justified(age[subject[c]], "perms", cache[k].val, EntryWindow("perms") - 1)
      BY <1>1, ReadOwn
    <2>2. /\ EntryWindow("perms") - 1 \in Int
          /\ EntryWindow("perms") - 1 =< SourceWindow - 1 + elapsed[c]
      BY OwnElapsed
    <2>3. Continue(c, AfterPerms(c, cache[k].val), cache[k].val)
      BY <1>1 DEF GetPermissions
    <2> QED
      BY <2>1, <2>2, <2>3, AfterPermsStale
  <1>2. CASE ~Present(k)
    BY <1>2, BoundedNext DEF GetPermissions
  <1> QED
    BY <1>1, <1>2

\* What a check reads now is justified.
LEMMA ReadNow ==
  ASSUME NEW c \in Checks, Quiet(c), NEW kind
  PROVE  Justified(age[subject[c]], kind, Decides(kind, db[subject[c]]), 0 + elapsed[c])
  <1> DEFINE n == 0 + elapsed[c]
  <1>0. elapsed[c] \in 0..CheckTime
    BY CheckFact
  <1>1. n \in Nat
    BY <1>0, ElapsedFact
  <1> HIDE DEF n
  <1>2. Justified(age[subject[c]], kind, Decides(kind, db[subject[c]]), n)
    BY <1>1, CheckFact, JustifiedNow
  <1> QED
    BY <1>2 DEF n

LEMMA GetUserRolesStale ==
  ASSUME NEW c \in Checks, Quiet(c), GetUserRoles(c)
  PROVE  ChecksBounded'
  <1> DEFINE w == db[subject[c]]
  <1>1. CASE w["role"] = "present"
    <2>1. Decides("role", w) = TRUE
      BY <1>1, DecidesFact
    <2>2. Justified(age[subject[c]], "role", TRUE, 0 + elapsed[c])
      BY <2>1, ReadNow
    <2> QED
      BY <1>1, <2>2, BoundedNext DEF GetUserRoles
  <1>2. CASE w["role"] # "present"
    <2>1. Decides("roles", w) = FALSE
      BY <1>2, DecidesFact
    <2>2. Justified(age[subject[c]], "roles", FALSE, 0 + elapsed[c])
      BY <2>1, ReadNow
    <2> QED
      BY <1>2, <2>2, BoundedNext DEF GetUserRoles
  <1> QED
    BY <1>1, <1>2

\* A row that is read now, with rows that were read before in the same check.
LEMMA ReadMore ==
  ASSUME NEW c \in Checks, Quiet(c), NEW w \in View,
         HeldWithin(age[subject[c]], w, 0 + elapsed[c]), NEW f \in Fact
  PROVE  LET w2 == [w EXCEPT ![f] = db[subject[c]][f]]
         IN  w2 \in View /\ HeldWithin(age[subject[c]], w2, 0 + elapsed[c])
  <1> DEFINE n == 0 + elapsed[c]
  <1>1. n \in Nat /\ db[subject[c]][f] \in RowsOf(f)
    BY CheckFact, ElapsedFact DEF View
  <1>2. age[subject[c]][f][db[subject[c]][f]] = 0
    BY CheckFact
  <1> HIDE DEF n
  <1>3. age[subject[c]][f][db[subject[c]][f]] =< n
    BY <1>1, <1>2
  <1>4. HeldWithin(age[subject[c]], w, n)
    BY DEF n
  <1>5. LET w2 == [w EXCEPT ![f] = db[subject[c]][f]]
        IN  w2 \in View /\ HeldWithin(age[subject[c]], w2, n)
    BY <1>1, <1>3, <1>4, Complete
  <1> QED
    BY <1>5 DEF n

LEMMA GetRolePermissionsStale ==
  ASSUME NEW c \in Checks, Quiet(c), GetRolePermissions(c)
  PROVE  ChecksBounded'
  <1> DEFINE x == db[subject[c]]["grant"]
  <1>1. Justified(age[subject[c]], "role", TRUE, 0 + elapsed[c])
    BY CheckFact DEF CheckBounded, GetRolePermissions
  <1>2. PICK w \in View : HeldWithin(age[subject[c]], w, 0 + elapsed[c]) /\ Decides("role", w) = TRUE
    BY <1>1 DEF Justified
  <1> DEFINE w2 == [w EXCEPT !["grant"] = x]
  <1>3. w2 \in View /\ HeldWithin(age[subject[c]], w2, 0 + elapsed[c])
    BY <1>2, ReadMore DEF Fact
  <1>4. w2["role"] = "present" /\ w2["grant"] = x
    BY <1>2, DecidesFact DEF View, Fact
  <1> HIDE DEF w2
  <1>5. Decides("roles", w2) = (x = "present")
    BY <1>4, DecidesFact
  <1>6. Justified(age[subject[c]], "roles", x = "present", 0 + elapsed[c])
    BY <1>3, <1>5 DEF Justified
  <1> QED
    BY <1>6, BoundedNext DEF GetRolePermissions

LEMMA GetOverridesForUserStale ==
  ASSUME NEW c \in Checks, Quiet(c), GetOverridesForUser(c)
  PROVE  ChecksBounded'
  <1> DEFINE x == db[subject[c]]["override"]
  <1>1. Justified(age[subject[c]], "roles", seen[c], 0 + elapsed[c])
    BY CheckFact DEF CheckBounded, GetOverridesForUser
  <1>2. PICK w \in View : HeldWithin(age[subject[c]], w, 0 + elapsed[c]) /\ Decides("roles", w) = seen[c]
    BY <1>1 DEF Justified
  <1> DEFINE w2 == [w EXCEPT !["override"] = x]
  <1>3. w2 \in View /\ HeldWithin(age[subject[c]], w2, 0 + elapsed[c])
    BY <1>2, ReadMore DEF Fact
  <1>4. w2["role"] = w["role"] /\ w2["grant"] = w["grant"] /\ w2["override"] = x
    BY <1>2 DEF View, Fact
  <1> HIDE DEF w2
  <1>5. Decides("roles", w2) = seen[c]
    BY <1>2, <1>4, DecidesFact
  <1>6. Decides("perms", w2) = Effective(seen[c], x)
    BY <1>4, <1>5, DecidesFact
  <1>7. Justified(age[subject[c]], "perms", Effective(seen[c], x), 0 + elapsed[c])
    BY <1>3, <1>6 DEF Justified
  <1> QED
    BY <1>7, BoundedNext DEF GetOverridesForUser

LEMMA GetAclStale ==
  ASSUME NEW c \in Checks, Quiet(c), GetAcl(c)
  PROVE  ChecksBounded'
  <1> DEFINE k == <<subject[c], "acl">>
  <1>1. CASE Present(k)
    <2>1. cache[k].val \in BOOLEAN /\ Justified(age[subject[c]], "acl", cache[k].val, EntryWindow("acl") - 1)
      BY <1>1, ReadOwn
    <2>2. /\ EntryWindow("acl") - 1 \in Int
          /\ EntryWindow("acl") - 1 =< SourceWindow - 1 + elapsed[c]
      BY OwnElapsed
    <2>3. Continue(c, "setDecision", cache[k].val) /\ pc[c] = "acl"
      BY <1>1 DEF GetAcl
    <2> QED
      BY <2>1, <2>2, <2>3, AfterAclStale
  <1>2. CASE ~Present(k)
    <2>1. /\ scope[c] = "resource"
          /\ Justified(age[subject[c]], "perms", FALSE, SourceWindow - 1 + elapsed[c])
      BY CheckFact DEF CheckBounded, GetAcl
    <2> QED
      BY <1>2, <2>1, BoundedNext DEF GetAcl
  <1> QED
    BY <1>1, <1>2

LEMMA CountAclStale ==
  ASSUME NEW c \in Checks, Quiet(c), CountAcl(c)
  PROVE  ChecksBounded'
  <1> DEFINE v == db[subject[c]]["acl"] = "present"
  <1>1. /\ scope[c] = "resource"
        /\ Justified(age[subject[c]], "perms", FALSE, SourceWindow - 1 + elapsed[c])
    BY CheckFact DEF CheckBounded, CountAcl
  <1>2. Decides("acl", db[subject[c]]) = v
    BY DecidesFact
  <1>3. Justified(age[subject[c]], "acl", v, 0 + elapsed[c])
    BY <1>2, ReadNow
  <1>4. Continue(c, "setAcl", v)
    BY DEF CountAcl
  <1> QED
    BY <1>1, <1>3, <1>4, BoundedNext

\* The steps that write an entry.
LEMMA SetPermissionsStale ==
  ASSUME NEW c \in Checks, Quiet(c), SetPermissions(c)
  PROVE  EntriesBounded' /\ ChecksBounded'
  <1> DEFINE k == <<subject[c], "perms">>
             n == 0 + elapsed[c]
             m == SourceWindow - 1 + elapsed[c]
  <1>1. Justified(age[subject[c]], "perms", seen[c], n)
    BY CheckFact DEF CheckBounded, SetPermissions
  <1>2. k \in Key /\ k[1] = subject[c] /\ k[2] = "perms" /\ seen[c] \in BOOLEAN
        /\ age[subject[c]] \in Ages
    BY CheckFact
  <1>3. EntryWindow("perms") - TTL(k) = CheckTime
    <2>1. EntryWindow("perms") = CheckTime + PermsTTL /\ TTL(k) = PermsTTL
      BY WindowOf DEF TTL
    <2> QED
      BY <2>1, ConstantsAssumption
  <1>4. n \in Int /\ CheckTime \in Int /\ n =< CheckTime /\ n =< m
    BY OwnElapsed
  <1>5. Put(k, seen[c]) /\ Continue(c, AfterPerms(c, seen[c]), seen[c])
    BY DEF SetPermissions
  <1> HIDE DEF k, n
  <1>6. Justified(age[subject[c]], "perms", seen[c], CheckTime)
    BY <1>1, <1>2, <1>4, JustifiedWeaker
  <1>7. EntriesBounded'
    BY <1>2, <1>3, <1>5, <1>6, PutKept
  <1>8. ChecksBounded'
    BY <1>1, <1>2, <1>4, <1>5, AfterPermsStale
  <1> QED
    BY <1>7, <1>8

LEMMA SetAclStale ==
  ASSUME NEW c \in Checks, Quiet(c), SetAcl(c)
  PROVE  EntriesBounded' /\ ChecksBounded'
  <1> DEFINE k == <<subject[c], "acl">>
             n == 0 + elapsed[c]
             m == SourceWindow - 1 + elapsed[c]
  <1>1. Justified(age[subject[c]], "acl", seen[c], n)
    BY CheckFact DEF CheckBounded, SetAcl
  <1>2. k \in Key /\ k[1] = subject[c] /\ k[2] = "acl" /\ seen[c] \in BOOLEAN
        /\ age[subject[c]] \in Ages
    BY CheckFact
  <1>3. EntryWindow("acl") - TTL(k) = CheckTime
    <2>1. EntryWindow("acl") = CheckTime + DecisionTTL /\ TTL(k) = DecisionTTL
      BY WindowOf DEF TTL
    <2> QED
      BY <2>1, ConstantsAssumption
  <1>4. n \in Int /\ CheckTime \in Int /\ n =< CheckTime /\ n =< m
    BY OwnElapsed
  <1>5. Put(k, seen[c]) /\ Continue(c, "setDecision", seen[c]) /\ pc[c] = "setAcl"
    BY DEF SetAcl
  <1> HIDE DEF k, n
  <1>6. Justified(age[subject[c]], "acl", seen[c], CheckTime)
    BY <1>1, <1>2, <1>4, JustifiedWeaker
  <1>7. EntriesBounded'
    BY <1>2, <1>3, <1>5, <1>6, PutKept
  <1>8. ChecksBounded'
    BY <1>1, <1>2, <1>4, <1>5, AfterAclStale
  <1> QED
    BY <1>7, <1>8

LEMMA SetDecisionStale ==
  ASSUME NEW c \in Checks, Quiet(c), SetDecision(c)
  PROVE  EntriesBounded' /\ ChecksBounded'
  <1> DEFINE k == <<subject[c], scope[c]>>
             n == SourceWindow - 1 + elapsed[c]
             m == AnswerWindow - DecisionTTL
  <1>1. Justified(age[subject[c]], scope[c], seen[c], n)
    BY CheckFact DEF CheckBounded, SetDecision
  <1>2. k \in Key /\ k[1] = subject[c] /\ k[2] = scope[c] /\ seen[c] \in BOOLEAN
        /\ age[subject[c]] \in Ages
    BY CheckFact
  <1>3. EntryWindow(scope[c]) - TTL(k) = m
    <2>1. EntryWindow(scope[c]) = AnswerWindow
      BY CheckFact, WindowOf
    <2>2. TTL(k) = DecisionTTL
      BY CheckFact DEF TTL
    <2> QED
      BY <2>1, <2>2
  <1>4. n \in Int /\ m \in Int /\ n =< m
    BY OwnElapsed
  <1>5. Put(k, seen[c])
    BY DEF SetDecision
  <1> HIDE DEF k, n, m
  <1>6. Justified(age[subject[c]], scope[c], seen[c], m)
    BY <1>1, <1>2, <1>4, JustifiedWeaker
  <1>7. EntriesBounded'
    BY <1>2, <1>3, <1>5, <1>6, PutKept
  <1>8. ChecksBounded'
    BY BoundedReply DEF SetDecision
  <1> QED
    BY <1>7, <1>8

\* The steps that only read.
LEMMA GetDecisionStale ==
  ASSUME NEW c \in Checks, Quiet(c), GetDecision(c)
  PROVE  ChecksBounded'
  <1> DEFINE k == <<subject[c], scope[c]>>
  <1>1. CASE Present(k)
    BY <1>1, BoundedReply DEF GetDecision
  <1>2. CASE ~Present(k)
    <2>1. Continue(c, "perms", FALSE)
      BY <1>2 DEF GetDecision
    <2> QED
      BY <2>1, BoundedNext
  <1> QED
    BY <1>1, <1>2

\* The SDK answers from an entry or goes on to the next tier.
LEMMA TiersStale ==
  ASSUME NEW c \in Checks, Quiet(c), PermsTier(c) \/ DecisionTier(c)
  PROVE  ChecksBounded'
  <1>1. CASE \E v : Reply(c, v)
    BY <1>1, BoundedReply
  <1>2. CASE \E l \in {"decisionTier", "decision"} : Continue(c, l, FALSE)
    BY <1>2, BoundedNext
  <1> QED
    BY <1>1, <1>2 DEF PermsTier, DecisionTier

LEMMA ReadStale ==
  ASSUME NEW c \in Checks, Quiet(c),
         \/ GetDecision(c) \/ GetPermissions(c) \/ GetUserRoles(c)
         \/ GetRolePermissions(c) \/ GetOverridesForUser(c) \/ GetAcl(c)
         \/ CountAcl(c) \/ CheckFails(c) \/ PermsTier(c) \/ DecisionTier(c)
  PROVE  EntriesBounded' /\ ChecksBounded'
  <1>1. cache' = cache /\ age' = age
    BY DEF GetDecision, GetPermissions, GetUserRoles, GetRolePermissions,
           GetOverridesForUser, GetAcl, CountAcl, CheckFails, PermsTier, DecisionTier, Quiet
  <1>2. EntriesBounded'
    <2>1. EntriesBounded
      BY DEF Quiet, StaleInv
    <2> QED
      BY <1>1, <2>1 DEF EntriesBounded, Present, EntryWindow, AnswerWindow, SourceWindow
  <1>3. CASE CheckFails(c)
    BY <1>2, <1>3, BoundedReply DEF CheckFails
  <1> QED
    BY <1>2, <1>3, GetDecisionStale, GetPermissionsStale, GetUserRolesStale,
       GetRolePermissionsStale, GetOverridesForUserStale, GetAclStale, CountAclStale,
       TiersStale

-----------------------------------------------------------------------------
(* The steps of the specification *)
LEMMA CheckStepStale ==
  ASSUME TypeOK, TypeOK', StaleInv, age' = AgesUpon(age, db'),
         NEW c \in Checks, CheckStep(c) \/ CheckFails(c)
  PROVE  StaleInv'
  <1>1. db' = db /\ subject' = subject /\ scope' = scope
    BY DEF CheckStep, GetDecision, GetPermissions, GetUserRoles, GetRolePermissions,
           GetOverridesForUser, SetPermissions, GetAcl, CountAcl, SetAcl, SetDecision,
           PermsTier, DecisionTier, CheckFails, CheckOnly
  <1>2. age' = age /\ AgesOK'
    BY <1>1, SameAges, StepAges DEF StaleInv
  <1>3. Quiet(c)
    BY <1>1, <1>2 DEF Quiet
  <1>4. EntriesBounded' /\ ChecksBounded'
    BY <1>3, ReadStale, SetPermissionsStale, SetAclStale, SetDecisionStale DEF CheckStep
  <1> QED
    BY <1>2, <1>4 DEF StaleInv

LEMMA StartStale ==
  ASSUME TypeOK, TypeOK', StaleInv, age' = AgesUpon(age, db'),
         NEW c \in Checks, NEW u \in Users, NEW s \in Scopes,
         Check(c, u, s) \/ IsAllowed(c, u, s)
  PROVE  StaleInv'
  <1>0. PICK label \in {"decision", "permsTier"} : Begin(c, u, s, label)
    BY DEF Check, IsAllowed
  <1>1. db' = db /\ cache' = cache /\ elapsed' = elapsed /\ seen' = seen
    BY <1>0 DEF Begin
  <1>2. age' = age /\ AgesOK'
    BY <1>1, SameAges, StepAges DEF StaleInv
  <1>3. EntriesBounded'
    <2>1. EntriesBounded
      BY DEF StaleInv
    <2> QED
      BY <1>1, <1>2, <2>1 DEF EntriesBounded, Present, EntryWindow, AnswerWindow, SourceWindow
  <1>4. ASSUME NEW b \in Checks
        PROVE  CheckBounded(b)'
    <2>1. CASE b = c
      <3>1. pc'[b] = label
        BY <1>0, <2>1 DEF Begin, Goto, TypeOK, ChecksOK
      <3> QED
        BY <3>1 DEF CheckBounded
    <2>2. CASE b # c
      <3>1. pc'[b] = pc[b] /\ subject'[b] = subject[b] /\ scope'[b] = scope[b]
        BY <1>0, <2>2 DEF Begin, Goto, TypeOK, ChecksOK
      <3>2. CheckBounded(b)
        BY DEF StaleInv, ChecksBounded
      <3> QED
        BY <1>1, <1>2, <3>1, <3>2 DEF CheckBounded, SourceWindow
    <2> QED
      BY <2>1, <2>2
  <1> QED
    BY <1>2, <1>3, <1>4 DEF StaleInv, ChecksBounded

\* A request or a handler changes rows and drops entries; it leaves checks alone.
LEMMA OtherStale ==
  ASSUME TypeOK, TypeOK', StaleInv, age' = AgesUpon(age, db'), UNCHANGED checkVars,
         \A k \in Key : cache'[k] = cache[k] \/ ~Present(k)'
  PROVE  StaleInv'
  <1>1. AgesOK /\ AgesOK' /\ NotOlder(0) /\ EntriesBounded /\ ChecksBounded
    BY StepAges DEF StaleInv
  <1>2. ASSUME NEW k \in Key, Present(k)'
        PROVE  Justified(age[k[1]], k[2], cache[k].val, EntryWindow(k[2]) - cache[k].ttl)'
    <2>1. cache'[k] = cache[k] /\ cache[k].ttl \in Nat
      BY <1>2, EntryFact
    <2>2. cache'[k].val = cache[k].val /\ cache'[k].ttl + 0 =< cache[k].ttl
      BY <2>1
    <2> QED
      BY <1>1, <1>2, <2>2, EntryKept
  <1>3. ASSUME NEW c \in Checks
        PROVE  CheckBounded(c)'
    <2>1. elapsed'[c] = elapsed[c] + 0
      BY DEF checkVars, TypeOK, ChecksOK
    <2> QED
      BY <1>1, <2>1, CheckKept DEF checkVars, ChecksBounded
  <1> QED
    BY <1>1, <1>2, <1>3 DEF StaleInv, EntriesBounded, ChecksBounded

LEMMA RequestStale ==
  ASSUME TypeOK, TypeOK', StaleInv, age' = AgesUpon(age, db'),
         \/ \E r \in Requests : Request(r) \/ Commit(r) \/ Rollback(r)
         \/ \E u \in Users : RoleExpires(u)
  PROVE  StaleInv'
  <1>1. RequestOnly
    BY DEF Request, UpdateUserRoles, ChangeOverride, UpdateRolePermissions, ChangeAcl,
           SetActivation, CountUserRoles, RemoveRole, SaveAndEmit, Commit, Rollback, RoleExpires
  <1> QED
    BY <1>1, OtherStale DEF RequestOnly, checkVars

LEMMA HandlerStale ==
  ASSUME TypeOK, TypeOK', StaleInv, age' = AgesUpon(age, db'), NEW r \in Requests,
         Handle(r) \/ LoseEvent(r) \/ Redeliver(r)
  PROVE  StaleInv'
  <1>1. UNCHANGED checkVars
    BY DEF Handle, DelUserPerms, ScanPerms, DelPerms, ScanAuthz, DelAuthz, InvalidateAclCache,
           InvalidateAuthzDecision, HandlerStep, LoseEvent, Redeliver
  <1>2. cache' = cache \/ \E ks : Del(ks)
    BY DEF Handle, DelUserPerms, ScanPerms, DelPerms, ScanAuthz, DelAuthz, InvalidateAclCache,
           InvalidateAuthzDecision, Collect, LoseEvent, Redeliver
  <1>3. \A k \in Key : cache'[k] = cache[k] \/ ~Present(k)'
    BY <1>2 DEF Del, Present, NoEntry
  <1> QED
    BY <1>1, <1>3, OtherStale

LEMMA TickStale ==
  ASSUME TypeOK, TypeOK', StaleInv, Tick, age' = AgesAfterTick(age, db)
  PROVE  StaleInv'
  <1>1. AgesOK /\ AgesOK' /\ NotOlder(1) /\ EntriesBounded /\ ChecksBounded
    BY TickAges DEF StaleInv, Tick
  <1>2. ASSUME NEW k \in Key, Present(k)'
        PROVE  Justified(age[k[1]], k[2], cache[k].val, EntryWindow(k[2]) - cache[k].ttl)'
    <2>1. cache[k].ttl \in Nat
      BY EntryFact
    <2>2. cache[k].ttl > 1 /\ cache'[k] = [cache[k] EXCEPT !.ttl = @ - 1]
      BY <1>2 DEF Tick, Present, NoEntry
    <2>3. cache'[k].val = cache[k].val /\ cache'[k].ttl + 1 =< cache[k].ttl
      BY <2>1, <2>2 DEF TypeOK, CacheOK, Entry
    <2> QED
      BY <1>1, <1>2, <2>3, EntryKept
  <1>3. ASSUME NEW c \in Checks
        PROVE  CheckBounded(c)'
    <2>1. pc[c] = "idle" \/ elapsed'[c] = elapsed[c] + 1
      BY DEF Tick
    <2> QED
      BY <1>1, <2>1, CheckKept DEF Tick, ChecksBounded
  <1> QED
    BY <1>1, <1>2, <1>3 DEF StaleInv, EntriesBounded, ChecksBounded

LEMMA NextStaleInv ==
  ASSUME TypeOK, TypeOK', StaleInv, [ANext]_<<vars, age>>
  PROVE  StaleInv'
  <1>1. CASE Step /\ age' = AgesUpon(age, db')
    BY <1>1, StartStale, CheckStepStale, RequestStale, HandlerStale DEF Step
  <1>2. CASE Tick /\ age' = AgesAfterTick(age, db)
    BY <1>2, TickStale
  <1>3. CASE UNCHANGED <<vars, age>>
    BY <1>3 DEF StaleInv, AgesOK, EntriesBounded, Present, ChecksBounded, CheckBounded,
                EntryWindow, AnswerWindow, SourceWindow, vars, checkVars
  <1> QED
    BY <1>1, <1>2, <1>3 DEF ANext

\* AuthzStaleness takes the steps of AuthzCache.
LEMMA TypeCorrectWithAges == ASpec => []TypeOK
  <1>1. AInit => TypeOK
    BY InitTypeOK DEF AInit
  <1>2. TypeOK /\ [ANext]_<<vars, age>> => TypeOK'
    <2>1. [ANext]_<<vars, age>> => [Next]_vars
      BY DEF ANext, Next
    <2> QED
      BY <2>1, NextTypeOK
  <1> QED
    BY <1>1, <1>2, PTL DEF ASpec

\* Whatever the TTLs, the number of users, checks and requests, and whatever
\* becomes of the events: every cache entry and every check in progress rests
\* on rows that were in the database within their window.
THEOREM StalenessBounded == ASpec => [](EntriesBounded /\ ChecksBounded)
  <1>1. AInit => StaleInv
    BY InitStaleInv
  <1>2. TypeOK /\ TypeOK' /\ StaleInv /\ [ANext]_<<vars, age>> => StaleInv'
    BY NextStaleInv
  <1>3. StaleInv => EntriesBounded /\ ChecksBounded
    BY DEF StaleInv
  <1> QED
    BY <1>1, <1>2, <1>3, TypeCorrectWithAges, PTL DEF ASpec

-----------------------------------------------------------------------------
(* The refinement: AuthzStaleness implements AuthzContract. *)

\* A check in progress has not answered.
Unanswered == \A c \in Checks : pc[c] # "idle" => answer[c] = "none"

\* What the callers wait for, as Contract is instantiated.
Asked == [c \in Checks |-> IF pc[c] = "idle" THEN <<>> ELSE <<subject[c], scope[c]>>]

LEMMA UnansweredStep ==
  ASSUME TypeOK, Unanswered, [ANext]_<<vars, age>>
  PROVE  Unanswered'
  <1>1. CASE UNCHANGED <<vars, age>>
    BY <1>1 DEF Unanswered, vars, checkVars
  <1>2. CASE Tick
    BY <1>2 DEF Tick, Unanswered
  <1>3. ASSUME NEW c \in Checks, NEW u \in Users, NEW s \in Scopes,
               Check(c, u, s) \/ IsAllowed(c, u, s)
        PROVE  Unanswered'
    BY <1>3 DEF Check, IsAllowed, Begin, Goto, Unanswered, TypeOK, ChecksOK
  <1>4. ASSUME NEW c \in Checks, CheckStep(c) \/ CheckFails(c)
        PROVE  Unanswered'
    <2>1. pc[c] # "idle" /\ \E l, v : Continue(c, l, v) \/ Reply(c, v)
      BY <1>4 DEF CheckStep, GetDecision, GetPermissions, GetUserRoles, GetRolePermissions,
                  GetOverridesForUser, SetPermissions, GetAcl, CountAcl, SetAcl, SetDecision,
                  PermsTier, DecisionTier, CheckFails
    <2> QED
      BY <2>1 DEF Continue, Reply, Goto, Unanswered, TypeOK, ChecksOK
  <1>5. CASE \/ \E r \in Requests : Request(r) \/ Commit(r) \/ Rollback(r)
             \/ \E u \in Users : RoleExpires(u)
             \/ \E r \in Requests : Handle(r) \/ LoseEvent(r) \/ Redeliver(r)
    <2>1. UNCHANGED checkVars
      BY <1>5 DEF Request, UpdateUserRoles, ChangeOverride, UpdateRolePermissions, ChangeAcl,
           SetActivation, CountUserRoles, RemoveRole, SaveAndEmit, Commit, Rollback, RoleExpires, RequestOnly,
           Handle, DelUserPerms, ScanPerms, DelPerms, ScanAuthz, DelAuthz, InvalidateAclCache,
           InvalidateAuthzDecision, HandlerStep, LoseEvent, Redeliver
    <2> QED
      BY <2>1 DEF checkVars, Unanswered
  <1> QED
    BY <1>1, <1>2, <1>3, <1>4, <1>5 DEF ANext, Step

\* The contract's definitions on rows and ages are those of AuthzAges.
LEMMA SameDefinitions ==
  /\ Contract!Fact = Fact /\ Contract!Row = Row /\ Contract!View = View
  /\ \A d : Contract!FirstAges(d) = FirstAges(d)
  /\ \A a, d : Contract!AgesUpon(a, d) = AgesUpon(a, d)
  /\ \A a, d : Contract!AgesAfterTick(a, d) = AgesAfterTick(a, d)
  /\ \A a, kind, v, n : Justified(a, kind, v, n) => Contract!Justified(a, kind, v, n)
  <1>1. Contract!Fact = Fact /\ Contract!Row = Row
    BY DEF Contract!Fact, Contract!Row, Fact, Row
  <1>2. Contract!View = View
    BY <1>1 DEF Contract!View, View, Contract!RowsOf, RowsOf
  <1>3. \A w, kind : Contract!Decides(kind, w) = Decides(kind, w)
    BY DEF Contract!Decides, Decides, Contract!Granted, Granted, Contract!RoleGrants,
           RoleGrants, Contract!Effective, Effective
  <1>4. ASSUME NEW a, NEW kind, NEW v, NEW n, Justified(a, kind, v, n)
        PROVE  Contract!Justified(a, kind, v, n)
    BY <1>1, <1>2, <1>3, <1>4
    DEF Contract!Justified, Justified, Contract!HeldWithin, HeldWithin
  <1>5. /\ \A d : Contract!FirstAges(d) = FirstAges(d)
        /\ \A a, d : Contract!AgesUpon(a, d) = AgesUpon(a, d)
    BY <1>1 DEF Contract!FirstAges, FirstAges, Contract!AgesUpon, AgesUpon
  <1>6. \A a, d : Contract!AgesAfterTick(a, d) = AgesAfterTick(a, d)
    BY <1>1 DEF Contract!AgesAfterTick, AgesAfterTick, Contract!Min2, Min2
  <1> QED
    BY <1>1, <1>2, <1>4, <1>5, <1>6

LEMMA ContractInit == AInit => Contract!CInit
  <1> SUFFICES ASSUME AInit PROVE Contract!CInit
    OBVIOUS
  <1>1. db \in [Users -> [Contract!Fact -> Contract!Row]]
    BY SameDefinitions, ConstantsAssumption DEF AInit, Init, View
  <1>2. age = Contract!FirstAges(db)
    BY SameDefinitions DEF AInit
  <1>3. pc = [c \in Checks |-> "idle"] /\ answer = [c \in Checks |-> "none"]
    BY DEF AInit, Init
  <1>4. Asked = [c \in Checks |-> Contract!NotAsked]
    BY <1>3 DEF Asked, Contract!NotAsked
  <1> QED
    BY <1>1, <1>2, <1>3, <1>4 DEF Contract!CInit, Asked

\* A check that neither starts nor answers, a request, a handler and the clock
\* are ChangeRows, TimePasses or nothing to the callers.
LEMMA ContractQuiet ==
  ASSUME NEW c \in Checks, Quiet(c), pc[c] # "idle",
         NEW l, l # "idle", NEW v, Continue(c, l, v)
  PROVE  UNCHANGED Contract!contractVars
  <1>1. \A b \in Checks : (pc'[b] = "idle") = (pc[b] = "idle")
    BY MoveFact
  <1>2. Asked' = Asked
    BY <1>1 DEF Asked, Quiet
  <1> QED
    BY <1>2 DEF Contract!contractVars, Asked, Quiet, Continue

LEMMA ContractAnswer ==
  ASSUME NEW c \in Checks, Quiet(c), pc[c] # "idle", NEW v \in BOOLEAN,
         Reply(c, IF v THEN "allow" ELSE "deny"),
         Justified(age[subject[c]], scope[c], v, AnswerWindow - 1)
  PROVE  Contract!AnswerCaller(c, v)
  <1>1. pc' = [pc EXCEPT ![c] = "idle"]
    BY DEF Reply, Goto
  <1>2. Asked' = [Asked EXCEPT ![c] = <<>>]
    BY <1>1 DEF Asked, Quiet, TypeOK, ChecksOK
  <1>3. Asked[c] = <<subject[c], scope[c]>> /\ Asked[c] # <<>>
    BY DEF Asked
  <1>4. Contract!Justified(age[Asked[c][1]], Asked[c][2], v, AnswerWindow - 1)
    BY <1>3, SameDefinitions
  <1>5. answer' = [answer EXCEPT ![c] = IF v THEN "allow" ELSE "deny"]
    BY DEF Reply
  <1>6. UNCHANGED <<db, age>>
    BY DEF Quiet
  <1> QED
    BY <1>2, <1>3, <1>4, <1>5, <1>6 DEF Contract!AnswerCaller, Contract!NotAsked, Asked

\* The SDK's answer from a permission set that decides the call.
LEMMA ContractAnswerByPerms ==
  ASSUME NEW c \in Checks, Quiet(c), pc[c] # "idle", NEW v \in BOOLEAN,
         v \/ scope[c] = "plain", Reply(c, IF v THEN "allow" ELSE "deny"),
         Justified(age[subject[c]], "perms", v, EntryWindow("perms") - 1)
  PROVE  Contract!AnswerCaller(c, v)
  <1> DEFINE n == EntryWindow("perms") - 1
             m == AnswerWindow - 1
  <1>1. n \in Int /\ m \in Int /\ n =< m
    BY OwnElapsed
  <1>2. Justified(age[subject[c]], "perms", v, n)
    OBVIOUS
  <1> HIDE DEF n, m
  <1>3. Justified(age[subject[c]], "perms", v, m)
    BY <1>1, <1>2, CheckFact, JustifiedWeaker
  <1>4. Justified(age[subject[c]], scope[c], v, m)
    BY <1>3, CheckFact, JustifiedByPerms
  <1> QED
    BY <1>4, ContractAnswer DEF m

LEMMA ContractFail ==
  ASSUME NEW c \in Checks, Quiet(c), Unanswered, CheckFails(c)
  PROVE  Contract!FailCaller(c)
  <1>1. pc' = [pc EXCEPT ![c] = "idle"] /\ pc[c] # "idle"
    BY DEF CheckFails, Reply, Goto
  <1>2. Asked' = [Asked EXCEPT ![c] = <<>>]
    BY <1>1 DEF Asked, Quiet, TypeOK, ChecksOK
  <1>3. Asked[c] # <<>>
    BY <1>1 DEF Asked
  <1>4. answer' = answer
    <2>1. answer' = [answer EXCEPT ![c] = "none"] /\ answer[c] = "none"
      BY <1>1 DEF CheckFails, Reply, Unanswered
    <2> QED
      BY <2>1 DEF Quiet, TypeOK, ChecksOK
  <1>5. UNCHANGED <<db, age>>
    BY DEF Quiet
  <1> QED
    BY <1>2, <1>3, <1>4, <1>5 DEF Contract!FailCaller, Contract!NotAsked, Asked

LEMMA ContractCheckStep ==
  ASSUME NEW c \in Checks, Quiet(c), Unanswered, CheckStep(c) \/ CheckFails(c)
  PROVE  \/ UNCHANGED Contract!contractVars
         \/ \E v \in BOOLEAN : Contract!AnswerCaller(c, v)
         \/ Contract!FailCaller(c)
  <1> DEFINE k == <<subject[c], scope[c]>>
  <1>1. CASE GetDecision(c) /\ Present(k)
    <2>1. /\ cache[k].val \in BOOLEAN
          /\ Justified(age[subject[c]], scope[c], cache[k].val, EntryWindow(scope[c]) - 1)
      BY <1>1, CheckFact, ReadOwn
    <2>2. EntryWindow(scope[c]) = AnswerWindow
      BY CheckFact, WindowOf
    <2>3. pc[c] # "idle" /\ Reply(c, IF cache[k].val THEN "allow" ELSE "deny")
      BY <1>1 DEF GetDecision
    <2> HIDE DEF k
    <2> QED
      BY <2>1, <2>2, <2>3, ContractAnswer
  <1>2. CASE SetDecision(c)
    <2> DEFINE n == SourceWindow - 1 + elapsed[c]
               m == AnswerWindow - 1
    <2>1. Justified(age[subject[c]], scope[c], seen[c], n)
      BY <1>2, CheckFact DEF CheckBounded, SetDecision
    <2>2. n \in Int /\ m \in Int /\ n =< m
      BY OwnElapsed
    <2> HIDE DEF n
    <2>3. Justified(age[subject[c]], scope[c], seen[c], m)
      <3> HIDE DEF m
      <3> QED
        BY <2>1, <2>2, CheckFact, JustifiedWeaker
    <2>4. pc[c] # "idle" /\ Reply(c, IF seen[c] THEN "allow" ELSE "deny")
      BY <1>2 DEF SetDecision
    <2> QED
      BY <2>3, <2>4, CheckFact, ContractAnswer
  <1>3. CASE CheckFails(c)
    BY <1>3, ContractFail
  <1>4. CASE \/ GetDecision(c) /\ ~Present(k)
             \/ GetPermissions(c) \/ GetUserRoles(c) \/ GetRolePermissions(c)
             \/ GetOverridesForUser(c) \/ SetPermissions(c) \/ GetAcl(c)
             \/ CountAcl(c) \/ SetAcl(c)
    <2>1. pc[c] # "idle" /\ \E l, v : l # "idle" /\ Continue(c, l, v)
      <3>1. CASE GetPermissions(c) \/ SetPermissions(c)
        BY <3>1 DEF GetPermissions, SetPermissions, AfterPerms
      <3>2. CASE \/ GetDecision(c) /\ ~Present(k)
                 \/ GetUserRoles(c) \/ GetRolePermissions(c) \/ GetOverridesForUser(c)
        BY <3>2 DEF GetDecision, GetUserRoles, GetRolePermissions, GetOverridesForUser
      <3>3. CASE GetAcl(c) \/ CountAcl(c) \/ SetAcl(c)
        BY <3>3 DEF GetAcl, CountAcl, SetAcl
      <3> QED
        BY <1>4, <3>1, <3>2, <3>3
    <2> QED
      BY <2>1, ContractQuiet
  <1>5. CASE DecisionTier(c) /\ Present(k) /\ Reply(c, IF cache[k].val THEN "allow" ELSE "deny")
    <2>1. /\ cache[k].val \in BOOLEAN
          /\ Justified(age[subject[c]], scope[c], cache[k].val, EntryWindow(scope[c]) - 1)
      BY <1>5, CheckFact, ReadOwn
    <2>2. EntryWindow(scope[c]) = AnswerWindow
      BY CheckFact, WindowOf
    <2>3. pc[c] # "idle"
      BY <1>5 DEF DecisionTier
    <2> HIDE DEF k
    <2> QED
      BY <1>5, <2>1, <2>2, <2>3, ContractAnswer
  <1>6. CASE /\ PermsTier(c)
             /\ \E l \in {<<subject[c], "perms">>} :
                   /\ Present(l) /\ (cache[l].val \/ scope[c] = "plain")
                   /\ Reply(c, IF cache[l].val THEN "allow" ELSE "deny")
    <2> DEFINE l == <<subject[c], "perms">>
    <2>1. /\ cache[l].val \in BOOLEAN
          /\ Justified(age[subject[c]], "perms", cache[l].val, EntryWindow("perms") - 1)
      BY <1>6, ReadOwn
    <2>2. (cache[l].val \/ scope[c] = "plain") /\ Reply(c, IF cache[l].val THEN "allow" ELSE "deny")
      BY <1>6
    <2>3. pc[c] # "idle"
      BY <1>6 DEF PermsTier
    <2> HIDE DEF l
    <2> QED
      BY <2>1, <2>2, <2>3, ContractAnswerByPerms
  <1>7. CASE \/ PermsTier(c) /\ Continue(c, "decisionTier", FALSE)
             \/ DecisionTier(c) /\ Continue(c, "decision", FALSE)
    <2>1. pc[c] # "idle"
      BY <1>7 DEF PermsTier, DecisionTier
    <2> QED
      BY <1>7, <2>1, ContractQuiet
  <1>8. CASE PermsTier(c)
    BY <1>6, <1>7, <1>8 DEF PermsTier
  <1>9. CASE DecisionTier(c)
    BY <1>5, <1>7, <1>9 DEF DecisionTier
  <1> QED
    BY <1>1, <1>2, <1>3, <1>4, <1>8, <1>9 DEF CheckStep

LEMMA ContractStart ==
  ASSUME TypeOK, TypeOK', AgesOK, age' = AgesUpon(age, db'),
         NEW c \in Checks, NEW u \in Users, NEW s \in Scopes,
         Check(c, u, s) \/ IsAllowed(c, u, s)
  PROVE  Contract!Ask(c, u, s)
  <1>0. PICK label \in {"decision", "permsTier"} : Begin(c, u, s, label)
    BY DEF Check, IsAllowed
  <1>1. UNCHANGED <<db, age>>
    BY <1>0, SameAges DEF Begin
  <1>2. pc[c] = "idle" /\ pc' = [pc EXCEPT ![c] = label]
        /\ subject' = [subject EXCEPT ![c] = u] /\ scope' = [scope EXCEPT ![c] = s]
        /\ answer' = [answer EXCEPT ![c] = "none"]
    BY <1>0 DEF Begin, Goto
  <1>3. Asked[c] = <<>>
    BY <1>2 DEF Asked
  <1>4. Asked' = [Asked EXCEPT ![c] = <<u, s>>]
    BY <1>2 DEF Asked, TypeOK, ChecksOK
  <1> QED
    BY <1>1, <1>2, <1>3, <1>4 DEF Contract!Ask, Contract!NotAsked, Asked

\* The steps outside the checks leave the callers alone.
LEMMA ContractOutside ==
  ASSUME TypeOK',
         \/ UNCHANGED checkVars /\ age' = AgesUpon(age, db')
         \/ Tick /\ age' = AgesAfterTick(age, db)
  PROVE  Contract!ChangeRows \/ Contract!TimePasses
  <1>1. Asked' = Asked /\ answer' = answer
    BY DEF Asked, checkVars, Tick
  <1>2. CASE UNCHANGED checkVars /\ age' = AgesUpon(age, db')
    <2>1. db' \in [Users -> [Contract!Fact -> Contract!Row]]
      BY SameDefinitions DEF TypeOK, DbOK, View
    <2> QED
      BY <1>1, <1>2, <2>1, SameDefinitions DEF Contract!ChangeRows, Asked
  <1>3. CASE Tick /\ age' = AgesAfterTick(age, db)
    BY <1>1, <1>3, SameDefinitions DEF Contract!TimePasses, Asked, Tick
  <1> QED
    BY <1>2, <1>3

LEMMA ContractStep ==
  ASSUME TypeOK, TypeOK', StaleInv, StaleInv', Unanswered, [ANext]_<<vars, age>>
  PROVE  [Contract!CNext]_(Contract!contractVars)
  <1>1. ASSUME NEW c \in Checks, NEW u \in Users, NEW s \in Scopes,
               Check(c, u, s) \/ IsAllowed(c, u, s), age' = AgesUpon(age, db')
        PROVE  Contract!CNext
    BY <1>1, ContractStart DEF StaleInv, Contract!CNext
  <1>2. ASSUME NEW c \in Checks, CheckStep(c) \/ CheckFails(c), age' = AgesUpon(age, db')
        PROVE  [Contract!CNext]_(Contract!contractVars)
    <2>1. db' = db /\ subject' = subject /\ scope' = scope
      BY <1>2 DEF CheckStep, GetDecision, GetPermissions, GetUserRoles, GetRolePermissions,
             GetOverridesForUser, SetPermissions, GetAcl, CountAcl, SetAcl, SetDecision,
             PermsTier, DecisionTier, CheckFails, CheckOnly
    <2>2. Quiet(c)
      BY <1>2, <2>1, SameAges DEF Quiet, StaleInv
    <2> QED
      BY <1>2, <2>2, ContractCheckStep DEF Contract!CNext
  <1>3. ASSUME \/ \E r \in Requests : Request(r) \/ Commit(r) \/ Rollback(r)
               \/ \E u \in Users : RoleExpires(u)
               \/ \E r \in Requests : Handle(r) \/ LoseEvent(r) \/ Redeliver(r),
               age' = AgesUpon(age, db')
        PROVE  Contract!CNext
    <2>1. UNCHANGED checkVars
      BY <1>3 DEF Request, UpdateUserRoles, ChangeOverride, UpdateRolePermissions, ChangeAcl,
           SetActivation, CountUserRoles, RemoveRole, SaveAndEmit, Commit, Rollback, RoleExpires, RequestOnly,
           Handle, DelUserPerms, ScanPerms, DelPerms, ScanAuthz, DelAuthz, InvalidateAclCache,
           InvalidateAuthzDecision, HandlerStep, LoseEvent, Redeliver
    <2> QED
      BY <1>3, <2>1, ContractOutside DEF Contract!CNext
  <1>4. CASE Tick /\ age' = AgesAfterTick(age, db)
    BY <1>4, ContractOutside DEF Contract!CNext
  <1>5. CASE UNCHANGED <<vars, age>>
    BY <1>5 DEF vars, checkVars, Contract!contractVars
  <1> QED
    BY <1>1, <1>2, <1>3, <1>4, <1>5 DEF ANext, Step

\* check and isAllowed keep the promise of AuthzContract: an answer
\* rests on rows that were all in the database within AnswerWindow.
THEOREM Implements == ASpec => KeepsContract
  <1>1. AInit => StaleInv /\ Unanswered
    BY InitStaleInv DEF AInit, Init, Unanswered
  <1>2. TypeOK /\ TypeOK' /\ StaleInv /\ [ANext]_<<vars, age>> => StaleInv'
    BY NextStaleInv
  <1>3. TypeOK /\ Unanswered /\ [ANext]_<<vars, age>> => Unanswered'
    BY UnansweredStep
  <1>4. TypeOK /\ TypeOK' /\ StaleInv /\ StaleInv' /\ Unanswered /\ [ANext]_<<vars, age>>
            => [Contract!CNext]_(Contract!contractVars)
    BY ContractStep
  <1> QED
    BY <1>1, <1>2, <1>3, <1>4, ContractInit, TypeCorrectWithAges, PTL
    DEF ASpec, KeepsContract, Contract!CSpec
=============================================================================
