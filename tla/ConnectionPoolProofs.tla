------------------------- MODULE ConnectionPoolProofs -------------------------
(***************************************************************************)
(* However many requests and connections there are: each connection comes  *)
(* back exactly once, without the role, tenant or transaction of the       *)
(* request that had it, and a handler sees what its caller may see.        *)
(***************************************************************************)
EXTENDS ConnectionPool, FiniteSetTheorems, TLAPS

Labels == Waiting \cup InTx \cup OnOwn \cup {"idle", "guards"}

TypesInv ==
    /\ pc \in [Requests -> Labels]
    /\ caller \in [Requests -> Tenants \cup {SuperAdmin, Public}]
    /\ tx \in [Requests -> Conns \cup {None}] /\ own \in [Requests -> Conns \cup {None}]
    /\ free \subseteq Conns /\ leaked \subseteq Conns
    /\ session \in [Conns -> Session]
    /\ queue \in Seq(Requests)

\* Where a request is tells which connections it has.
HoldsInv == \A r \in Requests :
    /\ pc[r] \in InTx <=> tx[r] # None
    /\ pc[r] \in OnOwn <=> own[r] # None

\* Who is in the queue waits, and is in it once.
QueueInv ==
    /\ \A n \in 1 .. Len(queue) : pc[queue[n]] \in Waiting
    /\ \A m, n \in 1 .. Len(queue) : queue[m] = queue[n] => m = n

\* Conserved, request by request.
OwnedInv ==
    /\ \A c \in Conns : c \in free \/ c \in leaked \/ \E r \in Requests : tx[r] = c \/ own[r] = c
    /\ free \cap leaked = {}
    /\ \A r \in Requests : tx[r] \notin free \cup leaked /\ own[r] \notin free \cup leaked
    /\ \A q, r \in Requests :
          /\ tx[q] = own[r] => tx[q] = None
          /\ tx[q] = tx[r] /\ q # r => tx[q] = None
          /\ own[q] = own[r] /\ q # r => own[q] = None

OwnersInv == TypesInv /\ HoldsInv /\ QueueInv /\ OwnedInv

-----------------------------------------------------------------------------
\* A connection as it may be handed to anyone.
Clean(s) == s.role = "iam_app" /\ s.tenant = None /\ ~s.open

\* What SetUp makes of one.
Scope(who) ==
    [role |-> IF who \in Tenants THEN "iam_tenant_user"
              ELSE IF who = SuperAdmin THEN "iam_superadmin" ELSE "iam_app",
     tenant |-> IF who \in Tenants THEN who ELSE None,
     open |-> TRUE, began |-> "iam_app"]

Scoped == {"handler", "awaitOwn", "own", "commit", "rollback"}

RequestInv(r) ==
    /\ pc[r] \in OnOwn => Clean(session[own[r]])
    /\ pc[r] = "setup" => Clean(session[tx[r]])
    /\ pc[r] \in Scoped => session[tx[r]] = Scope(caller[r])
    /\ pc[r] = "release" => session[tx[r]].tenant = None /\ ~session[tx[r]].open

SessionInv ==
    /\ \A c \in free : Clean(session[c])
    /\ \A r \in Requests : RequestInv(r)

PoolInv == OwnersInv /\ SessionInv

-----------------------------------------------------------------------------
LEMMA InitPoolInv == Init => PoolInv
  <1> SUFFICES ASSUME Init PROVE PoolInv
    OBVIOUS
  <1>1. TypesInv
    BY DEF Init, TypesInv, Labels, Session, Fresh
  <1>2. HoldsInv /\ QueueInv
    BY DEF Init, HoldsInv, QueueInv, InTx, OnOwn
  <1>3. OwnedInv
    BY PoolAssumption DEF Init, OwnedInv
  <1>4. SessionInv
    BY DEF Init, SessionInv, RequestInv, Clean, Fresh, OnOwn, Scoped
  <1> QED
    BY <1>1, <1>2, <1>3, <1>4 DEF PoolInv, OwnersInv

-----------------------------------------------------------------------------
\* Who waits has nothing of what he waits for.
LEMMA WaitingFact ==
  ASSUME OwnersInv, NEW r \in Requests
  PROVE  /\ pc[r] = "awaitTx" => tx[r] = None /\ own[r] = None
         /\ pc[r] = "guards" => tx[r] = None /\ own[r] = None
         /\ pc[r] = "awaitGuard" => tx[r] = None /\ own[r] = None
         /\ pc[r] \in {"awaitOwn", "handler"} => tx[r] \in Conns /\ own[r] = None
         /\ tx[r] \in Conns \cup {None} /\ own[r] \in Conns \cup {None}
  BY DEF OwnersInv, TypesInv, HoldsInv, InTx, OnOwn

\* Connection c goes to request h, which waits at label, whoever had it.
Moves(c, h, label) ==
    /\ c \in Conns /\ c \notin leaked /\ h \in Requests
    /\ own[h] = None /\ (label = "awaitTx" => tx[h] = None)
    /\ free' = free \ {c} /\ leaked' = leaked
    /\ \A q \in Requests :
        /\ tx'[q] = IF tx[q] = c THEN None ELSE IF q = h /\ label = "awaitTx" THEN c ELSE tx[q]
        /\ own'[q] = IF own[q] = c THEN None ELSE IF q = h /\ label # "awaitTx" THEN c ELSE own[q]

LEMMA OwnedMoves ==
  ASSUME OwnersInv, NEW c, NEW h, NEW label, Moves(c, h, label)
  PROVE  OwnedInv'
  <1>0. c # None
    BY PoolAssumption DEF Moves
  <1>1. tx'[h] = c \/ own'[h] = c
    <2>1. tx[h] = c => label # "awaitTx" /\ own'[h] = c
      BY <1>0 DEF Moves
    <2> QED
      BY <1>0, <2>1 DEF Moves
  <1>2. ASSUME NEW d \in Conns
        PROVE  d \in free' \/ d \in leaked' \/ \E q \in Requests : tx'[q] = d \/ own'[q] = d
    <2>1. CASE d = c
      BY <1>1, <2>1 DEF Moves
    <2>2. CASE d # c /\ d \notin free /\ d \notin leaked
      <3>1. PICK q \in Requests : tx[q] = d \/ own[q] = d
        BY <2>2 DEF OwnersInv, OwnedInv
      <3>2. d # None
        BY PoolAssumption
      <3> QED
        BY <2>2, <3>1, <3>2 DEF Moves
    <2> QED
      BY <2>1, <2>2 DEF Moves
  <1>3. /\ free' \cap leaked' = {}
        /\ \A q \in Requests : tx'[q] \notin free' \cup leaked' /\ own'[q] \notin free' \cup leaked'
    BY PoolAssumption DEF OwnersInv, TypesInv, OwnedInv, Moves
  <1>4. \A p, q \in Requests : tx'[p] = own'[q] => tx'[p] = None
    BY <1>0 DEF OwnersInv, OwnedInv, Moves
  <1>5. \A p, q \in Requests :
          /\ tx'[p] = tx'[q] /\ p # q => tx'[p] = None
          /\ own'[p] = own'[q] /\ p # q => own'[p] = None
    BY <1>0 DEF OwnersInv, OwnedInv, Moves
  <1> QED
    BY <1>2, <1>3, <1>4, <1>5 DEF OwnedInv

\* Connection c goes back to the pool, or is leaked.
LEMMA OwnedBack ==
  ASSUME OwnersInv, NEW c \in Conns, c \notin free \cup leaked,
         \/ free' = free \cup {c} /\ leaked' = leaked
         \/ free' = free /\ leaked' = leaked \cup {c},
         \A q \in Requests : /\ tx'[q] = IF tx[q] = c THEN None ELSE tx[q]
                             /\ own'[q] = IF own[q] = c THEN None ELSE own[q]
  PROVE  OwnedInv'
  <1>0. c # None
    BY PoolAssumption
  <1>1. ASSUME NEW d \in Conns
        PROVE  d \in free' \/ d \in leaked' \/ \E q \in Requests : tx'[q] = d \/ own'[q] = d
    BY <1>0 DEF OwnersInv, OwnedInv
  <1>2. /\ free' \cap leaked' = {}
        /\ \A q \in Requests : tx'[q] \notin free' \cup leaked' /\ own'[q] \notin free' \cup leaked'
    <2>1. free' \cup leaked' = (free \cup leaked) \cup {c}
      OBVIOUS
    <2>2. None \notin free' \cup leaked'
      BY <2>1, PoolAssumption DEF OwnersInv, TypesInv
    <2>3. free' \cap leaked' = {}
      BY DEF OwnersInv, OwnedInv
    <2> QED
      BY <2>1, <2>2, <2>3 DEF OwnersInv, OwnedInv
  <1>3. \A p, q \in Requests :
          /\ tx'[p] = own'[q] => tx'[p] = None
          /\ tx'[p] = tx'[q] /\ p # q => tx'[p] = None
          /\ own'[p] = own'[q] /\ p # q => own'[p] = None
    BY <1>0 DEF OwnersInv, OwnedInv
  <1> QED
    BY <1>1, <1>2, <1>3 DEF OwnedInv

\* What a request asks the pool for, from where.
Asks(r, label) ==
    /\ label \in Waiting
    /\ pc[r] = IF label = "awaitOwn" THEN "handler" ELSE "guards"

LEMMA TakeOwners ==
  ASSUME OwnersInv, NEW r \in Requests, NEW c \in free, NEW label, Asks(r, label),
         pc' = [pc EXCEPT ![r] = Granted(label)],
         free' = free \ {c}, Hand(r, c, label, tx, own),
         UNCHANGED <<caller, leaked, session, queue>>
  PROVE  OwnersInv'
  <1>1. c \in Conns /\ c # None /\ pc[r] \notin Waiting /\ label \in Waiting
    BY PoolAssumption DEF OwnersInv, TypesInv, Waiting, Asks
  <1>2. TypesInv'
    BY <1>1 DEF OwnersInv, TypesInv, Granted, Labels, Waiting, InTx, OnOwn, Hand
  <1>3. HoldsInv'
    BY <1>1, WaitingFact DEF OwnersInv, TypesInv, HoldsInv, Granted, Waiting, InTx, OnOwn, Hand, Asks
  <1>4. QueueInv'
    BY <1>1 DEF OwnersInv, TypesInv, QueueInv
  <1>5. c \notin leaked /\ \A q \in Requests : tx[q] # c /\ own[q] # c
    BY <1>1 DEF OwnersInv, OwnedInv
  <1>6. own[r] = None /\ (label = "awaitTx" => tx[r] = None)
    BY <1>1, WaitingFact DEF Asks, Waiting
  <1>8. \A q \in Requests :
          /\ tx'[q] = IF tx[q] = c THEN None ELSE IF q = r /\ label = "awaitTx" THEN c ELSE tx[q]
          /\ own'[q] = IF own[q] = c THEN None ELSE IF q = r /\ label # "awaitTx" THEN c ELSE own[q]
    BY <1>5 DEF Hand, OwnersInv, TypesInv
  <1>9. OwnedInv'
    BY <1>1, <1>5, <1>6, <1>8, OwnedMoves DEF Moves
  <1> QED
    BY <1>2, <1>3, <1>4, <1>9 DEF OwnersInv

LEMMA ConnectOwners ==
  ASSUME OwnersInv, NEW r \in Requests, NEW label, Asks(r, label), Connect(r, label)
  PROVE  OwnersInv'
  <1>1. ASSUME NEW c \in free, free' = free \ {c}, Hand(r, c, label, tx, own),
               Goto(r, Granted(label)), UNCHANGED queue
        PROVE  OwnersInv'
    BY <1>1, TakeOwners DEF Connect, Goto
  <1>2. CASE free = {} /\ Goto(r, label) /\ queue' = Append(queue, r) /\ UNCHANGED <<free, tx, own>>
    <2>1. pc' = [pc EXCEPT ![r] = label] /\ UNCHANGED <<caller, leaked, session>>
      BY <1>2 DEF Goto, Connect
    <2>2. label \in Waiting /\ pc[r] \notin Waiting
      BY DEF Asks, Waiting
    <2>3. TypesInv' /\ HoldsInv' /\ OwnedInv'
      BY <1>2, <2>1, <2>2, WaitingFact
      DEF OwnersInv, TypesInv, HoldsInv, OwnedInv, Labels, Waiting, InTx, OnOwn, Asks
    <2>4. /\ Len(queue') = Len(queue) + 1 /\ queue'[Len(queue) + 1] = r /\ Len(queue) \in Nat
          /\ \A n \in 1 .. Len(queue) : queue'[n] = queue[n] /\ queue[n] # r /\ queue[n] \in Requests
      BY <1>2, <2>2 DEF OwnersInv, TypesInv, QueueInv
    <2>5. QueueInv'
      <3>1. \A n \in 1 .. Len(queue') : n \in 1 .. Len(queue) \/ n = Len(queue) + 1
        BY <2>4
      <3>2. \A n \in 1 .. Len(queue') : pc'[queue'[n]] \in Waiting
        BY <2>1, <2>2, <2>4, <3>1 DEF OwnersInv, TypesInv, QueueInv
      <3>3. \A m, n \in 1 .. Len(queue') : queue'[m] = queue'[n] => m = n
        BY <2>4, <3>1 DEF OwnersInv, QueueInv
      <3> QED
        BY <3>2, <3>3 DEF QueueInv
    <2> QED
      BY <2>3, <2>5 DEF OwnersInv
  <1> QED
    BY <1>1, <1>2 DEF Connect

-----------------------------------------------------------------------------
\* A request that gives back connection c, and what it goes on with.
Returns(r, c, label, tx1, own1) ==
    \/ /\ pc[r] \in OnOwn /\ c = own[r] /\ label = IF pc[r] = "own" THEN "handler" ELSE "guards"
       /\ tx1 = tx /\ own1 = [own EXCEPT ![r] = None]
    \/ /\ pc[r] = "release" /\ c = tx[r] /\ label = "idle"
       /\ tx1 = [tx EXCEPT ![r] = None] /\ own1 = own

LEMMA ReturnsFact ==
  ASSUME OwnersInv, NEW r \in Requests, NEW c, NEW label, NEW tx1, NEW own1,
         Returns(r, c, label, tx1, own1)
  PROVE  /\ c \in Conns /\ c # None /\ c \notin free \cup leaked
         /\ pc[r] \notin Waiting
         /\ tx1 \in [Requests -> Conns \cup {None}] /\ own1 \in [Requests -> Conns \cup {None}]
         /\ \A q \in Requests : /\ tx1[q] = IF tx[q] = c THEN None ELSE tx[q]
                                /\ own1[q] = IF own[q] = c THEN None ELSE own[q]
  <1>1. c \in Conns /\ c # None
    BY PoolAssumption DEF Returns, OwnersInv, TypesInv, HoldsInv, InTx
  <1>2. c \notin free \cup leaked
    BY DEF Returns, OwnersInv, OwnedInv
  <1>3. tx1 \in [Requests -> Conns \cup {None}] /\ own1 \in [Requests -> Conns \cup {None}]
    BY DEF Returns, OwnersInv, TypesInv
  <1>4. \A q \in Requests : /\ tx1[q] = IF tx[q] = c THEN None ELSE tx[q]
                            /\ own1[q] = IF own[q] = c THEN None ELSE own[q]
    BY <1>1 DEF Returns, OwnersInv, TypesInv, OwnedInv
  <1> QED
    BY <1>1, <1>2, <1>3, <1>4 DEF Returns, OnOwn, Waiting

LEMMA ReleaseOwners ==
  ASSUME OwnersInv, NEW r \in Requests, NEW c, NEW label, NEW tx1, NEW own1,
         Returns(r, c, label, tx1, own1), Release(r, c, label, tx1, own1),
         caller' = caller, session' \in [Conns -> Session]
  PROVE  OwnersInv'
  <1>1. CASE queue = <<>> /\ Goto(r, label) /\ free' = free \cup {c}
             /\ tx' = tx1 /\ own' = own1 /\ UNCHANGED queue
    <2>1. leaked' = leaked /\ pc' = [pc EXCEPT ![r] = label]
      BY <1>1 DEF Release, Goto
    <2>2. OwnedInv'
      BY <1>1, <2>1, ReturnsFact, OwnedBack
    <2>3. TypesInv'
      <3>1. label \in Labels
        BY DEF Returns, Labels, InTx
      <3>2. free' \subseteq Conns /\ tx' \in [Requests -> Conns \cup {None}]
            /\ own' \in [Requests -> Conns \cup {None}]
        BY <1>1, ReturnsFact DEF OwnersInv, TypesInv
      <3> QED
        BY <1>1, <2>1, <3>1, <3>2 DEF OwnersInv, TypesInv
    <2>5. QueueInv'
      BY <1>1 DEF QueueInv
    <2>4. HoldsInv'
      BY <1>1, <2>1, ReturnsFact DEF OwnersInv, TypesInv, HoldsInv, Returns, InTx, OnOwn
    <2> QED
      BY <2>2, <2>3, <2>4, <2>5 DEF OwnersInv
  <1>2. CASE /\ queue # <<>> /\ queue' = Tail(queue) /\ UNCHANGED free
             /\ pc' = [pc EXCEPT ![r] = label, ![Head(queue)] = Granted(pc[Head(queue)])]
             /\ Hand(Head(queue), c, pc[Head(queue)], tx1, own1)
    <2> DEFINE h == Head(queue)
    <2>0. /\ c \in Conns /\ c # None /\ c \notin free \cup leaked /\ pc[r] \notin Waiting
          /\ tx1 \in [Requests -> Conns \cup {None}] /\ own1 \in [Requests -> Conns \cup {None}]
          /\ \A q \in Requests : /\ tx1[q] = IF tx[q] = c THEN None ELSE tx[q]
                                 /\ own1[q] = IF own[q] = c THEN None ELSE own[q]
      BY ReturnsFact
    <2>1. /\ queue \in Seq(Requests) /\ Len(queue) \in Nat \ {0} /\ h = queue[1] /\ h \in Requests
          /\ Len(queue') = Len(queue) - 1 /\ queue' \in Seq(Requests)
          /\ \A n \in 1 .. Len(queue') : queue'[n] = queue[n + 1]
      BY <1>2 DEF OwnersInv, TypesInv
    <2>2. pc[h] \in Waiting /\ h # r
      BY <2>1, <2>0 DEF OwnersInv, QueueInv
    <2>3. /\ own[h] = None
          /\ pc[h] = "awaitTx" => tx[h] = None
      BY <2>1, <2>2, WaitingFact DEF Waiting
    <2>4. leaked' = leaked /\ free' = free \ {c}
      BY <1>2, <2>0 DEF Release
    <2>5. \A q \in Requests :
            /\ tx'[q] = IF tx[q] = c THEN None ELSE IF q = h /\ pc[h] = "awaitTx" THEN c ELSE tx[q]
            /\ own'[q] = IF own[q] = c THEN None ELSE IF q = h /\ pc[h] # "awaitTx" THEN c ELSE own[q]
      <3>1. CASE pc[h] = "awaitTx"
        BY <1>2, <2>0, <2>1, <2>3, <3>1 DEF Hand
      <3>2. CASE pc[h] # "awaitTx"
        BY <1>2, <2>0, <2>1, <2>3, <3>2 DEF Hand
      <3> QED
        BY <3>1, <3>2
    <2>6. OwnedInv'
      <3>1. h \in Requests /\ own[h] = None /\ (pc[h] = "awaitTx" => tx[h] = None)
        BY <2>1, <2>3
      <3>2. Moves(c, h, pc[h])
        BY <2>0, <2>4, <2>5, <3>1 DEF Moves
      <3> QED
        BY <3>2, OwnedMoves
    <2>7. TypesInv'
      <3>1. label \in Labels /\ Granted(pc[h]) \in Labels
        BY <2>2 DEF Returns, Granted, Labels, Waiting, InTx, OnOwn
      <3>2. pc' \in [Requests -> Labels]
        BY <1>2, <3>1 DEF OwnersInv, TypesInv
      <3>3. tx' \in [Requests -> Conns \cup {None}] /\ own' \in [Requests -> Conns \cup {None}]
        <4>1. CASE pc[h] = "awaitTx"
          BY <1>2, <2>0, <4>1 DEF Hand
        <4>2. CASE pc[h] # "awaitTx"
          BY <1>2, <2>0, <4>2 DEF Hand
        <4> QED
          BY <4>1, <4>2
      <3> QED
        BY <1>2, <2>1, <2>4, <3>2, <3>3 DEF OwnersInv, TypesInv
    <2>8. HoldsInv'
      BY <1>2, <2>1, <2>2, <2>3, <2>5, <2>0
      DEF OwnersInv, TypesInv, HoldsInv, Returns, Granted, Waiting, InTx, OnOwn
    <2>9. QueueInv'
      <3>1. \A n \in 1 .. Len(queue') : n + 1 \in 1 .. Len(queue) /\ queue'[n] # h /\ queue'[n] # r
        BY <2>1, <2>0 DEF OwnersInv, QueueInv
      <3> QED
        BY <1>2, <2>1, <3>1 DEF OwnersInv, TypesInv, QueueInv
    <2> QED
      BY <2>6, <2>7, <2>8, <2>9 DEF OwnersInv
  <1> QED
    BY <1>1, <1>2 DEF Release

\* A step of r that leaves the pool alone, to label.
Stays(r, label) ==
    /\ pc' = [pc EXCEPT ![r] = label] /\ UNCHANGED <<tx, own, free, queue, leaked>>
    /\ pc[r] \in Labels \ Waiting /\ label \in Labels \ Waiting
    /\ label \in InTx <=> pc[r] \in InTx
    /\ label \in OnOwn <=> pc[r] \in OnOwn

LEMMA StaysOwners ==
  ASSUME OwnersInv, NEW r \in Requests, NEW label, Stays(r, label),
         caller' \in [Requests -> Tenants \cup {SuperAdmin, Public}],
         session' \in [Conns -> Session]
  PROVE  OwnersInv'
  <1>1. TypesInv'
    BY DEF OwnersInv, TypesInv, Stays
  <1>2. HoldsInv'
    BY DEF OwnersInv, TypesInv, HoldsInv, Stays
  <1>3. QueueInv'
    <2>1. \A n \in 1 .. Len(queue) : queue[n] \in Requests /\ queue[n] # r
      BY DEF OwnersInv, TypesInv, QueueInv, Stays
    <2> QED
      BY <2>1 DEF OwnersInv, TypesInv, QueueInv, Stays
  <1>4. OwnedInv'
    BY DEF OwnersInv, OwnedInv, Stays
  <1> QED
    BY <1>1, <1>2, <1>3, <1>4 DEF OwnersInv

-----------------------------------------------------------------------------
\* The session of a connection is changed only by the request that has it.
LEMMA StaysSession ==
  ASSUME OwnersInv, SessionInv, NEW r \in Requests, NEW label, Stays(r, label),
         \A q \in Requests \ {r} : caller'[q] = caller[q],
         \A c \in Conns : c # tx[r] => session'[c] = session[c],
         RequestInv(r)'
  PROVE  SessionInv'
  <1>1. ASSUME NEW c \in free PROVE session'[c] = session[c]
    BY DEF OwnersInv, TypesInv, OwnedInv
  <1>2. ASSUME NEW q \in Requests \ {r} PROVE RequestInv(q)'
    <2>1. pc'[q] = pc[q] /\ tx'[q] = tx[q] /\ own'[q] = own[q] /\ caller'[q] = caller[q]
      BY DEF Stays, OwnersInv, TypesInv
    <2>2. pc[q] \in InTx => session'[tx[q]] = session[tx[q]]
      BY DEF OwnersInv, TypesInv, HoldsInv, OwnedInv
    <2>3. pc[q] \in OnOwn => session'[own[q]] = session[own[q]]
      BY DEF OwnersInv, TypesInv, HoldsInv, OwnedInv
    <2>4. "setup" \in InTx /\ "release" \in InTx /\ Scoped \subseteq InTx
      BY DEF InTx, Scoped
    <2> QED
      BY <2>1, <2>2, <2>3, <2>4 DEF SessionInv, RequestInv
  <1> QED
    BY <1>1, <1>2 DEF SessionInv, Stays

LEMMA ConnectSession ==
  ASSUME OwnersInv, SessionInv, NEW r \in Requests, NEW label, Asks(r, label), Connect(r, label)
  PROVE  SessionInv'
  <1>1. ASSUME NEW c \in free, free' = free \ {c}, Hand(r, c, label, tx, own),
               Goto(r, Granted(label))
        PROVE  SessionInv'
    <2>1. \A q \in Requests \ {r} : pc'[q] = pc[q] /\ tx'[q] = tx[q] /\ own'[q] = own[q]
      BY <1>1 DEF Goto, Hand, OwnersInv, TypesInv
    <2>2. pc'[r] = Granted(label) /\ Clean(session[c])
      BY <1>1 DEF Goto, OwnersInv, TypesInv, SessionInv
    <2>3. RequestInv(r)'
      <3>1. CASE label = "awaitTx"
        <4>1. pc'[r] = "setup" /\ tx'[r] = c
          BY <1>1, <2>2, <3>1 DEF Granted, Hand, OwnersInv, TypesInv
        <4> QED
          BY <2>2, <4>1 DEF RequestInv, Connect, OnOwn, Scoped
      <3>2. CASE label = "awaitOwn"
        <4>1. pc'[r] = "own" /\ own'[r] = c /\ tx'[r] = tx[r] /\ pc[r] = "handler"
          BY <1>1, <2>2, <3>2 DEF Granted, Hand, OwnersInv, TypesInv, Asks
        <4> QED
          BY <2>2, <4>1 DEF SessionInv, RequestInv, Connect, OnOwn, Scoped
      <3>3. CASE label = "awaitGuard"
        <4>1. pc'[r] = "guardQuery" /\ own'[r] = c
          BY <1>1, <2>2, <3>3 DEF Granted, Hand, OwnersInv, TypesInv
        <4> QED
          BY <2>2, <4>1 DEF RequestInv, Connect, OnOwn, Scoped
      <3> QED
        BY <3>1, <3>2, <3>3 DEF Asks, Waiting
    <2> QED
      BY <1>1, <2>1, <2>3 DEF SessionInv, RequestInv, Connect
  <1>2. CASE Goto(r, label) /\ UNCHANGED <<free, tx, own>>
    <2>1. \A q \in Requests \ {r} : pc'[q] = pc[q]
      BY <1>2 DEF Goto, OwnersInv, TypesInv
    <2>2. pc'[r] = label /\ label \in Waiting /\ (label = "awaitOwn" => pc[r] = "handler")
      BY <1>2 DEF Goto, Asks, OwnersInv, TypesInv
    <2>3. RequestInv(r)'
      BY <1>2, <2>2 DEF SessionInv, RequestInv, Connect, OnOwn, Scoped, Waiting
    <2> QED
      BY <1>2, <2>1, <2>3 DEF SessionInv, RequestInv, Connect
  <1> QED
    BY <1>1, <1>2 DEF Connect

\* Who has connection c after r has given it back: nobody, or h.
LEMMA ReleaseSession ==
  ASSUME OwnersInv, SessionInv, NEW r \in Requests, NEW c, NEW label, NEW tx1, NEW own1,
         Returns(r, c, label, tx1, own1), Release(r, c, label, tx1, own1),
         caller' = caller, Clean(session'[c]),
         \A d \in Conns : d # c => session'[d] = session[d]
  PROVE  SessionInv'
  <1>0. /\ c \in Conns /\ c # None /\ c \notin free \cup leaked /\ pc[r] \notin Waiting
        /\ tx1 \in [Requests -> Conns \cup {None}] /\ own1 \in [Requests -> Conns \cup {None}]
        /\ \A q \in Requests : /\ tx1[q] = IF tx[q] = c THEN None ELSE tx[q]
                               /\ own1[q] = IF own[q] = c THEN None ELSE own[q]
    BY ReturnsFact
  <1>1. \A d \in free : session'[d] = session[d]
    BY <1>0 DEF OwnersInv, TypesInv
  <1>2. ASSUME NEW q \in Requests \ {r}, pc'[q] = pc[q], tx'[q] = tx1[q], own'[q] = own1[q]
        PROVE  RequestInv(q)'
    <2>1. tx[q] # c /\ own[q] # c
      BY <1>0 DEF Returns, OwnersInv, OwnedInv
    <2>2. pc[q] \in InTx => session'[tx[q]] = session[tx[q]]
      BY <2>1 DEF OwnersInv, TypesInv, HoldsInv
    <2>3. pc[q] \in OnOwn => session'[own[q]] = session[own[q]]
      BY <2>1 DEF OwnersInv, TypesInv, HoldsInv
    <2>4. "setup" \in InTx /\ "release" \in InTx /\ Scoped \subseteq InTx
      BY DEF InTx, Scoped
    <2> QED
      BY <1>0, <1>2, <2>1, <2>2, <2>3, <2>4 DEF SessionInv, RequestInv
  <1>3. ASSUME pc'[r] = label, tx'[r] = tx1[r], own'[r] = own1[r]
        PROVE  RequestInv(r)'
    <2>1. CASE pc[r] = "own"
      <3>1. pc'[r] = "handler" /\ tx'[r] = tx[r] /\ tx[r] # c /\ tx[r] \in Conns
        BY <1>0, <1>3, <2>1 DEF Returns, OwnersInv, TypesInv, HoldsInv, OwnedInv, InTx
      <3> QED
        BY <2>1, <3>1 DEF SessionInv, RequestInv, Scoped, OnOwn
    <2>2. CASE pc[r] # "own"
      <3>1. pc'[r] \in {"guards", "idle"}
        BY <1>3, <2>2 DEF Returns, OnOwn
      <3> QED
        BY <3>1 DEF RequestInv, Scoped, OnOwn
    <2> QED
      BY <2>1, <2>2
  <1>4. CASE Goto(r, label) /\ free' = free \cup {c} /\ tx' = tx1 /\ own' = own1
    <2>1. pc'[r] = label /\ \A q \in Requests \ {r} : pc'[q] = pc[q]
      BY <1>4 DEF Goto, OwnersInv, TypesInv
    <2> QED
      BY <1>1, <1>2, <1>3, <1>4, <2>1 DEF SessionInv
  <1>5. CASE /\ queue # <<>> /\ UNCHANGED free
             /\ pc' = [pc EXCEPT ![r] = label, ![Head(queue)] = Granted(pc[Head(queue)])]
             /\ Hand(Head(queue), c, pc[Head(queue)], tx1, own1)
    <2>1. Head(queue) \in Requests /\ pc[Head(queue)] \in Waiting
      BY <1>5 DEF OwnersInv, TypesInv, QueueInv
    <2>2. PICK h \in Requests : h = Head(queue) /\ pc[h] \in Waiting /\ h # r
      BY <1>0, <2>1
    <2>3. /\ pc'[r] = label /\ pc'[h] = Granted(pc[h])
          /\ \A q \in Requests \ {r, h} : pc'[q] = pc[q]
      BY <1>5, <2>2 DEF OwnersInv, TypesInv
    <2>4. /\ \A q \in Requests \ {h} : tx'[q] = tx1[q] /\ own'[q] = own1[q]
          /\ pc[h] = "awaitTx" => tx'[h] = c /\ own'[h] = own1[h]
          /\ pc[h] # "awaitTx" => own'[h] = c /\ tx'[h] = tx1[h]
      BY <1>0, <1>5, <2>2 DEF Hand
    <2>5. RequestInv(h)'
      <3>1. CASE pc[h] = "awaitTx"
        <4>1. pc'[h] = "setup" /\ tx'[h] = c
          BY <2>3, <2>4, <3>1 DEF Granted
        <4> QED
          BY <4>1 DEF RequestInv, OnOwn, Scoped
      <3>2. CASE pc[h] = "awaitOwn"
        <4>1. pc'[h] = "own" /\ own'[h] = c
          BY <2>3, <2>4, <3>2 DEF Granted
        <4>2. tx[h] # c /\ tx[h] \in Conns
          BY <1>0, <2>2, <3>2, WaitingFact DEF Returns, OwnersInv, OwnedInv
        <4>3. session'[tx'[h]] = session[tx[h]]
          BY <1>0, <2>4, <3>2, <4>2
        <4> QED
          BY <3>2, <4>1, <4>3 DEF SessionInv, RequestInv, OnOwn, Scoped
      <3>3. CASE pc[h] = "awaitGuard"
        <4>1. pc'[h] = "guardQuery" /\ own'[h] = c
          BY <2>3, <2>4, <3>3 DEF Granted
        <4> QED
          BY <4>1 DEF RequestInv, OnOwn, Scoped
      <3> QED
        BY <2>2, <3>1, <3>2, <3>3 DEF Waiting
    <2>6. \A q \in Requests : RequestInv(q)'
      BY <1>2, <1>3, <2>2, <2>3, <2>4, <2>5
    <2> QED
      BY <1>1, <1>5, <2>6 DEF SessionInv
  <1> QED
    BY <1>4, <1>5 DEF Release

-----------------------------------------------------------------------------
LEMMA ArriveInv ==
  ASSUME PoolInv, NEW r \in Requests, Arrive(r)
  PROVE  PoolInv'
  <1>1. Stays(r, "guards")
    BY DEF Arrive, Goto, Stays, Labels, Waiting, InTx, OnOwn
  <1>2. PICK who \in Callers[r] : caller' = [caller EXCEPT ![r] = who]
    BY DEF Arrive
  <1>3. /\ caller' \in [Requests -> Tenants \cup {SuperAdmin, Public}]
        /\ \A q \in Requests \ {r} : caller'[q] = caller[q]
    BY <1>2, PoolAssumption DEF PoolInv, OwnersInv, TypesInv
  <1>4. RequestInv(r)'
    BY <1>1 DEF Stays, PoolInv, OwnersInv, TypesInv, RequestInv, OnOwn, Scoped
  <1>5. session' = session /\ session \in [Conns -> Session]
    BY DEF Arrive, PoolInv, OwnersInv, TypesInv
  <1>6. OwnersInv'
    BY <1>1, <1>3, <1>5, StaysOwners DEF PoolInv
  <1>7. SessionInv'
    BY <1>1, <1>3, <1>4, <1>5, StaysSession DEF PoolInv
  <1> QED
    BY <1>6, <1>7 DEF PoolInv

\* The steps of a request that change nothing but where it is and its session.
LEMMA KeepInv ==
  ASSUME PoolInv, NEW r \in Requests, NEW label, Stays(r, label), caller' = caller,
         session' \in [Conns -> Session],
         \A c \in Conns : c # tx[r] => session'[c] = session[c],
         RequestInv(r)'
  PROVE  PoolInv'
  <1>1. caller' \in [Requests -> Tenants \cup {SuperAdmin, Public}]
    BY DEF PoolInv, OwnersInv, TypesInv
  <1>2. OwnersInv'
    BY <1>1, StaysOwners DEF PoolInv
  <1>3. SessionInv'
    BY StaysSession DEF PoolInv
  <1> QED
    BY <1>2, <1>3 DEF PoolInv

LEMMA ForbidInv ==
  ASSUME PoolInv, NEW r \in Requests, Forbid(r)
  PROVE  PoolInv'
  <1>1. Stays(r, "idle")
    BY DEF Forbid, Goto, Keep, Stays, Labels, Waiting, InTx, OnOwn
  <1>2. RequestInv(r)'
    BY <1>1 DEF Stays, PoolInv, OwnersInv, TypesInv, RequestInv, OnOwn, Scoped
  <1> QED
    BY <1>1, <1>2, KeepInv DEF Forbid, Keep, PoolInv, OwnersInv, TypesInv

LEMMA SetUpInv ==
  ASSUME PoolInv, NEW r \in Requests, SetUp(r)
  PROVE  PoolInv'
  <1>1. Stays(r, "handler") /\ caller' = caller
    BY DEF SetUp, Goto, Keep, Stays, Labels, Waiting, InTx, OnOwn
  <1>2. /\ tx[r] \in Conns /\ Clean(session[tx[r]]) /\ session[tx[r]] \in Session
        /\ caller[r] \in Tenants \cup {SuperAdmin, Public}
    BY DEF SetUp, PoolInv, OwnersInv, TypesInv, HoldsInv, InTx, SessionInv, RequestInv
  <1>3. session' = [session EXCEPT ![tx[r]] = Scope(caller[r])]
    <2>1. CASE caller[r] \in Tenants
      BY <1>2, <2>1, PoolAssumption DEF SetUp, Set, Scope, Clean
    <2>2. CASE caller[r] = SuperAdmin /\ caller[r] # Public
      BY <1>2, <2>2, PoolAssumption DEF SetUp, Set, Scope, Clean
    <2>3. CASE caller[r] = Public
      BY <1>2, <2>3, PoolAssumption DEF SetUp, Set, Scope, Clean
    <2> QED
      BY <1>2, <2>1, <2>2, <2>3
  <1>4. Scope(caller[r]) \in Session
    BY <1>2 DEF Scope, Session
  <1>5. /\ session' \in [Conns -> Session] /\ session'[tx[r]] = Scope(caller[r])
        /\ \A c \in Conns : c # tx[r] => session'[c] = session[c]
    BY <1>2, <1>3, <1>4 DEF PoolInv, OwnersInv, TypesInv
  <1>6. RequestInv(r)'
    BY <1>1, <1>5 DEF Stays, PoolInv, OwnersInv, TypesInv, RequestInv, OnOwn, Scoped
  <1> QED
    BY <1>1, <1>5, <1>6, KeepInv

LEMMA EndsInv ==
  ASSUME PoolInv, NEW r \in Requests, HandlerReturns(r) \/ HandlerThrows(r)
  PROVE  PoolInv'
  <1>1. PICK label \in {"commit", "rollback"} : Stays(r, label)
    BY DEF HandlerReturns, HandlerThrows, Goto, Keep, Stays, Labels, Waiting, InTx, OnOwn
  <1>2. pc[r] = "handler" /\ session' = session /\ caller' = caller
    BY DEF HandlerReturns, HandlerThrows, Keep
  <1>3. RequestInv(r)'
    BY <1>1, <1>2 DEF Stays, PoolInv, OwnersInv, TypesInv, SessionInv, RequestInv, OnOwn, Scoped
  <1> QED
    BY <1>1, <1>2, <1>3, KeepInv DEF PoolInv, OwnersInv, TypesInv

\* A transaction ends with the role that it has, or with the one it began with.
LEMMA EndedInv ==
  ASSUME PoolInv, NEW r \in Requests, Stays(r, "release"), caller' = caller,
         NEW role \in {"iam_app", "iam_tenant_user", "iam_superadmin"},
         session' = Ended(tx[r], role)
  PROVE  PoolInv'
  <1>1. tx[r] \in Conns
    BY DEF Stays, PoolInv, OwnersInv, TypesInv, HoldsInv, InTx
  <1> DEFINE s == [role |-> role, tenant |-> None, open |-> FALSE, began |-> role]
  <1>2. s \in Session /\ s.tenant = None /\ ~s.open
    BY DEF Session
  <1>3. session' = [session EXCEPT ![tx[r]] = s]
    BY DEF Ended
  <1> HIDE DEF s
  <1>4. /\ session' \in [Conns -> Session] /\ session'[tx[r]] = s
        /\ \A c \in Conns : c # tx[r] => session'[c] = session[c]
    BY <1>1, <1>2, <1>3 DEF PoolInv, OwnersInv, TypesInv
  <1>5. RequestInv(r)'
    BY <1>2, <1>4 DEF Stays, PoolInv, OwnersInv, TypesInv, RequestInv, OnOwn, Scoped
  <1> QED
    BY <1>4, <1>5, KeepInv

LEMMA CommitInv ==
  ASSUME PoolInv, NEW r \in Requests, Commit(r)
  PROVE  PoolInv'
  <1>1. pc[r] = "commit" /\ caller' = caller /\ tx[r] \in Conns /\ session[tx[r]] \in Session
    BY DEF Commit, Keep, PoolInv, OwnersInv, TypesInv, HoldsInv, InTx
  <1>2. CASE Goto(r, "release") /\ session' = Ended(tx[r], session[tx[r]].role)
    <2>1. Stays(r, "release")
      BY <1>1, <1>2 DEF Commit, Goto, Keep, Stays, Labels, Waiting, InTx, OnOwn
    <2>2. session[tx[r]].role \in {"iam_app", "iam_tenant_user", "iam_superadmin"}
      BY <1>1 DEF Session
    <2> QED
      BY <1>1, <1>2, <2>1, <2>2, EndedInv
  <1>3. CASE Goto(r, "rollback") /\ UNCHANGED session
    <2>1. Stays(r, "rollback")
      BY <1>1, <1>3 DEF Commit, Goto, Keep, Stays, Labels, Waiting, InTx, OnOwn
    <2>2. RequestInv(r)'
      BY <1>1, <1>3, <2>1
      DEF Stays, PoolInv, OwnersInv, TypesInv, SessionInv, RequestInv, OnOwn, Scoped
    <2> QED
      BY <1>1, <1>3, <2>1, <2>2, KeepInv DEF PoolInv, OwnersInv, TypesInv
  <1> QED
    BY <1>2, <1>3 DEF Commit

LEMMA RollbackInv ==
  ASSUME PoolInv, NEW r \in Requests, Rollback(r)
  PROVE  PoolInv'
  <1>1. pc[r] = "rollback" /\ caller' = caller /\ tx[r] \in Conns /\ session[tx[r]] \in Session
    BY DEF Rollback, Keep, PoolInv, OwnersInv, TypesInv, HoldsInv, InTx
  <1>2. Stays(r, "release")
    BY <1>1 DEF Rollback, Goto, Keep, Stays, Labels, Waiting, InTx, OnOwn
  <1>3. session[tx[r]].began \in {"iam_app", "iam_tenant_user", "iam_superadmin"}
    BY <1>1 DEF Session
  <1>4. session' = Ended(tx[r], session[tx[r]].began)
    BY DEF Rollback
  <1> QED
    BY <1>1, <1>2, <1>3, <1>4, EndedInv

LEMMA SetUpFailsInv ==
  ASSUME PoolInv, NEW r \in Requests, SetUpFails(r)
  PROVE  PoolInv'
  <1>1. /\ pc[r] = "setup" /\ tx[r] \in Conns /\ tx[r] \notin free \cup leaked /\ tx[r] # None
        /\ own[r] = None
    BY DEF SetUpFails, PoolInv, OwnersInv, TypesInv, HoldsInv, OwnedInv, InTx, OnOwn
  <1>2. /\ pc' = [pc EXCEPT ![r] = "idle"] /\ leaked' = leaked \cup {tx[r]} /\ free' = free
        /\ tx' = [tx EXCEPT ![r] = None]
        /\ UNCHANGED <<caller, own, queue, session>>
    BY DEF SetUpFails, Goto
  <1>3. \A q \in Requests : /\ tx'[q] = IF tx[q] = tx[r] THEN None ELSE tx[q]
                            /\ own'[q] = IF own[q] = tx[r] THEN None ELSE own[q]
    BY <1>1, <1>2 DEF PoolInv, OwnersInv, TypesInv, OwnedInv
  <1>4. OwnedInv'
    BY <1>1, <1>2, <1>3, OwnedBack DEF PoolInv
  <1>5. TypesInv'
    BY <1>1, <1>2 DEF PoolInv, OwnersInv, TypesInv, Labels
  <1>6. HoldsInv'
    BY <1>1, <1>2 DEF PoolInv, OwnersInv, TypesInv, HoldsInv, InTx, OnOwn
  <1>7. QueueInv'
    <2>1. \A n \in 1 .. Len(queue) : queue[n] \in Requests /\ queue[n] # r
      BY <1>1 DEF PoolInv, OwnersInv, TypesInv, QueueInv, Waiting
    <2> QED
      BY <1>2, <2>1 DEF PoolInv, OwnersInv, TypesInv, QueueInv
  <1>8. SessionInv'
    <2>1. \A q \in Requests \ {r} : pc'[q] = pc[q] /\ tx'[q] = tx[q]
      BY <1>2 DEF PoolInv, OwnersInv, TypesInv
    <2>2. pc'[r] = "idle"
      BY <1>2 DEF PoolInv, OwnersInv, TypesInv
    <2> QED
      BY <1>2, <2>1, <2>2 DEF PoolInv, SessionInv, RequestInv, OnOwn, Scoped
  <1> QED
    BY <1>4, <1>5, <1>6, <1>7, <1>8 DEF PoolInv, OwnersInv

LEMMA AsksInv ==
  ASSUME PoolInv, NEW r \in Requests, GuardQuery(r) \/ Intercept(r) \/ OwnQuery(r)
  PROVE  PoolInv'
  <1>1. PICK label \in Waiting : Asks(r, label) /\ Connect(r, label)
    BY DEF GuardQuery, Intercept, OwnQuery, Asks, Waiting
  <1> QED
    BY <1>1, ConnectOwners, ConnectSession DEF PoolInv

LEMMA AnswerInv ==
  ASSUME PoolInv, NEW r \in Requests, GuardAnswer(r) \/ OwnAnswer(r)
  PROVE  PoolInv'
  <1>1. /\ pc[r] \in OnOwn /\ own[r] \in Conns /\ Clean(session[own[r]])
        /\ caller' = caller /\ session' = session /\ session \in [Conns -> Session]
    BY DEF GuardAnswer, OwnAnswer, PoolInv, OwnersInv, TypesInv, HoldsInv, SessionInv, RequestInv, OnOwn
  <1>2. PICK label : /\ label = IF pc[r] = "own" THEN "handler" ELSE "guards"
                     /\ Release(r, own[r], label, tx, [own EXCEPT ![r] = None])
    BY DEF GuardAnswer, OwnAnswer
  <1>3. Returns(r, own[r], label, tx, [own EXCEPT ![r] = None])
    BY <1>1, <1>2 DEF Returns
  <1>4. OwnersInv'
    BY <1>1, <1>2, <1>3, ReleaseOwners DEF PoolInv
  <1>5. SessionInv'
    BY <1>1, <1>2, <1>3, ReleaseSession DEF PoolInv
  <1> QED
    BY <1>4, <1>5 DEF PoolInv

LEMMA FinalizeInv ==
  ASSUME PoolInv, NEW r \in Requests, Finalize(r)
  PROVE  PoolInv'
  <1>1. /\ pc[r] = "release" /\ tx[r] \in Conns /\ caller' = caller
        /\ session[tx[r]] \in Session
        /\ session[tx[r]].tenant = None /\ ~session[tx[r]].open
        /\ Release(r, tx[r], "idle", [tx EXCEPT ![r] = None], own)
    BY DEF Finalize, PoolInv, OwnersInv, TypesInv, HoldsInv, InTx, SessionInv, RequestInv
  <1> DEFINE s == [session[tx[r]] EXCEPT !.role = "iam_app"]
  <1>2. s \in Session /\ s.role = "iam_app" /\ s.tenant = None /\ ~s.open
    BY <1>1 DEF Session
  <1>3. session' = [session EXCEPT ![tx[r]] = s]
    BY DEF Finalize
  <1> HIDE DEF s
  <1>4. /\ session' \in [Conns -> Session] /\ Clean(session'[tx[r]])
        /\ \A c \in Conns : c # tx[r] => session'[c] = session[c]
    BY <1>1, <1>2, <1>3 DEF PoolInv, OwnersInv, TypesInv, Clean
  <1>5. Returns(r, tx[r], "idle", [tx EXCEPT ![r] = None], own)
    BY <1>1 DEF Returns
  <1>6. OwnersInv'
    BY <1>1, <1>4, <1>5, ReleaseOwners DEF PoolInv
  <1>7. SessionInv'
    BY <1>1, <1>4, <1>5, ReleaseSession DEF PoolInv
  <1> QED
    BY <1>6, <1>7 DEF PoolInv

\* No step breaks the invariant, and it starts true.
LEMMA StepPoolInv == PoolInv /\ [Next]_vars => PoolInv'
  <1> SUFFICES ASSUME PoolInv, [Next]_vars PROVE PoolInv'
    OBVIOUS
  <1>1. ASSUME NEW r \in Requests, Arrive(r) \/ Step(r) PROVE PoolInv'
    BY <1>1, ArriveInv, AsksInv, AnswerInv, ForbidInv, SetUpInv, SetUpFailsInv, EndsInv,
       CommitInv, RollbackInv, FinalizeInv DEF Step
  <1>2. CASE UNCHANGED vars
    BY <1>2 DEF vars, PoolInv, OwnersInv, TypesInv, HoldsInv, QueueInv, OwnedInv, SessionInv, RequestInv
  <1> QED
    BY <1>1, <1>2 DEF Next

LEMMA PoolInvAlways == Spec => []PoolInv
  <1> QED
    BY InitPoolInv, StepPoolInv, PTL DEF Spec

-----------------------------------------------------------------------------
LEMMA OwnedConserved ==
  ASSUME OwnersInv
  PROVE  Conserved
  <1>1. \A c : c \in Held <=> \E r \in Requests : tx[r] = c \/ own[r] = c
    BY DEF Held
  <1>2. \A c \in Held : c = None \/ c \in Conns
    BY <1>1 DEF OwnersInv, TypesInv
  <1>3. Conns = free \cup leaked \cup (Held \ {None})
    BY <1>1, <1>2, PoolAssumption DEF OwnersInv, TypesInv, OwnedInv
  <1>4. (free \cup leaked) \cap Held = {}
    BY <1>1 DEF OwnersInv, OwnedInv
  <1> QED
    BY <1>3, <1>4 DEF OwnersInv, OwnedInv, Conserved

\* In the handler the connection of the request is as SetUp made it.
LEMMA HandlerSession ==
  ASSUME PoolInv, NEW r \in Requests, pc[r] = "handler"
  PROVE  /\ session[RunsOn(r)].open
         /\ caller[r] \in Tenants =>
               session[RunsOn(r)].role = "iam_tenant_user" /\ session[RunsOn(r)].tenant = caller[r]
         /\ caller[r] \notin Tenants => session[RunsOn(r)].role # "iam_tenant_user"
  <1>1. session[RunsOn(r)] = Scope(caller[r])
    BY DEF PoolInv, SessionInv, RequestInv, Scoped, RunsOn
  <1>2. Scope(caller[r]).open
    BY DEF Scope
  <1>3. caller[r] \in Tenants => /\ Scope(caller[r]).role = "iam_tenant_user"
                                /\ Scope(caller[r]).tenant = caller[r]
    BY DEF Scope
  <1>4. caller[r] \notin Tenants => Scope(caller[r]).role # "iam_tenant_user"
    BY DEF Scope
  <1> QED
    BY <1>1, <1>2, <1>3, <1>4

LEMMA SessionsScope ==
  ASSUME PoolInv
  PROVE  RightScope
  <1> SUFFICES ASSUME NEW r \in Requests, NEW table \in Protected, pc[r] \in {"handler"} \cup OnOwn
               PROVE  IF pc[r] = "handler" /\ caller[r] \in Tenants
                      THEN Visible(RunsOn(r), table) \in {{caller[r]}, {caller[r], System}}
                      ELSE Visible(RunsOn(r), table) = Owners
    BY DEF RightScope
  <1>1. CASE pc[r] = "handler" /\ caller[r] \in Tenants
    <2>1. session[RunsOn(r)].role = "iam_tenant_user" /\ session[RunsOn(r)].tenant = caller[r]
      BY <1>1, HandlerSession
    <2>2. Visible(RunsOn(r), table) = Policy(table, caller[r])
      BY <2>1 DEF Visible
    <2>3. CASE table \in {"roles", "role_permissions", "audit_logs"}
      <3>1. Policy(table, caller[r]) = {caller[r], System}
        BY <1>1, <2>3 DEF Policy, Owners
      <3> QED
        BY <1>1, <2>2, <3>1
    <2>4. CASE table \notin {"roles", "role_permissions", "audit_logs"}
      <3>1. Policy(table, caller[r]) = {caller[r]}
        BY <1>1, <2>4 DEF Policy, Owners
      <3> QED
        BY <1>1, <2>2, <3>1
    <2> QED
      BY <2>3, <2>4
  <1>2. CASE pc[r] = "handler" /\ caller[r] \notin Tenants
    BY <1>2, HandlerSession DEF Visible
  <1>3. CASE pc[r] # "handler"
    BY <1>3 DEF PoolInv, SessionInv, RequestInv, Clean, RunsOn, Visible
  <1> QED
    BY <1>1, <1>2, <1>3

LEMMA SessionsTransaction ==
  ASSUME PoolInv
  PROVE  RightTransaction
  <1> SUFFICES ASSUME NEW r \in Requests, pc[r] \in {"handler"} \cup OnOwn
               PROVE  session[RunsOn(r)].open <=> pc[r] = "handler"
    BY DEF RightTransaction
  <1>1. CASE pc[r] = "handler"
    BY <1>1, HandlerSession
  <1>2. CASE pc[r] # "handler"
    BY <1>2 DEF PoolInv, SessionInv, RequestInv, Clean, RunsOn
  <1> QED
    BY <1>1, <1>2

-----------------------------------------------------------------------------
(* Who waits for what.                                                      *)

\* Where a request has a statement of its own to run.
Asking == {"awaitGuard", "guardQuery", "awaitOwn", "own"}

\* A request that waits is in the queue, and nobody waits while a connection is free.
LineInv ==
    /\ todo \in [Requests -> Nat]
    /\ \A r \in Requests : pc[r] \in Asking => todo[r] > 0
    /\ \A r \in Requests : pc[r] \in Waiting => \E n \in 1 .. Len(queue) : queue[n] = r
    /\ queue # <<>> => free = {}

\* A step of r that neither asks for a connection nor gives one back to the pool.
LEMMA AsideLine ==
  ASSUME PoolInv, LineInv, NEW r \in Requests, NEW label, label \notin Asking \cup Waiting,
         pc' = [pc EXCEPT ![r] = label], todo' \in [Requests -> Nat],
         \A q \in Requests \ {r} : todo'[q] = todo[q],
         UNCHANGED <<free, queue>>
  PROVE  LineInv'
  <1>1. pc'[r] = label /\ \A q \in Requests \ {r} : pc'[q] = pc[q]
    BY DEF PoolInv, OwnersInv, TypesInv
  <1> QED
    BY <1>1 DEF LineInv

LEMMA ConnectLine ==
  ASSUME PoolInv, LineInv, NEW r \in Requests, NEW label, Asks(r, label), Connect(r, label),
         todo' \in [Requests -> Nat], \A q \in Requests \ {r} : todo'[q] = todo[q],
         label \in Asking => todo'[r] > 0
  PROVE  LineInv'
  <1>1. label \in Waiting /\ pc[r] \notin Waiting /\ queue \in Seq(Requests)
    BY DEF Asks, Waiting, PoolInv, OwnersInv, TypesInv
  <1>2. ASSUME NEW c \in free, free' = free \ {c}, Goto(r, Granted(label)), UNCHANGED queue
        PROVE  LineInv'
    <2>1. pc'[r] = Granted(label) /\ \A q \in Requests \ {r} : pc'[q] = pc[q]
      BY <1>2 DEF Goto, PoolInv, OwnersInv, TypesInv
    <2>2. Granted(label) \notin Waiting /\ (Granted(label) \in Asking => label \in Asking)
      BY <1>1 DEF Granted, Waiting, Asking
    <2>3. queue = <<>>
      BY <1>2 DEF LineInv
    <2> QED
      BY <1>2, <2>1, <2>2, <2>3 DEF LineInv
  <1>3. CASE free = {} /\ Goto(r, label) /\ queue' = Append(queue, r) /\ UNCHANGED free
    <2>1. pc'[r] = label /\ \A q \in Requests \ {r} : pc'[q] = pc[q]
      BY <1>3 DEF Goto, PoolInv, OwnersInv, TypesInv
    <2>2. /\ Len(queue') = Len(queue) + 1 /\ Len(queue) \in Nat /\ queue'[Len(queue) + 1] = r
          /\ \A n \in 1 .. Len(queue) : queue'[n] = queue[n]
      BY <1>1, <1>3
    <2>3. ASSUME NEW q \in Requests, pc'[q] \in Waiting
          PROVE  \E n \in 1 .. Len(queue') : queue'[n] = q
      <3>1. CASE q = r
        BY <2>2, <3>1
      <3>2. CASE q # r
        <4>1. PICK n \in 1 .. Len(queue) : queue[n] = q
          BY <2>1, <2>3, <3>2 DEF LineInv
        <4> QED
          BY <2>2, <4>1
      <3> QED
        BY <3>1, <3>2
    <2> QED
      BY <1>3, <2>1, <2>3 DEF LineInv
  <1> QED
    BY <1>2, <1>3 DEF Connect

\* The connection that r gives back goes to who waits longest.
LEMMA ReleaseLine ==
  ASSUME PoolInv, LineInv, NEW r \in Requests, NEW c, NEW label, NEW tx1, NEW own1,
         Returns(r, c, label, tx1, own1), Release(r, c, label, tx1, own1),
         todo' \in [Requests -> Nat], \A q \in Requests \ {r} : todo'[q] = todo[q]
  PROVE  LineInv'
  <1>1. label \notin Asking \cup Waiting /\ pc[r] \notin Waiting /\ queue \in Seq(Requests)
    BY DEF Returns, Asking, Waiting, OnOwn, PoolInv, OwnersInv, TypesInv
  <1>2. CASE queue = <<>> /\ Goto(r, label) /\ UNCHANGED queue
    <2>1. pc'[r] = label /\ \A q \in Requests \ {r} : pc'[q] = pc[q]
      BY <1>2 DEF Goto, PoolInv, OwnersInv, TypesInv
    <2> QED
      BY <1>1, <1>2, <2>1 DEF LineInv
  <1>3. CASE /\ queue # <<>> /\ queue' = Tail(queue) /\ UNCHANGED free
             /\ pc' = [pc EXCEPT ![r] = label, ![Head(queue)] = Granted(pc[Head(queue)])]
    <2>1. PICK h \in Requests : h = Head(queue) /\ h = queue[1] /\ pc[h] \in Waiting /\ h # r
      BY <1>1, <1>3 DEF PoolInv, OwnersInv, QueueInv
    <2>2. /\ pc'[r] = label /\ pc'[h] = Granted(pc[h])
          /\ \A q \in Requests \ {r, h} : pc'[q] = pc[q]
      BY <1>3, <2>1 DEF PoolInv, OwnersInv, TypesInv
    <2>3. Granted(pc[h]) \notin Waiting /\ (Granted(pc[h]) \in Asking => pc[h] \in Asking)
      BY <2>1 DEF Granted, Waiting, Asking
    <2>4. /\ Len(queue) \in Nat /\ Len(queue') = Len(queue) - 1
          /\ \A n \in 1 .. Len(queue') : queue'[n] = queue[n + 1]
      BY <1>1, <1>3
    <2>5. ASSUME NEW q \in Requests, pc'[q] \in Waiting
          PROVE  \E n \in 1 .. Len(queue') : queue'[n] = q
      <3>1. q # r /\ q # h /\ pc[q] \in Waiting
        BY <1>1, <2>2, <2>3, <2>5
      <3>2. PICK n \in 1 .. Len(queue) : queue[n] = q
        BY <3>1 DEF LineInv
      <3>3. n - 1 \in 1 .. Len(queue') /\ queue'[n - 1] = q
        BY <2>1, <2>4, <3>1, <3>2
      <3> QED
        BY <3>3
    <2>6. free' = {}
      BY <1>3 DEF LineInv
    <2>7. ASSUME NEW q \in Requests, pc'[q] \in Asking PROVE todo'[q] > 0
      <3>1. q # r /\ pc[q] \in Asking
        BY <1>1, <2>2, <2>3, <2>7
      <3> QED
        BY <3>1 DEF LineInv
    <2> QED
      BY <2>5, <2>6, <2>7 DEF LineInv
  <1> QED
    BY <1>2, <1>3 DEF Release

LEMMA StepLineInv == PoolInv /\ LineInv /\ [Next]_vars => LineInv'
  <1> SUFFICES ASSUME PoolInv, LineInv, [Next]_vars PROVE LineInv'
    OBVIOUS
  <1>0. todo \in [Requests -> Nat]
    BY DEF LineInv
  <1>1. ASSUME NEW r \in Requests,
               Forbid(r) \/ SetUp(r) \/ HandlerReturns(r) \/ Commit(r) \/ Rollback(r)
        PROVE  LineInv'
    <2>1. PICK label \in {"idle", "handler", "commit", "release", "rollback"} :
             pc' = [pc EXCEPT ![r] = label]
      BY <1>1 DEF Forbid, SetUp, HandlerReturns, Commit, Rollback, Goto
    <2>2. UNCHANGED <<free, queue, todo>>
      BY <1>1 DEF Forbid, SetUp, HandlerReturns, Commit, Rollback, Keep
    <2> QED
      BY <1>0, <2>1, <2>2, AsideLine DEF Asking, Waiting
  <1>2. ASSUME NEW r \in Requests, SetUpFails(r) \/ HandlerThrows(r)
        PROVE  LineInv'
    <2>1. PICK label \in {"idle", "rollback"} : pc' = [pc EXCEPT ![r] = label]
      BY <1>2 DEF SetUpFails, HandlerThrows, Goto
    <2>2. UNCHANGED <<free, queue>> /\ todo' = [todo EXCEPT ![r] = 0]
      BY <1>2 DEF SetUpFails, HandlerThrows, Keep
    <2> QED
      BY <1>0, <2>1, <2>2, AsideLine DEF Asking, Waiting
  <1>3. ASSUME NEW r \in Requests, Arrive(r) PROVE LineInv'
    <2>1. PICK n \in 0 .. GuardQueries[r] : todo' = [todo EXCEPT ![r] = n]
      BY <1>3 DEF Arrive
    <2>2. n \in Nat
      BY PoolAssumption
    <2>3. pc' = [pc EXCEPT ![r] = "guards"] /\ UNCHANGED <<free, queue>>
      BY <1>3 DEF Arrive, Goto
    <2> QED
      BY <1>0, <2>1, <2>2, <2>3, AsideLine DEF Asking, Waiting
  <1>4. ASSUME NEW r \in Requests, GuardQuery(r) \/ OwnQuery(r) PROVE LineInv'
    <2>1. PICK label \in {"awaitGuard", "awaitOwn"} : Asks(r, label) /\ Connect(r, label)
      BY <1>4 DEF GuardQuery, OwnQuery, Asks, Waiting
    <2>2. todo' = todo /\ todo[r] > 0
      BY <1>4 DEF GuardQuery, OwnQuery
    <2> QED
      BY <1>0, <2>1, <2>2, ConnectLine
  <1>5. ASSUME NEW r \in Requests, Intercept(r) PROVE LineInv'
    <2>1. Asks(r, "awaitTx") /\ Connect(r, "awaitTx") /\ todo' = [todo EXCEPT ![r] = OwnQueries[r]]
      BY <1>5 DEF Intercept, Asks, Waiting
    <2> QED
      BY <1>0, <2>1, ConnectLine, PoolAssumption DEF Asking
  <1>6. ASSUME NEW r \in Requests, GuardAnswer(r) \/ OwnAnswer(r) PROVE LineInv'
    <2>1. pc[r] \in OnOwn /\ pc[r] \in Asking
      BY <1>6 DEF GuardAnswer, OwnAnswer, OnOwn, Asking
    <2>2. PICK label : /\ label = IF pc[r] = "own" THEN "handler" ELSE "guards"
                       /\ Release(r, own[r], label, tx, [own EXCEPT ![r] = None])
      BY <1>6 DEF GuardAnswer, OwnAnswer
    <2>3. Returns(r, own[r], label, tx, [own EXCEPT ![r] = None])
      BY <2>1, <2>2 DEF Returns
    <2>4. todo' = [todo EXCEPT ![r] = todo[r] - 1] /\ todo[r] > 0
      BY <1>6, <2>1 DEF GuardAnswer, OwnAnswer, LineInv
    <2> QED
      BY <1>0, <2>2, <2>3, <2>4, ReleaseLine
  <1>7. ASSUME NEW r \in Requests, Finalize(r) PROVE LineInv'
    <2>1. Returns(r, tx[r], "idle", [tx EXCEPT ![r] = None], own)
      BY <1>7 DEF Finalize, Returns
    <2> QED
      BY <1>0, <1>7, <2>1, ReleaseLine DEF Finalize
  <1>8. CASE UNCHANGED vars
    BY <1>8 DEF vars, LineInv
  <1> QED
    BY <1>1, <1>2, <1>3, <1>4, <1>5, <1>6, <1>7, <1>8 DEF Next, Step

LEMMA LineInvAlways == Spec => [](PoolInv /\ LineInv)
  <1>1. Init => LineInv
    BY DEF Init, LineInv, Asking, Waiting
  <1> QED
    BY <1>1, InitPoolInv, StepPoolInv, StepLineInv, PTL DEF Spec

LEMMA LineTypeOK ==
  ASSUME PoolInv, LineInv
  PROVE  TypeOK
  <1>1. queue \in Seq(Requests)
    BY DEF PoolInv, OwnersInv, TypesInv
  <1>2. queue \in Seq({r \in Requests : pc[r] \in Waiting})
    BY <1>1 DEF PoolInv, OwnersInv, QueueInv
  <1>3. ASSUME NEW r \in Requests, pc[r] \in Waiting
        PROVE  Cardinality({n \in 1 .. Len(queue) : queue[n] = r}) = 1
    <2>1. PICK n \in 1 .. Len(queue) : queue[n] = r
      BY <1>3 DEF LineInv
    <2>2. {m \in 1 .. Len(queue) : queue[m] = r} = {n}
      BY <2>1 DEF PoolInv, OwnersInv, QueueInv
    <2> QED
      BY <2>2, FS_Singleton
  <1> QED
    BY <1>2, <1>3 DEF TypeOK, PoolInv, OwnersInv, TypesInv, Labels, LineInv

\* When nobody can go on, the connections are those of the handlers that wait for a
\* second one, one each, and the leaked ones.
LEMMA StuckFact ==
  ASSUME PoolInv, LineInv
  PROVE  StuckOnlyByOwnQueries
  <1> DEFINE W == {r \in Requests : pc[r] = "awaitOwn"}
  <1> DEFINE T == {tx[r] : r \in W}
  <1> SUFFICES ASSUME NEW w \in Requests, pc[w] \in Waiting,
                      \A r \in Requests : pc[r] \in Waiting \cup {"idle"}
               PROVE  Cardinality(W) + Cardinality(leaked) = Cardinality(Conns)
    BY DEF StuckOnlyByOwnQueries
  <1>1. free = {}
    BY DEF LineInv
  <1>2. \A r \in Requests : own[r] = None /\ (tx[r] # None <=> r \in W)
    BY DEF PoolInv, OwnersInv, HoldsInv, InTx, OnOwn, Waiting
  <1>3. Conns = T \cup leaked /\ T \cap leaked = {}
    <2>1. ASSUME NEW c \in Conns PROVE c \in T \cup leaked
      <3>1. c # None
        BY PoolAssumption
      <3>2. c \in leaked \/ \E r \in Requests : tx[r] = c \/ own[r] = c
        BY <1>1 DEF PoolInv, OwnersInv, OwnedInv
      <3> QED
        BY <1>2, <3>1, <3>2
    <2>2. ASSUME NEW c \in T PROVE c \in Conns /\ c \notin leaked
      <3>1. PICK r \in W : c = tx[r]
        OBVIOUS
      <3>2. tx[r] # None
        BY <1>2
      <3> QED
        BY <3>1, <3>2 DEF PoolInv, OwnersInv, TypesInv, OwnedInv
    <2>3. leaked \subseteq Conns
      BY DEF PoolInv, OwnersInv, TypesInv
    <2> QED
      BY <2>1, <2>2, <2>3
  <1>4. IsFiniteSet(W) /\ IsFiniteSet(leaked) /\ IsFiniteSet(T)
    BY <1>3, PoolAssumption, FS_Subset
  <1>5. Cardinality(T) = Cardinality(W)
    <2> DEFINE f == [r \in W |-> tx[r]]
    <2>1. f \in Bijection(W, T)
      BY <1>2 DEF Bijection, Injection, Surjection, IsInjective, PoolInv, OwnersInv, OwnedInv
    <2> QED
      BY <1>4, <2>1, FS_Bijection DEF ExistsBijection
  <1>6. Cardinality(Conns) = Cardinality(T) + Cardinality(leaked) - Cardinality(T \cap leaked)
    BY <1>3, <1>4, FS_Union
  <1>7. Cardinality(T) \in Nat /\ Cardinality(leaked) \in Nat
    BY <1>4, FS_CardinalityType
  <1>8. Cardinality({}) = 0
    BY FS_EmptySet
  <1>9. Cardinality(T \cap leaked) = 0
    BY <1>3, <1>8
  <1> QED
    BY <1>5, <1>6, <1>7, <1>9

-----------------------------------------------------------------------------
\* Every connection is free, with one request, or leaked by a failed set-up:
\* no request gives a connection back twice, keeps it, or shares it.
THEOREM ConnectionsConserved == Spec => []Conserved
  <1>1. PoolInv => Conserved
    BY OwnedConserved DEF PoolInv
  <1> QED
    BY <1>1, PoolInvAlways, PTL

\* A handler for the user of a tenant sees the rows of that tenant and of the
\* system, and everything else sees all rows, whoever had the connection before.
THEOREM ScopeRight == Spec => []RightScope
  BY SessionsScope, PoolInvAlways, PTL

\* What a handler writes is in the open transaction of its request, and no
\* statement of anyone else is.
THEOREM TransactionRight == Spec => []RightTransaction
  BY SessionsTransaction, PoolInvAlways, PTL

\* Every state of the requests and connections has its type, and the queue holds
\* those who wait, each once, and only while no connection is free.
THEOREM TypeCorrect == Spec => []TypeOK
  BY LineTypeOK, LineInvAlways, PTL

\* The pool can stop only by handlers that hold one connection and wait for a second:
\* as many of them as there are connections that have not leaked.
THEOREM StuckByOwnQueries == Spec => []StuckOnlyByOwnQueries
  BY StuckFact, LineInvAlways, PTL
=============================================================================
