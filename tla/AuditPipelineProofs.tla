-------------------------- MODULE AuditPipelineProofs --------------------------
(***************************************************************************)
(* Proofs about AuditPipeline: the types, and that every delivery of an    *)
(* event becomes one row unless one of the three faults is on record,      *)
(* whatever the number of events, batches under way and deliveries.        *)
(***************************************************************************)
EXTENDS AuditPipeline, FiniteSetTheorems, TLAPS

\* What Kafka may deliver again after a restart has some deliveries left.
LeftInv ==
    /\ \A n \in (offset + 1) .. MaxEvents : deliveries[n] < MaxDeliveries
    /\ status = "down" => MayRedeliver

Inv == TypeOK /\ LeftInv /\ OneRowPerDelivery

-----------------------------------------------------------------------------
(* Sequences *)

\* The sequence without its i-th element, place by place.
LEMMA RemovedFact ==
  ASSUME NEW S, NEW s \in Seq(S), NEW i \in DOMAIN s
  PROVE  /\ RemoveAt(s, i) \in Seq(S)
         /\ Len(RemoveAt(s, i)) = Len(s) - 1
         /\ \A j \in 1..(Len(s) - 1) : RemoveAt(s, i)[j] = IF j < i THEN s[j] ELSE s[j + 1]
  <1> DEFINE front == SubSeq(s, 1, i - 1)
             back  == SubSeq(s, i + 1, Len(s))
  <1>1. front \in Seq(S) /\ Len(front) = i - 1 /\ \A j \in 1..(i - 1) : front[j] = s[j]
    OBVIOUS
  <1>2. back \in Seq(S) /\ Len(back) = Len(s) - i /\ \A j \in 1..(Len(s) - i) : back[j] = s[j + i]
    OBVIOUS
  <1>3. RemoveAt(s, i) = front \o back
    BY DEF RemoveAt
  <1>4. i \in 1..Len(s) /\ Len(s) \in Nat
    OBVIOUS
  <1> HIDE DEF front, back
  <1> QED
    BY <1>1, <1>2, <1>3, <1>4

-----------------------------------------------------------------------------
(* How often an event is in a batch *)

LEMMA PlacesFinite ==
  ASSUME NEW S, NEW b \in Seq(S), NEW n
  PROVE  IsFiniteSet(Places(n, b)) /\ Times(n, b) \in Nat
  <1>1. Len(b) \in Nat /\ Places(n, b) \in SUBSET (1..Len(b))
    BY DEF Places
  <1>2. IsFiniteSet(1..Len(b))
    BY <1>1, FS_Interval
  <1> QED
    BY <1>1, <1>2, FS_Subset, FS_CardinalityType DEF Times

LEMMA TimesEmpty == \A n : Times(n, <<>>) = 0
  <1>1. Cardinality({}) = 0
    BY FS_EmptySet
  <1>2. \A n : Places(n, <<>>) = {}
    BY DEF Places
  <1> QED
    BY <1>1, <1>2 DEF Times

\* One more event in a batch.
LEMMA TimesAppend ==
  ASSUME NEW S, NEW b \in Seq(S), NEW m \in S, NEW n
  PROVE  Times(n, Append(b, m)) = Times(n, b) + (IF m = n THEN 1 ELSE 0)
  <1>1. IsFiniteSet(Places(n, b)) /\ Times(n, b) \in Nat
    BY PlacesFinite
  <1>2. CASE m = n
    <2>1. Places(n, Append(b, m)) = Places(n, b) \cup {Len(b) + 1}
      BY <1>2 DEF Places
    <2>2. Len(b) + 1 \notin Places(n, b)
      BY DEF Places
    <2> QED
      BY <1>1, <1>2, <2>1, <2>2, FS_AddElement DEF Times
  <1>3. CASE m # n
    <2>1. Places(n, Append(b, m)) = Places(n, b)
      BY <1>3 DEF Places
    <2> QED
      BY <1>1, <1>3, <2>1 DEF Times
  <1> QED
    BY <1>2, <1>3

-----------------------------------------------------------------------------
(* How often an event is in the batches under way *)

LEMMA AboardFinite ==
  ASSUME NEW s \in Seq(Batch), NEW n
  PROVE  IsFiniteSet(Aboard(n, s)) /\ Cardinality(Aboard(n, s)) \in Nat
  <1>1. IsFiniteSet(1..Len(s)) /\ IsFiniteSet(1..MaxBatch)
    BY AuditAssumption, FS_Interval
  <1>2. IsFiniteSet((1..Len(s)) \X (1..MaxBatch))
    BY <1>1, FS_Product
  <1>3. Aboard(n, s) \in SUBSET ((1..Len(s)) \X (1..MaxBatch))
    BY DEF Aboard
  <1> QED
    BY <1>2, <1>3, FS_Subset, FS_CardinalityType

LEMMA AboardEmpty == \A n : Cardinality(Aboard(n, <<>>)) = 0
  <1>1. Cardinality({}) = 0
    BY FS_EmptySet
  <1>2. \A n : Aboard(n, <<>>) = {}
    BY DEF Aboard
  <1> QED
    BY <1>1, <1>2

\* The places of an event in the batch that is the i-th one.
LEMMA InBatch ==
  ASSUME NEW b \in Batch, NEW n, NEW i
  PROVE  /\ IsFiniteSet({i} \X Places(n, b))
         /\ Cardinality({i} \X Places(n, b)) = Times(n, b)
         /\ Times(n, b) \in Nat
         /\ Places(n, b) \subseteq 1..MaxBatch
  <1>1. b \in Seq(Positions) /\ Len(b) \in 1..MaxBatch
    BY DEF Batch
  <1>2. IsFiniteSet(Places(n, b)) /\ Times(n, b) \in Nat
    BY <1>1, PlacesFinite
  <1>3. IsFiniteSet({i}) /\ Cardinality({i}) = 1
    BY FS_Singleton
  <1>4. /\ IsFiniteSet({i} \X Places(n, b))
        /\ Cardinality({i} \X Places(n, b)) = Cardinality({i}) * Cardinality(Places(n, b))
    BY <1>2, <1>3, FS_Product
  <1>5. Places(n, b) \subseteq 1..MaxBatch
    BY <1>1, AuditAssumption DEF Places
  <1> QED
    BY <1>2, <1>3, <1>4, <1>5 DEF Times

\* One more batch under way.
LEMMA AboardAppend ==
  ASSUME NEW s \in Seq(Batch), NEW b \in Batch, NEW n
  PROVE  Cardinality(Aboard(n, Append(s, b))) = Cardinality(Aboard(n, s)) + Times(n, b)
  <1> DEFINE i == Len(s) + 1
             more == {i} \X Places(n, b)
             all == Append(s, b)
  <1>1. /\ all \in Seq(Batch) /\ DOMAIN all = 1..i /\ DOMAIN s = 1..Len(s) /\ all[i] = b
        /\ \A j \in 1..Len(s) : j # i /\ j \in 1..i /\ all[j] = s[j]
        /\ i \in 1..i /\ (1..i) \ {i} = 1..Len(s)
    OBVIOUS
  <1>2. IsFiniteSet(more) /\ Cardinality(more) = Times(n, b) /\ Places(n, b) \subseteq 1..MaxBatch
    BY InBatch
  <1>3. IsFiniteSet(Aboard(n, s)) /\ Cardinality(Aboard(n, s)) \in Nat
    BY AboardFinite
  <1>4. Times(n, b) \in Nat
    BY InBatch
  <1> HIDE DEF i, all
  <1>5. Aboard(n, all) \subseteq Aboard(n, s) \cup more
    BY <1>1 DEF Aboard
  <1>6. Aboard(n, s) \cup more \subseteq Aboard(n, all)
    BY <1>1, <1>2 DEF Aboard
  <1>7. Aboard(n, s) \cap more = {}
    BY <1>1 DEF Aboard
  <1>8. Cardinality({}) = 0
    BY FS_EmptySet
  <1> HIDE DEF more
  <1>9. Cardinality(Aboard(n, s) \cup more) =
           Cardinality(Aboard(n, s)) + Cardinality(more) - Cardinality(Aboard(n, s) \cap more)
    BY <1>2, <1>3, FS_Union
  <1>10. Aboard(n, all) = Aboard(n, s) \cup more
    BY <1>5, <1>6
  <1>11. Cardinality(Aboard(n, s) \cap more) = 0
    BY <1>7, <1>8
  <1>12. Cardinality(Aboard(n, all)) = Cardinality(Aboard(n, s) \cup more)
    BY <1>10
  <1>13. Cardinality(Aboard(n, all)) = Cardinality(Aboard(n, s)) + Times(n, b)
    BY <1>2, <1>3, <1>4, <1>9, <1>11, <1>12
  <1> QED
    BY <1>13 DEF all

\* One batch less under way: what is in the others stays where it is, except
\* that the batches behind it move up.
LEMMA AboardRemove ==
  ASSUME NEW s \in Seq(Batch), NEW i \in DOMAIN s, NEW n
  PROVE  Cardinality(Aboard(n, s)) = Cardinality(Aboard(n, RemoveAt(s, i))) + Times(n, s[i])
  <1> DEFINE t == RemoveAt(s, i)
             gone == {i} \X Places(n, s[i])
             kept == Aboard(n, s) \ gone
             f == [p \in Aboard(n, t) |-> <<IF p[1] < i THEN p[1] ELSE p[1] + 1, p[2]>>]
  <1>1. /\ t \in Seq(Batch) /\ Len(t) = Len(s) - 1 /\ Len(s) \in Nat /\ i \in 1..Len(s)
        /\ \A j \in 1..(Len(s) - 1) : t[j] = IF j < i THEN s[j] ELSE s[j + 1]
    BY RemovedFact
  <1>2. DOMAIN t = 1..(Len(s) - 1) /\ DOMAIN s = 1..Len(s) /\ s[i] \in Batch
    BY <1>1
  <1>3. /\ IsFiniteSet(gone) /\ Cardinality(gone) = Times(n, s[i]) /\ Times(n, s[i]) \in Nat
        /\ Places(n, s[i]) \subseteq 1..MaxBatch
    BY <1>2, InBatch
  <1>4. IsFiniteSet(Aboard(n, s)) /\ IsFiniteSet(Aboard(n, t)) /\ Cardinality(Aboard(n, t)) \in Nat
    BY <1>1, AboardFinite
  <1> HIDE DEF t
  <1>5. gone \subseteq Aboard(n, s)
    BY <1>2, <1>3 DEF Aboard
  <1>6. f \in Bijection(Aboard(n, t), kept)
    <2>1. \A p \in Aboard(n, t) : f[p] \in kept
      BY <1>1, <1>2 DEF Aboard
    <2>2. \A p, q \in Aboard(n, t) : f[p] = f[q] => p = q
      BY <1>1, <1>2 DEF Aboard
    <2>3. \A p \in kept : \E q \in Aboard(n, t) : f[q] = p
      <3> SUFFICES ASSUME NEW p \in kept PROVE \E q \in Aboard(n, t) : f[q] = p
        OBVIOUS
      <3> DEFINE q == <<IF p[1] < i THEN p[1] ELSE p[1] - 1, p[2]>>
      <3>1. /\ p = <<p[1], p[2]>> /\ p[1] \in 1..Len(s) /\ p[2] \in 1..MaxBatch
            /\ p[2] \in Places(n, s[p[1]])
        BY <1>2 DEF Aboard
      <3>2. p[1] # i
        BY <3>1
      <3>3. q[1] \in 1..(Len(s) - 1) /\ t[q[1]] = s[p[1]]
        <4>1. CASE p[1] < i
          BY <1>1, <3>1, <4>1
        <4>2. CASE ~(p[1] < i)
          <5>1. q[1] = p[1] - 1 /\ p[1] - 1 \in 1..(Len(s) - 1) /\ ~(p[1] - 1 < i)
            BY <1>1, <3>1, <3>2, <4>2
          <5>2. t[p[1] - 1] = s[(p[1] - 1) + 1] /\ (p[1] - 1) + 1 = p[1]
            BY <1>1, <3>1, <5>1
          <5> QED
            BY <5>1, <5>2
        <4> QED
          BY <4>1, <4>2
      <3>4. q \in Aboard(n, t)
        BY <1>2, <3>1, <3>3 DEF Aboard
      <3>5. f[q] = p
        BY <1>1, <3>1, <3>2, <3>4
      <3> QED
        BY <3>4, <3>5
    <2> HIDE DEF kept
    <2> QED
      BY <2>1, <2>2, <2>3 DEF Bijection, Injection, Surjection, IsInjective
  <1>7. Cardinality(kept) = Cardinality(Aboard(n, t))
    BY <1>4, <1>6, FS_Bijection DEF ExistsBijection
  <1>8. Aboard(n, s) = kept \cup gone /\ kept \cap gone = {}
    BY <1>5
  <1>9. IsFiniteSet(kept)
    BY <1>4, FS_Subset
  <1>10. Cardinality({}) = 0
    BY FS_EmptySet
  <1> HIDE DEF gone, kept
  <1>11. Cardinality(kept \cup gone) = Cardinality(kept) + Cardinality(gone) - Cardinality(kept \cap gone)
    BY <1>3, <1>9, FS_Union
  <1>12. Cardinality(kept \cap gone) = 0
    BY <1>8, <1>10
  <1>13. Cardinality(Aboard(n, s)) = Cardinality(kept \cup gone)
    BY <1>8
  <1>14. Cardinality(Aboard(n, s)) = Cardinality(Aboard(n, t)) + Times(n, s[i])
    BY <1>3, <1>4, <1>7, <1>11, <1>12, <1>13
  <1> QED
    BY <1>14 DEF t

-----------------------------------------------------------------------------
(* Types *)

LEMMA InitInv == Init => TypeOK /\ LeftInv
  <1> SUFFICES ASSUME Init PROVE TypeOK /\ LeftInv
    OBVIOUS
  <1>1. TypeOK
    BY AuditAssumption DEF Init, TypeOK
  <1>2. LeftInv
    BY AuditAssumption DEF Init, LeftInv, Positions
  <1> QED
    BY <1>1, <1>2

\* A batch that is not empty joins the batches under way.
LEMMA LaunchFact ==
  ASSUME flights \in Seq(Batch), NEW b \in Seq(Positions), Len(b) =< MaxBatch, Launch(b)
  PROVE  /\ b # <<>> => b \in Batch /\ flights' = Append(flights, b)
         /\ b = <<>> => flights' = flights
         /\ flights' \in Seq(Batch)
  BY AuditAssumption DEF Launch, Batch

LEMMA DeliverType == TypeOK /\ LeftInv /\ Deliver => TypeOK' /\ LeftInv'
  <1> SUFFICES ASSUME TypeOK, LeftInv, Deliver PROVE TypeOK' /\ LeftInv'
    OBVIOUS
  <1> DEFINE n == offset + 1
  <1>1. /\ end \in 0..MaxEvents /\ offset \in 0..end /\ committed \in 0..offset /\ MaxEvents \in Nat
        /\ offset < end /\ offset' = n /\ end' = end /\ committed' = committed /\ status' = status
        /\ status # "down" /\ rows' = rows
        /\ deliveries' = [deliveries EXCEPT ![n] = deliveries[n] + 1]
    BY AuditAssumption DEF TypeOK, Deliver, topicVars
  <1>2. n \in Positions /\ n \in (offset + 1) .. MaxEvents
    BY <1>1 DEF Positions
  <1>3. deliveries \in [Positions -> 0..MaxDeliveries] /\ deliveries[n] < MaxDeliveries
    BY <1>2 DEF TypeOK, LeftInv
  <1>4. deliveries' \in [Positions -> 0..MaxDeliveries]
    BY <1>1, <1>2, <1>3, AuditAssumption
  <1>5. Append(buffer, n) \in Seq(Positions) /\ Len(Append(buffer, n)) = Len(buffer) + 1 /\ Len(buffer) \in Nat
    BY <1>2 DEF TypeOK
  <1>6. /\ buffer' \in Seq(Positions) /\ Len(buffer') < MaxBatch /\ flights' \in Seq(Batch)
        /\ faults' \subseteq {"insert", "exit", "late"}
    <2> DEFINE more == Append(buffer, n)
    <2>1. more \in Seq(Positions) /\ Len(more) = Len(buffer) + 1 /\ Len(buffer) \in Nat
      BY <1>5
    <2>2. Len(buffer) < MaxBatch /\ MaxBatch \in Nat /\ MaxBatch > 0 /\ flights \in Seq(Batch)
      BY AuditAssumption DEF TypeOK
    <2>3. buffer \in Seq(Positions) /\ faults \subseteq {"insert", "exit", "late"}
      BY DEF TypeOK
    <2>4. <<>> \in Seq(Positions) /\ Len(<<>>) = 0
      OBVIOUS
    <2>5. \/ Len(buffer) + 1 # MaxBatch /\ buffer' = more /\ UNCHANGED <<flights, faults>>
          \/ Len(buffer) + 1 = MaxBatch /\ Launch(more) /\ buffer' = <<>> /\ UNCHANGED faults
          \/ faults' = faults \cup {"late"} /\ UNCHANGED <<buffer, flights>>
      BY DEF Deliver
    <2> HIDE DEF more
    <2>6. CASE Len(buffer) + 1 # MaxBatch /\ buffer' = more /\ UNCHANGED <<flights, faults>>
      BY <2>1, <2>2, <2>3, <2>6
    <2>7. CASE Len(buffer) + 1 = MaxBatch /\ Launch(more) /\ buffer' = <<>> /\ UNCHANGED faults
      <3>1. flights' \in Seq(Batch)
        BY <2>1, <2>2, <2>7, LaunchFact
      <3> QED
        BY <2>2, <2>3, <2>4, <2>7, <3>1
    <2>8. CASE faults' = faults \cup {"late"} /\ UNCHANGED <<buffer, flights>>
      BY <2>2, <2>3, <2>8
    <2> QED
      BY <2>5, <2>6, <2>7, <2>8
  <1>7. TypeOK'
    BY <1>1, <1>4, <1>6 DEF TypeOK
  <1>8. LeftInv'
    BY <1>1, <1>2, <1>3 DEF LeftInv, Positions
  <1> QED
    BY <1>7, <1>8

LEMMA NextType == TypeOK /\ LeftInv /\ [Next]_vars => TypeOK' /\ LeftInv'
  <1> SUFFICES ASSUME TypeOK, LeftInv, [Next]_vars PROVE TypeOK' /\ LeftInv'
    OBVIOUS
  <1> USE AuditAssumption
  <1>1. CASE Emit
    BY <1>1 DEF Emit, TypeOK, LeftInv, MayRedeliver, storeVars
  <1>2. CASE CommitOffset
    BY <1>2 DEF CommitOffset, TypeOK, LeftInv, storeVars
  <1>3. CASE Rejoin
    BY <1>3 DEF Rejoin, TypeOK, LeftInv, MayRedeliver, topicVars, storeVars
  <1>4. CASE Deliver
    BY <1>4, DeliverType
  <1>5. CASE Timer
    <2>1. flights' \in Seq(Batch)
      BY <1>5, LaunchFact DEF Timer, TypeOK
    <2>2. TypeOK'
      BY <1>5, <2>1 DEF Timer, TypeOK, topicVars
    <2>3. LeftInv'
      BY <1>5 DEF Timer, LeftInv, MayRedeliver, topicVars
    <2> QED
      BY <2>2, <2>3
  <1>6. ASSUME NEW i \in DOMAIN flights, Complete(i) PROVE TypeOK' /\ LeftInv'
    <2>1. RemoveAt(flights, i) \in Seq(Batch)
      BY RemovedFact DEF TypeOK
    <2>2. \A n \in Positions : Times(n, flights[i]) \in Nat
      <3>1. flights[i] \in Seq(Positions)
        BY DEF TypeOK, Batch
      <3> QED
        BY <3>1, PlacesFinite
    <2>3. CASE Insert(i)
      <3>1. TypeOK'
        BY <2>1, <2>2, <2>3 DEF Insert, TypeOK, topicVars
      <3>2. LeftInv'
        BY <2>3 DEF Insert, LeftInv, MayRedeliver, topicVars
      <3> QED
        BY <3>1, <3>2
    <2>4. CASE InsertFails(i)
      <3>1. TypeOK'
        BY <2>1, <2>4 DEF InsertFails, TypeOK, topicVars
      <3>2. LeftInv'
        BY <2>4 DEF InsertFails, LeftInv, MayRedeliver, topicVars
      <3> QED
        BY <3>1, <3>2
    <2> QED
      BY <1>6, <2>3, <2>4 DEF Complete
  <1>7. CASE Stop
    <2>1. flights' \in Seq(Batch)
      BY <1>7, LaunchFact DEF Stop, TypeOK
    <2>2. TypeOK'
      BY <1>7, <2>1 DEF Stop, TypeOK, topicVars
    <2>3. LeftInv'
      BY <1>7 DEF Stop, LeftInv, MayRedeliver, topicVars
    <2> QED
      BY <2>2, <2>3
  <1>8. CASE Exit
    <2>1. /\ buffer' \in Seq(Positions) /\ Len(buffer') = 0 /\ flights' \in Seq(Batch)
          /\ faults' \subseteq {"insert", "exit", "late"}
      <3>1. <<>> \in Seq(Positions) /\ <<>> \in Seq(Batch) /\ Len(<<>>) = 0
        OBVIOUS
      <3>2. faults' \subseteq {"insert", "exit", "late"}
        BY <1>8 DEF Exit, TypeOK
      <3> QED
        BY <1>8, <3>1, <3>2 DEF Exit
    <2>3. TypeOK'
      BY <1>8, <2>1 DEF Exit, TypeOK, topicVars
    <2>2. LeftInv'
      BY <1>8 DEF Exit, LeftInv, MayRedeliver, topicVars
    <2> QED
      BY <2>2, <2>3
  <1>9. CASE Restart
    BY <1>9 DEF Restart, TypeOK, LeftInv, MayRedeliver, topicVars, storeVars
  <1>10. CASE UNCHANGED vars
    BY <1>10 DEF vars, topicVars, storeVars, TypeOK, LeftInv, MayRedeliver
  <1> QED
    BY <1>1, <1>2, <1>3, <1>4, <1>5, <1>6, <1>7, <1>8, <1>9, <1>10 DEF Next

-----------------------------------------------------------------------------
(* One row for each delivery *)

\* Event n, of OneRowPerDelivery.
RowsInv(n) ==
    /\ rows[n] + InMemory(n) =< deliveries[n]
    /\ faults = {} => rows[n] + InMemory(n) = deliveries[n]

LEMMA MemoryFact ==
  ASSUME TypeOK, NEW n \in Positions
  PROVE  /\ Times(n, buffer) \in Nat /\ Cardinality(Aboard(n, flights)) \in Nat
         /\ InMemory(n) = Times(n, buffer) + Cardinality(Aboard(n, flights))
         /\ rows[n] \in Nat /\ deliveries[n] \in Nat
  <1>1. Times(n, buffer) \in Nat
    BY PlacesFinite DEF TypeOK
  <1>2. Cardinality(Aboard(n, flights)) \in Nat
    BY AboardFinite DEF TypeOK
  <1> QED
    BY <1>1, <1>2, AuditAssumption DEF TypeOK, InMemory

\* The buffer becomes a batch under way.
LEMMA LaunchMemory ==
  ASSUME flights \in Seq(Batch), NEW b \in Seq(Positions), Len(b) =< MaxBatch, Launch(b),
         NEW n
  PROVE  Cardinality(Aboard(n, flights'))  = Cardinality(Aboard(n, flights)) + Times(n, b)
  <1>1. CASE b # <<>>
    <2>1. b \in Batch /\ flights' = Append(flights, b)
      BY <1>1, LaunchFact
    <2> QED
      BY <2>1, AboardAppend
  <1>2. CASE b = <<>>
    <2>1. flights' = flights /\ Times(n, b) = 0
      BY <1>2, LaunchFact, TimesEmpty
    <2>2. Cardinality(Aboard(n, flights)) \in Nat
      BY AboardFinite
    <2> QED
      BY <2>1, <2>2
  <1> QED
    BY <1>1, <1>2

\* A delivery puts the event into memory, unless the instance is stopping.
LEMMA DeliverRows ==
  ASSUME TypeOK, TypeOK', Deliver, NEW n \in Positions, RowsInv(n)
  PROVE  RowsInv(n)'
  <1> DEFINE m == offset + 1
             once == IF m = n THEN 1 ELSE 0
             more == Append(buffer, m)
  <1>1. m \in Positions /\ rows' = rows /\ deliveries' = [deliveries EXCEPT ![m] = deliveries[m] + 1]
    BY AuditAssumption DEF TypeOK, Deliver, Positions
  <1>2. /\ Times(n, buffer) \in Nat /\ Cardinality(Aboard(n, flights)) \in Nat
        /\ InMemory(n) = Times(n, buffer) + Cardinality(Aboard(n, flights))
        /\ rows[n] \in Nat /\ deliveries[n] \in Nat
    BY MemoryFact
  <1>3. deliveries'[n] = deliveries[n] + once /\ rows'[n] = rows[n] /\ once \in Nat
    BY <1>1 DEF TypeOK
  <1>4. more \in Seq(Positions) /\ Len(more) = Len(buffer) + 1 /\ Times(n, more) = Times(n, buffer) + once
    BY <1>1, TimesAppend DEF TypeOK
  <1>5. InMemory(n)' = Times(n, buffer') + Cardinality(Aboard(n, flights'))
    BY DEF InMemory
  <1>6. \/ Len(buffer) + 1 # MaxBatch /\ buffer' = more /\ UNCHANGED <<flights, faults>>
        \/ Len(buffer) + 1 = MaxBatch /\ Launch(more) /\ buffer' = <<>> /\ UNCHANGED faults
        \/ faults' = faults \cup {"late"} /\ UNCHANGED <<buffer, flights>>
    BY DEF Deliver
  <1> HIDE DEF m, once, more
  <1>7. CASE Len(buffer) + 1 # MaxBatch /\ buffer' = more /\ UNCHANGED <<flights, faults>>
    <2>1. InMemory(n)' = InMemory(n) + once /\ faults' = faults
      BY <1>2, <1>3, <1>4, <1>5, <1>7
    <2> QED
      BY <1>2, <1>3, <2>1 DEF RowsInv
  <1>8. CASE Len(buffer) + 1 = MaxBatch /\ Launch(more) /\ buffer' = <<>> /\ UNCHANGED faults
    <2>1. flights \in Seq(Batch) /\ Len(buffer) \in Nat /\ MaxBatch \in Nat
      BY AuditAssumption DEF TypeOK
    <2>2. Cardinality(Aboard(n, flights')) = Cardinality(Aboard(n, flights)) + Times(n, more)
      BY <1>4, <1>8, <2>1, LaunchMemory
    <2>3. Times(n, buffer') = 0
      BY <1>8, TimesEmpty
    <2>4. InMemory(n)' = InMemory(n) + once /\ faults' = faults
      BY <1>2, <1>3, <1>4, <1>5, <1>8, <2>2, <2>3
    <2> QED
      BY <1>2, <1>3, <2>4 DEF RowsInv
  <1>9. CASE faults' = faults \cup {"late"} /\ UNCHANGED <<buffer, flights>>
    <2>1. InMemory(n)' = InMemory(n) /\ faults' # {}
      BY <1>2, <1>5, <1>9
    <2> QED
      BY <1>2, <1>3, <2>1 DEF RowsInv
  <1> QED
    BY <1>6, <1>7, <1>8, <1>9

\* The timer and onModuleDestroy pass the whole buffer on.
LEMMA FlushRows ==
  ASSUME TypeOK, NEW n \in Positions, RowsInv(n),
         Launch(buffer), buffer' = <<>>, UNCHANGED <<rows, deliveries, faults>>
  PROVE  RowsInv(n)'
  <1>1. /\ Times(n, buffer) \in Nat /\ Cardinality(Aboard(n, flights)) \in Nat
        /\ InMemory(n) = Times(n, buffer) + Cardinality(Aboard(n, flights))
    BY MemoryFact
  <1>2. flights \in Seq(Batch) /\ buffer \in Seq(Positions) /\ Len(buffer) =< MaxBatch
    BY AuditAssumption DEF TypeOK
  <1>3. Cardinality(Aboard(n, flights')) = Cardinality(Aboard(n, flights)) + Times(n, buffer)
    BY <1>2, LaunchMemory
  <1>4. Times(n, buffer') = 0
    BY TimesEmpty
  <1>5. InMemory(n)' = Times(n, buffer') + Cardinality(Aboard(n, flights'))
    BY DEF InMemory
  <1>6. InMemory(n)' = InMemory(n)
    BY <1>1, <1>3, <1>4, <1>5
  <1> QED
    BY <1>6 DEF RowsInv

\* A batch leaves memory, and becomes rows or a fault.
LEMMA CompleteRows ==
  ASSUME TypeOK, NEW i \in DOMAIN flights, Complete(i), NEW n \in Positions, RowsInv(n)
  PROVE  RowsInv(n)'
  <1> DEFINE t == Times(n, flights[i])
  <1>1. /\ Times(n, buffer) \in Nat /\ Cardinality(Aboard(n, flights)) \in Nat
        /\ InMemory(n) = Times(n, buffer) + Cardinality(Aboard(n, flights))
        /\ rows[n] \in Nat /\ deliveries[n] \in Nat
    BY MemoryFact
  <1>2. flights \in Seq(Batch) /\ flights[i] \in Batch
    BY DEF TypeOK
  <1>3. RemoveAt(flights, i) \in Seq(Batch)
    BY <1>2, RemovedFact
  <1>4. t \in Nat
    BY <1>2, InBatch
  <1>5. Cardinality(Aboard(n, RemoveAt(flights, i))) \in Nat
    BY <1>3, AboardFinite
  <1>6. Cardinality(Aboard(n, flights)) = Cardinality(Aboard(n, RemoveAt(flights, i))) + t
    BY <1>2, AboardRemove
  <1>7. InMemory(n)' = Times(n, buffer') + Cardinality(Aboard(n, flights'))
    BY DEF InMemory
  <1>8. buffer' = buffer /\ flights' = RemoveAt(flights, i) /\ deliveries' = deliveries
    BY DEF Complete, Insert, InsertFails
  <1> HIDE DEF t
  <1>9. InMemory(n)' = Times(n, buffer) + Cardinality(Aboard(n, RemoveAt(flights, i)))
    BY <1>7, <1>8
  <1>10. InMemory(n) = InMemory(n)' + t /\ InMemory(n)' \in Nat
    BY <1>1, <1>4, <1>5, <1>6, <1>9
  <1>11. \/ rows'[n] = rows[n] + t /\ faults' = faults
         \/ rows' = rows /\ faults' # {}
    BY DEF Complete, Insert, InsertFails, t
  <1> QED
    BY <1>1, <1>4, <1>8, <1>10, <1>11 DEF RowsInv

\* What is in memory is lost with the process.
LEMMA ExitRows ==
  ASSUME TypeOK, Exit, NEW n \in Positions, RowsInv(n)
  PROVE  RowsInv(n)'
  <1>1. /\ Times(n, buffer) \in Nat /\ Cardinality(Aboard(n, flights)) \in Nat
        /\ InMemory(n) = Times(n, buffer) + Cardinality(Aboard(n, flights))
        /\ rows[n] \in Nat /\ deliveries[n] \in Nat
    BY MemoryFact
  <1>2. Times(n, buffer') = 0 /\ Cardinality(Aboard(n, flights')) = 0
    BY TimesEmpty, AboardEmpty DEF Exit
  <1>3. InMemory(n)' = Times(n, buffer') + Cardinality(Aboard(n, flights'))
    BY DEF InMemory
  <1>4. InMemory(n)' = 0
    BY <1>2, <1>3
  <1>5. rows' = rows /\ deliveries' = deliveries
    BY DEF Exit
  <1>6. CASE buffer = <<>> /\ flights = <<>>
    <2>1. faults' = faults
      BY <1>6 DEF Exit
    <2>2. InMemory(n) = 0
      BY <1>1, <1>6, TimesEmpty, AboardEmpty
    <2> QED
      BY <1>4, <1>5, <2>1, <2>2 DEF RowsInv
  <1>7. CASE buffer # <<>> \/ flights # <<>>
    <2>1. faults' # {}
      BY <1>7 DEF Exit
    <2> QED
      BY <1>1, <1>4, <1>5, <2>1 DEF RowsInv
  <1> QED
    BY <1>6, <1>7

\* Whatever else happens leaves the event where it is.
LEMMA OtherRows ==
  ASSUME NEW n, RowsInv(n), UNCHANGED <<buffer, flights, rows, deliveries, faults>>
  PROVE  RowsInv(n)'
  BY DEF RowsInv, InMemory

LEMMA NextRows ==
  ASSUME TypeOK, TypeOK', [Next]_vars, NEW n \in Positions, RowsInv(n)
  PROVE  RowsInv(n)'
  <1>1. CASE Emit \/ CommitOffset \/ Rejoin \/ Restart \/ UNCHANGED vars
    BY <1>1, OtherRows DEF Emit, CommitOffset, Rejoin, Restart, vars, storeVars
  <1>2. CASE Deliver
    BY <1>2, DeliverRows
  <1>3. CASE Timer \/ Stop
    BY <1>3, FlushRows DEF Timer, Stop
  <1>4. ASSUME NEW i \in DOMAIN flights, Complete(i) PROVE RowsInv(n)'
    BY <1>4, CompleteRows
  <1>5. CASE Exit
    BY <1>5, ExitRows
  <1> QED
    BY <1>1, <1>2, <1>3, <1>4, <1>5 DEF Next

LEMMA RowsFact == OneRowPerDelivery <=> \A n \in Positions : RowsInv(n)
  BY DEF OneRowPerDelivery, RowsInv

LEMMA InitRows == Init => OneRowPerDelivery
  <1> SUFFICES ASSUME Init, NEW n \in Positions PROVE RowsInv(n)
    BY RowsFact
  <1>1. Times(n, buffer) = 0 /\ Cardinality(Aboard(n, flights)) = 0
    BY TimesEmpty, AboardEmpty DEF Init
  <1> QED
    BY <1>1 DEF Init, RowsInv, InMemory

LEMMA NextInv == Inv /\ [Next]_vars => Inv'
  <1> SUFFICES ASSUME Inv, [Next]_vars PROVE Inv'
    OBVIOUS
  <1>1. TypeOK' /\ LeftInv'
    BY NextType DEF Inv
  <1>2. \A n \in Positions : RowsInv(n)
    BY RowsFact DEF Inv
  <1>3. \A n \in Positions : RowsInv(n)'
    BY <1>1, <1>2, NextRows DEF Inv
  <1>4. OneRowPerDelivery'
    BY <1>3 DEF OneRowPerDelivery, RowsInv
  <1> QED
    BY <1>1, <1>4 DEF Inv

LEMMA InvAlways == Spec => []Inv
  <1>1. Init => Inv
    BY InitInv, InitRows DEF Inv
  <1> QED
    BY <1>1, NextInv, PTL DEF Spec

-----------------------------------------------------------------------------
\* The variables of AuditPipeline always have their types: the buffer is never
\* full between two events, the consumer never commits more than it has handled,
\* and every batch under way has between one and MaxBatch events.
THEOREM TypeCorrect == Spec => []TypeOK
  <1>1. Inv => TypeOK
    BY DEF Inv
  <1> QED
    BY <1>1, InvAlways, PTL

\* For any number of events, deliveries and batches under way: every delivery of
\* an event becomes exactly one row or is still on its way, unless an INSERT
\* failed, the process ended with events in memory, or the instance was stopping
\* when the event came; and it never becomes two.
THEOREM RowsMatchDeliveries == Spec => []OneRowPerDelivery
  <1>1. Inv => OneRowPerDelivery
    BY DEF Inv
  <1> QED
    BY <1>1, InvAlways, PTL
=============================================================================
