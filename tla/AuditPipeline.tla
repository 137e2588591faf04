---------------------------- MODULE AuditPipeline ----------------------------
(***************************************************************************)
(* The audit events of Generic-IAM, from the Kafka topic to audit_logs:    *)
(* AuditConsumer hands each event to AuditService, which collects them     *)
(* with bufferTime(1000, null, 100) and inserts each batch without anybody *)
(* waiting for the result.  Kafka learns that an event is consumed when it *)
(* is in the buffer.                                                       *)
(*                                                                         *)
(* One instance reads one partition; an event is its position there.       *)
(***************************************************************************)
EXTENDS Integers, SequencesExt

CONSTANTS
    MaxEvents,       \* bound: the events of a behaviour
    MaxBatch,        \* the buffer size at which bufferTime does not wait
    MaxDeliveries    \* bound: how often one event is delivered

ASSUME AuditAssumption ==
    MaxEvents \in Nat /\ MaxBatch \in Nat \ {0} /\ MaxDeliveries \in Nat \ {0}

Positions == 1..MaxEvents

VARIABLES
    end,         \* how many events are in the topic
    offset,      \* how many of them the consumer has handled
    committed,   \* how many of them Kafka counts as consumed
    status,      \* of the instance; "stopping" after onModuleDestroy
    buffer,      \* the events bufferTime holds
    flights,     \* the batches whose INSERT is under way
    rows,        \* rows[n]: how many rows of audit_logs event n has
    deliveries,  \* history: how often event n was delivered
    faults       \* history: in which ways events have been lost

topicVars  == <<end, committed>>
storeVars  == <<flights, rows>>
vars == <<end, offset, committed, status, buffer, flights, rows, deliveries, faults>>

Init ==
    /\ end = 0 /\ offset = 0 /\ committed = 0
    /\ status = "up"
    /\ buffer = <<>> /\ flights = <<>>
    /\ rows = [n \in Positions |-> 0]
    /\ deliveries = [n \in Positions |-> 0]
    /\ faults = {}

-----------------------------------------------------------------------------
\* Where event n is in a batch, and how often.
Places(n, batch) == {k \in DOMAIN batch : batch[k] = n}
Times(n, batch)  == Cardinality(Places(n, batch))

(* The topic.  An emit() whose send fails leaves nothing behind. *)

Emit ==
    /\ end < MaxEvents
    /\ end' = end + 1
    /\ UNCHANGED <<offset, committed, status, buffer, storeVars, deliveries, faults>>

\* kafkajs commits now and then what its handlers have returned from.
CommitOffset ==
    /\ status # "down" /\ committed # offset
    /\ committed' = offset
    /\ UNCHANGED <<end, offset, status, buffer, storeVars, deliveries, faults>>

\* What the consumer would get again, it has not got MaxDeliveries times yet.
MayRedeliver == \A n \in (committed + 1) .. offset : deliveries[n] < MaxDeliveries

\* The consumer loses its membership and joins again: it goes on after the
\* last committed offset.
Rejoin ==
    /\ status # "down" /\ committed # offset /\ MayRedeliver
    /\ offset' = committed
    /\ UNCHANGED <<topicVars, status, buffer, storeVars, deliveries, faults>>

-----------------------------------------------------------------------------
(* AuditService *)

\* flushBatch is called, and not waited for.  filter() drops an empty batch.
Launch(batch) == flights' = IF batch = <<>> THEN flights ELSE Append(flights, batch)

\* Mutant: bufferTime without a maximal size.
DeliverUnbounded ==
    /\ offset < end
    /\ status = "up"
    /\ offset' = offset + 1
    /\ deliveries' = [deliveries EXCEPT ![offset + 1] = @ + 1]
    /\ buffer' = Append(buffer, offset + 1)
    /\ UNCHANGED <<topicVars, status, storeVars, faults>>

\* handleAuditLog: pushEvent.  When the instance is stopping the subject has
\* completed, and next() does nothing; the consumer is closed only later.
Deliver ==
    LET n == offset + 1
        full == Len(buffer) + 1 = MaxBatch
    IN
    /\ status # "down"
    /\ offset < end
    /\ offset' = n
    /\ deliveries' = [deliveries EXCEPT ![n] = @ + 1]
    /\ \/ /\ status = "up" /\ ~full
          /\ buffer' = Append(buffer, n)
          /\ UNCHANGED <<flights, faults>>
       \/ /\ status = "up" /\ full
          /\ Launch(Append(buffer, n)) /\ buffer' = <<>>
          /\ UNCHANGED faults
       \/ /\ status = "stopping"
          /\ faults' = faults \cup {"late"}
          /\ UNCHANGED <<buffer, flights>>
    /\ UNCHANGED <<topicVars, status, rows>>

\* Mutant: the timer leaves a buffer that is not full.
TimerWhenFull ==
    /\ status = "up" /\ Len(buffer) >= MaxBatch
    /\ Launch(buffer) /\ buffer' = <<>>
    /\ UNCHANGED <<topicVars, offset, status, rows, deliveries, faults>>

\* A second has passed since the last batch.
Timer ==
    /\ status = "up" /\ buffer # <<>>
    /\ Launch(buffer) /\ buffer' = <<>>
    /\ UNCHANGED <<topicVars, offset, status, rows, deliveries, faults>>

\* The INSERT of all rows of a batch.  The batches do not wait for each other.
Insert(i) ==
    /\ status # "down"
    /\ rows' = [n \in Positions |-> rows[n] + Times(n, flights[i])]
    /\ flights' = RemoveAt(flights, i)
    /\ UNCHANGED <<topicVars, offset, status, buffer, deliveries, faults>>

\* It fails, or one of the entities cannot be built: logged and forgotten.
InsertFails(i) ==
    /\ status # "down"
    /\ flights' = RemoveAt(flights, i)
    /\ faults' = faults \cup {"insert"}
    /\ UNCHANGED <<topicVars, offset, status, buffer, rows, deliveries>>

-----------------------------------------------------------------------------
(* The instance *)

\* Mutant: unsubscribe() without complete().
UnsubscribeOnly ==
    /\ status = "up"
    /\ status' = "stopping"
    /\ buffer' = <<>>
    /\ UNCHANGED <<topicVars, offset, storeVars, deliveries, faults>>

\* onModuleDestroy: complete() makes bufferTime emit what it holds.
Stop ==
    /\ status = "up"
    /\ status' = "stopping"
    /\ Launch(buffer) /\ buffer' = <<>>
    /\ UNCHANGED <<topicVars, offset, rows, deliveries, faults>>

\* The process ends, by a crash or because the shutdown hooks have run.  They
\* wait for no INSERT.
Exit ==
    /\ status # "down" /\ MayRedeliver
    /\ status' = "down"
    /\ buffer' = <<>> /\ flights' = <<>>
    /\ faults' = faults \cup {f \in {"exit"} : buffer # <<>> \/ flights # <<>>}
    /\ UNCHANGED <<topicVars, offset, rows, deliveries>>

Restart ==
    /\ status = "down"
    /\ status' = "up"
    /\ offset' = committed
    /\ UNCHANGED <<topicVars, buffer, storeVars, deliveries, faults>>

Complete(i) == Insert(i) \/ InsertFails(i)

Next ==
    \/ Emit \/ CommitOffset \/ Rejoin
    \/ Deliver \/ Timer
    \/ \E i \in DOMAIN flights : Complete(i)
    \/ Stop \/ Exit \/ Restart

Spec == Init /\ [][Next]_vars

\* Events are delivered while the instance runs, its timer fires, and
\* statements end, with a result or an error.
FairSpec ==
    /\ Spec
    /\ WF_vars(Deliver) /\ WF_vars(Timer)
    /\ WF_vars(\E i \in DOMAIN flights : Complete(i))

-----------------------------------------------------------------------------
(* Properties *)

Batch == {b \in Seq(Positions) : Len(b) \in 1..MaxBatch}

\* Type correctness.  The buffer is never full between two events.
TypeOK ==
    /\ end \in 0..MaxEvents /\ offset \in 0..end /\ committed \in 0..offset
    /\ status \in {"up", "stopping", "down"}
    /\ buffer \in Seq(Positions) /\ Len(buffer) < MaxBatch
    /\ flights \in Seq(Batch)
    /\ rows \in [Positions -> Nat]
    /\ deliveries \in [Positions -> 0..MaxDeliveries]
    /\ faults \subseteq {"insert", "exit", "late"}

\* Where event n is in the batches under way: the batch, and the place in it.
Aboard(n, batches) ==
    {p \in (DOMAIN batches) \X (1..MaxBatch) : p[2] \in Places(n, batches[p[1]])}

\* How often event n is in memory, on its way to the table.
InMemory(n) == Times(n, buffer) + Cardinality(Aboard(n, flights))

\* Each delivery of an event leads to one row, also when the consumer joins
\* again, and when the instance stops with a batch in the buffer.  It leads to none
\* only after a failed INSERT, an exit with events in memory, or a delivery to an
\* instance that is stopping; and it never leads to two.
OneRowPerDelivery ==
    \A n \in Positions :
        /\ rows[n] + InMemory(n) =< deliveries[n]
        /\ faults = {} => rows[n] + InMemory(n) = deliveries[n]

\* Every event of the topic gets a row, as long as the instance runs and no event
\* has been lost in one of the three ways.
EventuallyStored ==
    \A n \in Positions :
        n =< end ~> rows[n] > 0 \/ faults # {} \/ status # "up"
=============================================================================
