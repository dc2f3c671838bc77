------------------------------- MODULE Ingest -------------------------------
(***************************************************************************)
(* One stream of the bronze ingestion: the Kafka topic, the `consume` loop *)
(* of src/ingestion/consumer.py with its nested `flush`, the DLQWriter of  *)
(* src/ingestion/dlq.py, and the two Delta tables the loop writes.         *)
(*                                                                         *)
(* A record is a pair <<partition, offset>>.  Tables and in-memory buffers *)
(* are bags of records, written as functions from records to counts: what  *)
(* the properties tell apart is whether a record is there and how often.   *)
(* Each external effect of `flush` is a step of its own, so the process    *)
(* may stop between any two of them.                                       *)
(***************************************************************************)
EXTENDS Integers, FiniteSets, Functions

CONSTANTS
    Partitions,     \* the partitions of the raw topic
    LogLen,         \* bound: records each partition ever holds
    Kinds,          \* the kinds of record the producers may write
    BatchSize,      \* --batch-size
    MaxMessages,    \* --max-messages
    QueueLimit,     \* the producer's local queue (queue.buffering.max.messages)
    MaxFaults       \* bound: crashes, broker errors and rebalances in a run

\* "corrupt": the contract refuses it.  "wide": the contract accepts it, but
\* one of its counts does not fit the int32 columns of OCCUPANCY_SCHEMA.
AllKinds == {"valid", "wide", "corrupt"}

ASSUME IngestAssumption ==
    /\ IsFiniteSet(Partitions)
    /\ LogLen \in Nat
    /\ Kinds \subseteq AllKinds
    /\ BatchSize \in Nat \ {0}
    /\ MaxMessages \in Nat \ {0}
    /\ QueueLimit \in Nat \ {0}
    /\ MaxFaults \in Nat

Offsets == 0 .. LogLen - 1
Records == Partitions \X Offsets

VARIABLES
    kind,       \* what each record holds, the same at every delivery
    end,        \* per partition, the high watermark: records 0 .. end-1 exist
    committed,  \* per partition, the group's committed offset
    bronze,     \* Delta table bronze_<stream>
    quarantine, \* Delta table quarantine, this stream's rows
    dlqTopic,   \* records with a copy on the dlq_<stream> topic
    pc,         \* where the process is in `consume`, or how it stopped
    last,       \* the loop is over: the flush under way is the final one
    position,   \* per partition, the offset the next poll returns
    batch,      \* validated rows not yet appended to bronze
    rejects,    \* DLQWriter._buffer
    queued,     \* envelopes in the DLQ producer's local queue
    consumed,   \* accepted + rejected
    faults      \* faults so far (bounded by MaxFaults)

topicVars == <<kind, end>>
tableVars == <<bronze, quarantine>>
procVars  == <<last, position, batch, rejects, consumed>>
vars == <<kind, end, committed, bronze, quarantine, dlqTopic, pc, last,
          position, batch, rejects, queued, consumed, faults>>

Bag      == [Records -> Nat]
NoRows   == [r \in Records |-> 0]
Add(B, r)    == [B EXCEPT ![r] = @ + 1]
Remove(B, r) == [B EXCEPT ![r] = @ - 1]
Union(B, C)  == [r \in Records |-> B[r] + C[r]]
Size(B)      == FoldFunction(+, 0, B)

Stopped == {"down", "done", "failed"}
Running == {"poll", "append", "quarantine", "dlqFlush", "commit"}

Init ==
    /\ kind \in [Records -> Kinds]
    /\ end = [p \in Partitions |-> 0]
    /\ committed = [p \in Partitions |-> 0]
    /\ bronze = NoRows
    /\ quarantine = NoRows
    /\ dlqTopic = {}
    /\ pc = "down"
    /\ last = FALSE
    /\ position = [p \in Partitions |-> 0]
    /\ batch = NoRows
    /\ rejects = NoRows
    /\ queued = NoRows
    /\ consumed = 0
    /\ faults = 0

(***************************************************************************)
(* The process ends.  Its memory goes with it, the envelopes still in the  *)
(* DLQ producer's queue included; consumer.close() commits nothing, since  *)
(* enable.auto.commit is off.                                              *)
(***************************************************************************)
Exit(how) ==
    /\ pc' = how
    /\ last' = FALSE
    /\ batch' = NoRows
    /\ rejects' = NoRows
    /\ queued' = NoRows
    /\ consumed' = 0
    /\ position' = committed'

-----------------------------------------------------------------------------
(***************************************************************************)
(* The topic and the broker (external).                                    *)
(***************************************************************************)
\* A producer appends the next record of partition p.
Produce(p) ==
    /\ end[p] < LogLen
    /\ end' = [end EXCEPT ![p] = @ + 1]
    /\ UNCHANGED <<kind, committed, tableVars, dlqTopic, pc, procVars, queued, faults>>

\* The DLQ producer's background thread gets one queued envelope delivered.
DeliverDlq(r) ==
    /\ queued[r] > 0
    /\ queued' = Remove(queued, r)
    /\ dlqTopic' = dlqTopic \cup {r}
    /\ UNCHANGED <<topicVars, committed, tableVars, pc, procVars, faults>>

-----------------------------------------------------------------------------
(***************************************************************************)
(* consume: start, poll, accept, reject, stop.                             *)
(***************************************************************************)
\* Mutants of Start: a group that begins at either end of the log.
StartAtEnd ==
    /\ pc \in Stopped
    /\ pc' = "poll"
    /\ position' = end
    /\ UNCHANGED <<topicVars, committed, tableVars, dlqTopic, last, batch,
                   rejects, queued, consumed, faults>>

StartAtBeginning ==
    /\ pc \in Stopped
    /\ pc' = "poll"
    /\ position' = [p \in Partitions |-> 0]
    /\ UNCHANGED <<topicVars, committed, tableVars, dlqTopic, last, batch,
                   rejects, queued, consumed, faults>>

\* A new process of the group: it resumes from the committed offsets.
Start ==
    /\ pc \in Stopped
    /\ pc' = "poll"
    /\ position' = committed
    /\ UNCHANGED <<topicVars, committed, tableVars, dlqTopic, last, batch,
                   rejects, queued, consumed, faults>>

\* Mutant of Polled: offsets committed by the poll.
PolledAutoCommit(p) ==
    /\ pc = "poll"
    /\ consumed < MaxMessages
    /\ position[p] < end[p]
    /\ position' = [position EXCEPT ![p] = @ + 1]
    /\ committed' = position'
    /\ consumed' = consumed + 1
    /\ UNCHANGED <<topicVars, tableVars, dlqTopic, last, faults>>

\* poll() returns the next record of partition p.
Polled(p) ==
    /\ pc = "poll"
    /\ consumed < MaxMessages
    /\ position[p] < end[p]
    /\ position' = [position EXCEPT ![p] = @ + 1]
    /\ consumed' = consumed + 1
    /\ UNCHANGED <<topicVars, committed, tableVars, dlqTopic, last, faults>>

\* The contract accepts it; the batch is flushed once it is full.
Accept(p) ==
    LET r == <<p, position[p]>> IN
    /\ Polled(p)
    /\ kind[r] # "corrupt"
    /\ batch' = Add(batch, r)
    /\ pc' = IF Size(batch') >= BatchSize THEN "append" ELSE "poll"
    /\ UNCHANGED <<rejects, queued>>

\* The contract refuses it: DLQWriter.reject queues the envelope, then buffers it.
Reject(p) ==
    LET r == <<p, position[p]>> IN
    /\ Polled(p)
    /\ kind[r] = "corrupt"
    /\ Size(queued) < QueueLimit
    /\ queued' = Add(queued, r)
    /\ rejects' = Add(rejects, r)
    /\ UNCHANGED <<pc, batch>>

\* produce() raises BufferError on a full local queue; nothing catches it.
RejectOverflow(p) ==
    /\ pc = "poll"
    /\ consumed < MaxMessages
    /\ position[p] < end[p]
    /\ kind[<<p, position[p]>>] = "corrupt"
    /\ Size(queued) >= QueueLimit
    /\ UNCHANGED <<topicVars, committed, tableVars, dlqTopic, faults>>
    /\ Exit("failed")

\* Mutant of IdleStop: the loop returns without its final flush.
IdleStopUnflushed ==
    /\ pc = "poll"
    /\ consumed < MaxMessages
    /\ UNCHANGED <<topicVars, committed, tableVars, dlqTopic, faults>>
    /\ Exit("done")

\* poll() returned nothing for idle_timeout: the topic is drained, or the
\* broker or the group coordinator is slow.
IdleStop ==
    /\ pc = "poll"
    /\ consumed < MaxMessages
    /\ pc' = "append"
    /\ last' = TRUE
    /\ UNCHANGED <<topicVars, committed, tableVars, dlqTopic, position, batch,
                   rejects, queued, consumed, faults>>

\* max_messages were read.
LimitStop ==
    /\ pc = "poll"
    /\ consumed >= MaxMessages
    /\ pc' = "append"
    /\ last' = TRUE
    /\ UNCHANGED <<topicVars, committed, tableVars, dlqTopic, position, batch,
                   rejects, queued, consumed, faults>>

-----------------------------------------------------------------------------
(***************************************************************************)
(* flush, one external effect at a time.                                   *)
(***************************************************************************)
\* Mutant of AppendBronze: the batch is not reset.
AppendBronzeKeepsBatch ==
    /\ pc = "append"
    /\ \A r \in Records : batch[r] > 0 => kind[r] # "wide"
    /\ bronze' = Union(bronze, batch)
    /\ pc' = "quarantine"
    /\ UNCHANGED <<topicVars, committed, quarantine, dlqTopic, last, position, batch,
                   rejects, queued, consumed, faults>>

\* An empty batch writes nothing; a full one is one Delta commit.
AppendBronze ==
    /\ pc = "append"
    /\ \A r \in Records : batch[r] > 0 => kind[r] # "wide"
    /\ bronze' = Union(bronze, batch)
    /\ batch' = NoRows
    /\ pc' = "quarantine"
    /\ UNCHANGED <<topicVars, committed, quarantine, dlqTopic, last, position,
                   rejects, queued, consumed, faults>>

\* Mutant of AppendRefused: the error is caught and the batch let go.
AppendRefusedSkips ==
    /\ pc = "append"
    /\ \E r \in Records : batch[r] > 0 /\ kind[r] = "wide"
    /\ batch' = NoRows
    /\ pc' = "quarantine"
    /\ UNCHANGED <<topicVars, committed, tableVars, dlqTopic, last, position,
                   rejects, queued, consumed, faults>>

\* _to_arrow raises on a count outside int32, before anything is written.
AppendRefused ==
    /\ pc = "append"
    /\ \E r \in Records : batch[r] > 0 /\ kind[r] = "wide"
    /\ UNCHANGED <<topicVars, committed, tableVars, dlqTopic, faults>>
    /\ Exit("failed")

\* Mutant of AppendQuarantine: the buffer is cleared and nothing written.
AppendQuarantineLost ==
    /\ pc = "quarantine"
    /\ rejects' = NoRows
    /\ pc' = "dlqFlush"
    /\ UNCHANGED <<topicVars, committed, tableVars, dlqTopic, last, position,
                   batch, queued, consumed, faults>>

\* flush_to_quarantine appends the buffered rejections and clears the buffer.
AppendQuarantine ==
    /\ pc = "quarantine"
    /\ quarantine' = Union(quarantine, rejects)
    /\ rejects' = NoRows
    /\ pc' = "dlqFlush"
    /\ UNCHANGED <<topicVars, committed, bronze, dlqTopic, last, position,
                   batch, queued, consumed, faults>>

\* producer.flush(30) returns: the queue is empty ...
DlqFlushed ==
    /\ pc = "dlqFlush"
    /\ queued = NoRows
    /\ pc' = "commit"
    /\ UNCHANGED <<topicVars, committed, tableVars, dlqTopic, procVars, queued, faults>>

\* ... or the 30 seconds are over; the number it returns is not looked at.
DlqFlushTimeout ==
    /\ pc = "dlqFlush"
    /\ queued # NoRows
    /\ pc' = "commit"
    /\ UNCHANGED <<topicVars, committed, tableVars, dlqTopic, procVars, queued, faults>>

\* consumer.commit(asynchronous=False), and back to the loop.
Commit ==
    /\ pc = "commit"
    /\ ~last
    /\ position # committed
    /\ committed' = position
    /\ pc' = "poll"
    /\ UNCHANGED <<topicVars, tableVars, dlqTopic, procVars, queued, faults>>

\* The same for the final flush: the process then returns.
CommitLast ==
    /\ pc = "commit"
    /\ last
    /\ position # committed
    /\ committed' = position
    /\ UNCHANGED <<topicVars, tableVars, dlqTopic, faults>>
    /\ Exit("done")

\* No offset to commit.  The client may refuse the call (_NO_OFFSET), and
\* nothing catches that; or it lets it pass.
CommitNothing ==
    /\ pc = "commit"
    /\ position = committed
    /\ UNCHANGED <<topicVars, committed, tableVars, dlqTopic, faults>>
    /\ \/ last /\ Exit("done")
       \/ Exit("failed")

-----------------------------------------------------------------------------
(***************************************************************************)
(* Faults.                                                                 *)
(***************************************************************************)
Fault ==
    /\ faults < MaxFaults
    /\ faults' = faults + 1

\* The process is killed, between any two of the steps above.
Crash ==
    /\ Fault
    /\ pc \in Running
    /\ UNCHANGED <<topicVars, committed, tableVars, dlqTopic>>
    /\ Exit("down")

\* poll() returns an error message, or the broker refuses the commit: an
\* exception leaves `consume`.
BrokerError ==
    /\ Fault
    /\ pc \in {"poll", "commit"}
    /\ UNCHANGED <<topicVars, committed, tableVars, dlqTopic>>
    /\ Exit("failed")

\* Another member joined the group (both streams use CONSUMER_GROUP): this
\* poll() gives the partitions back and resumes from the committed offsets,
\* while batch and rejects keep what was already read.
Rebalance ==
    /\ Fault
    /\ pc = "poll"
    /\ position' = committed
    /\ UNCHANGED <<topicVars, committed, tableVars, dlqTopic, pc, last, batch,
                   rejects, queued, consumed>>

-----------------------------------------------------------------------------
Flush == AppendBronze \/ AppendRefused \/ AppendQuarantine \/ DlqFlushed
            \/ DlqFlushTimeout \/ Commit \/ CommitLast \/ CommitNothing

Consume == \/ \E p \in Partitions : Accept(p) \/ Reject(p) \/ RejectOverflow(p)
           \/ IdleStop \/ LimitStop \/ Flush

Next ==
    \/ \E p \in Partitions : Produce(p)
    \/ \E r \in Records : DeliverDlq(r)
    \/ Start
    \/ Consume
    \/ Crash \/ BrokerError \/ Rebalance

Spec == Init /\ [][Next]_vars

(***************************************************************************)
(* Fairness.  The process keeps executing, and a stopped one is started    *)
(* again (a retry, the next DAG run, an operator).  Reading is strongly    *)
(* fair: IdleStop may beat a record that is there, but a broker that       *)
(* answers at all does not lose that race forever.                         *)
(***************************************************************************)
Fairness ==
    /\ WF_vars(Start)
    /\ WF_vars(IdleStop \/ LimitStop \/ Flush)
    /\ \A p \in Partitions : SF_vars(Accept(p) \/ Reject(p))

FairSpec == Spec /\ Fairness

-----------------------------------------------------------------------------
TypeOK ==
    /\ kind \in [Records -> Kinds]
    /\ end \in [Partitions -> 0 .. LogLen]
    /\ committed \in [Partitions -> 0 .. LogLen]
    /\ bronze \in Bag
    /\ quarantine \in Bag
    /\ dlqTopic \subseteq Records
    /\ pc \in Stopped \cup Running
    /\ last \in BOOLEAN
    /\ position \in [Partitions -> 0 .. LogLen]
    /\ batch \in Bag
    /\ rejects \in Bag
    /\ queued \in Bag
    /\ consumed \in 0 .. MaxMessages
    /\ faults \in 0 .. MaxFaults


\* The records below an offset of each partition.
Below(f) == {r \in Records : r[2] < f[r[1]]}

\* r is in the table its kind belongs to.
Landed(r) == IF kind[r] = "corrupt" THEN quarantine[r] > 0 ELSE bronze[r] > 0

\* Rows of a table beyond the first of each record.
Surplus(B) == Size([r \in Records |-> IF B[r] > 1 THEN B[r] - 1 ELSE 0])

(***************************************************************************)
(* Nothing the group has committed can be missing: every record below a    *)
(* committed offset is in bronze if the contract accepts it and in         *)
(* quarantine if it does not, whatever stopped or was retried before       *)
(* ("Everything in this batch is now durably accounted for").              *)
(***************************************************************************)
CommittedAreAccounted ==
    \A r \in Below(committed) : Landed(r)

\* r is held in memory by the running process, where its kind belongs.
Held(r) == IF kind[r] = "corrupt" THEN rejects[r] > 0 ELSE batch[r] > 0

(***************************************************************************)
(* A running process never drops what it read: below its position, every   *)
(* record has landed or is held for the next flush, and the tables and     *)
(* buffers hold nothing the topic does not.                                *)
(***************************************************************************)
ReadIsHeldOrLanded ==
    /\ pc \in Running => \A r \in Below(position) : Landed(r) \/ Held(r)
    /\ \A r \in Records : Landed(r) \/ Held(r) => r \in Below(end)

(***************************************************************************)
(* A replay costs at most one batch per fault: bronze holds no more than   *)
(* BatchSize surplus rows for each crash, broker error or rebalance, and   *)
(* without any of them both tables hold every record at most once,         *)
(* however many processes ran, failed on bad data or stopped early.        *)
(***************************************************************************)
ReplayIsBounded ==
    /\ Surplus(bronze) <= faults * BatchSize
    /\ faults = 0 => Surplus(quarantine) = 0

(***************************************************************************)
(* A record that bronze cannot hold is never skipped: its partition's      *)
(* committed offset stays at or below it, so everything behind it waits.   *)
(***************************************************************************)
WideRecordBlocksPartition ==
    \A r \in Below(committed) : kind[r] # "wide"

(***************************************************************************)
(* Committed offsets do not rewind, on a retry or otherwise.               *)
(***************************************************************************)
CommittedNeverRewinds ==
    [][\A p \in Partitions : committed'[p] >= committed[p]]_vars

(***************************************************************************)
(* What src/ingestion/dlq.py says of a rejected record, "goes to two       *)
(* places": once its offset is committed, the dlq topic has its copy, or   *)
(* the producer still holds one to deliver.                                *)
(***************************************************************************)
RejectedReachDlqTopic ==
    \A r \in Below(committed) :
        kind[r] = "corrupt" => r \in dlqTopic \/ queued[r] > 0

=============================================================================
