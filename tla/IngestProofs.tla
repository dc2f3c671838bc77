---------------------------- MODULE IngestProofs ----------------------------
(***************************************************************************)
(* Proofs about Ingest, for every number of partitions, records, faults    *)
(* and every batch size.                                                   *)
(***************************************************************************)
EXTENDS IngestHandoff, FiniteSums

\* Committed offsets do not pass the read position, nor that the log's end.
OffsetsOrdered ==
    \A p \in Partitions : committed[p] <= position[p] /\ position[p] <= end[p]

\* What each step of flush leaves in memory.
FlushDrains ==
    /\ pc \in {"quarantine", "dlqFlush", "commit"} => batch = NoRows
    /\ pc \in {"dlqFlush", "commit"} => rejects = NoRows

\* Rows and buffered rows are records of the topic, of the table's kind.
Routed ==
    \A r \in Records :
        /\ bronze[r] > 0 => kind[r] = "valid" /\ r \in Below(end)
        /\ batch[r] > 0 => kind[r] # "corrupt" /\ r \in Below(end)
        /\ quarantine[r] > 0 => kind[r] = "corrupt" /\ r \in Below(end)
        /\ rejects[r] > 0 => kind[r] = "corrupt" /\ r \in Below(end)

\* Below the read position of a running process everything is held or landed.
Accounted == pc \in Running => \A r \in Below(position) : Landed(r) \/ Held(r)

\* The inductive invariant.
IngestInv ==
    /\ TypeOK
    /\ OffsetsOrdered
    /\ FlushDrains
    /\ Routed
    /\ Accounted
    /\ CommittedAreAccounted

USE DEF Stopped, Running, Bag, NoRows, Add, Remove, Union

-----------------------------------------------------------------------------
(***************************************************************************)
(* Lemmas on records and offsets.                                          *)
(***************************************************************************)
(* A record is a partition and an offset. *)
LEMMA RecordPair ==
    ASSUME NEW r \in Records
    PROVE  r[1] \in Partitions /\ r[2] \in Offsets /\ r[2] \in Int /\ r = <<r[1], r[2]>>
BY IngestAssumption DEF Records, Offsets

(* The next record of a partition exists and is not below its own offset. *)
LEMMA NextRecord ==
    ASSUME NEW p \in Partitions, NEW f \in [Partitions -> 0 .. LogLen],
           NEW g \in [Partitions -> 0 .. LogLen], f[p] < g[p]
    PROVE  <<p, f[p]>> \in Records /\ <<p, f[p]>> \in Below(g)
BY IngestAssumption DEF Records, Offsets, Below

(* Moving one partition's offset by one adds exactly that record. *)
LEMMA BelowNext ==
    ASSUME NEW p \in Partitions, NEW f \in [Partitions -> 0 .. LogLen],
           NEW r \in Below([f EXCEPT ![p] = @ + 1])
    PROVE  r \in Below(f) \/ r = <<p, f[p]>>
<1>1. r \in Records /\ r[2] < [f EXCEPT ![p] = @ + 1][r[1]]
  BY DEF Below
<1>2. r[1] \in Partitions /\ r[2] \in Int /\ r = <<r[1], r[2]>>
  BY <1>1, RecordPair
<1>3. CASE r[1] = p
  BY <1>1, <1>2, <1>3, IngestAssumption DEF Below
<1>4. CASE r[1] # p
  BY <1>1, <1>2, <1>4 DEF Below
<1>5. QED
  BY <1>3, <1>4

(* Offsets that are pointwise larger have more records below them. *)
LEMMA BelowMonotone ==
    ASSUME NEW f \in [Partitions -> 0 .. LogLen], NEW g \in [Partitions -> 0 .. LogLen],
           \A p \in Partitions : f[p] <= g[p]
    PROVE  Below(f) \subseteq Below(g)
BY RecordPair, IngestAssumption DEF Below

-----------------------------------------------------------------------------
(* The initial state satisfies the invariant. *)
LEMMA InitInv == Init => IngestInv
<1> SUFFICES ASSUME Init PROVE IngestInv
  OBVIOUS
<1> USE IngestAssumption DEF Init
<1>1. TypeOK
  <2>1. 0 \in 0 .. LogLen /\ 0 \in 0 .. MaxMessages /\ 0 \in 0 .. MaxFaults
    OBVIOUS
  <2>2. NoRows \in Bag
    OBVIOUS
  <2>3. QED
    BY <2>1, <2>2 DEF TypeOK
<1>2. Below(committed) = {} /\ Below(position) = {}
  BY RecordPair DEF Below, Offsets
<1>3. OffsetsOrdered /\ FlushDrains /\ Accounted /\ CommittedAreAccounted
  BY <1>2 DEF OffsetsOrdered, FlushDrains, Accounted, CommittedAreAccounted
<1>4. Routed
  BY DEF Routed
<1>5. QED
  BY <1>1, <1>3, <1>4 DEF IngestInv

(* Stopping the process, with the committed offsets as they are or moved up *)
(* to the read position, preserves the invariant.                           *)
LEMMA ExitInv ==
    ASSUME IngestInv, NEW how \in Stopped, Exit(how),
           UNCHANGED <<kind, end, bronze, quarantine, dlqTopic>>,
           faults' \in 0 .. MaxFaults,
           \/ committed' = committed
           \/ pc = "commit" /\ committed' = position
    PROVE  IngestInv'
<1> USE IngestAssumption DEF Exit, IngestInv
<1>1. TypeOK'
  <2>1. NoRows \in Bag /\ 0 \in 0 .. MaxMessages
    OBVIOUS
  <2>2. committed' \in [Partitions -> 0 .. LogLen]
    BY DEF TypeOK
  <2>3. QED
    BY <2>1, <2>2 DEF TypeOK
<1>2. OffsetsOrdered'
  BY DEF OffsetsOrdered, TypeOK
<1>3. FlushDrains' /\ Accounted'
  BY DEF FlushDrains, Accounted
<1>4. Routed'
  BY DEF Routed, Below
<1>5. CommittedAreAccounted'
  <2>1. CASE committed' = committed
    BY <2>1 DEF CommittedAreAccounted, Landed, Below
  <2>2. CASE pc = "commit" /\ committed' = position
    <3>1. \A r \in Below(position) : Landed(r) \/ Held(r)
      BY <2>2 DEF Accounted
    <3>2. \A r \in Records : ~ Held(r)
      BY <2>2 DEF FlushDrains, Held
    <3>3. Below(committed') = Below(position) /\ Below(position) \subseteq Records
      BY <2>2 DEF Below
    <3>4. QED
      BY <3>1, <3>2, <3>3 DEF CommittedAreAccounted, Landed, Below
  <2>3. QED
    BY <2>1, <2>2
<1>6. QED
  BY <1>1, <1>2, <1>3, <1>4, <1>5

(* A step that changes only the log's end, the DLQ copies, or the control   *)
(* state between two drained phases preserves the invariant.                *)
LEMMA ProduceInv ==
    ASSUME IngestInv, NEW p \in Partitions, Produce(p)
    PROVE  IngestInv'
<1> USE IngestAssumption DEF Produce, IngestInv, topicVars, tableVars, procVars
<1>1. TypeOK'
  BY DEF TypeOK
<1>2. OffsetsOrdered'
  BY DEF OffsetsOrdered, TypeOK
<1>3. FlushDrains'
  BY DEF FlushDrains
<1>4. Below(end) \subseteq Below(end)'
  <2>1. end \in [Partitions -> 0 .. LogLen] /\ end' \in [Partitions -> 0 .. LogLen]
    BY <1>1 DEF TypeOK
  <2>2. \A q \in Partitions : end[q] <= end'[q]
    BY <2>1
  <2>3. Below(end) \subseteq Below(end')
    BY <2>1, <2>2, RecordPair DEF Below
  <2>4. QED
    BY <2>3 DEF Below
<1>5. Routed'
  BY <1>4 DEF Routed
<1>6. Accounted' /\ CommittedAreAccounted'
  BY DEF Accounted, CommittedAreAccounted, Landed, Held, Below
<1>7. QED
  BY <1>1, <1>2, <1>3, <1>5, <1>6

(* Delivering an envelope of the DLQ producer preserves the invariant. *)
LEMMA DeliverInv ==
    ASSUME IngestInv, NEW r \in Records, DeliverDlq(r)
    PROVE  IngestInv'
<1> USE IngestAssumption DEF DeliverDlq, IngestInv, topicVars, tableVars, procVars
<1>1. TypeOK'
  BY DEF TypeOK
<1>2. OffsetsOrdered' /\ FlushDrains' /\ Accounted' /\ CommittedAreAccounted'
  BY DEF OffsetsOrdered, FlushDrains, Accounted, CommittedAreAccounted, Landed, Held, Below
<1>3. Routed'
  BY DEF Routed, Below
<1>4. QED
  BY <1>1, <1>2, <1>3

(* Starting, and going back to the committed offsets on a rebalance. *)
LEMMA ResumeInv ==
    ASSUME IngestInv, Start \/ Rebalance
    PROVE  IngestInv'
<1> USE IngestAssumption DEF Start, Rebalance, Fault, IngestInv, topicVars, tableVars, procVars
<1>1. TypeOK'
  BY DEF TypeOK
<1>2. OffsetsOrdered' /\ FlushDrains'
  BY DEF OffsetsOrdered, FlushDrains, TypeOK
<1>3. Routed' /\ CommittedAreAccounted'
  BY DEF Routed, CommittedAreAccounted, Landed, Below
<1>4. Accounted'
  BY DEF Accounted, CommittedAreAccounted, Landed, Held, Below
<1>5. QED
  BY <1>1, <1>2, <1>3, <1>4

(* Leaving the loop for the final flush. *)
LEMMA StopLoopInv ==
    ASSUME IngestInv, IdleStop \/ LimitStop
    PROVE  IngestInv'
<1> USE IngestAssumption DEF IdleStop, LimitStop, IngestInv, topicVars, tableVars
<1>1. TypeOK'
  BY DEF TypeOK
<1>2. OffsetsOrdered' /\ FlushDrains' /\ CommittedAreAccounted'
  BY DEF OffsetsOrdered, FlushDrains, CommittedAreAccounted, Landed, Below
<1>3. Routed' /\ Accounted'
  BY DEF Routed, Accounted, Landed, Held, Below
<1>4. QED
  BY <1>1, <1>2, <1>3

(* Reading a record and putting it in the buffer of its kind. *)
LEMMA ReadInv ==
    ASSUME IngestInv, NEW p \in Partitions, Accept(p) \/ Reject(p)
    PROVE  IngestInv'
<1> USE IngestAssumption DEF IngestInv
<1>0. /\ pc = "poll" /\ consumed < MaxMessages /\ position[p] < end[p]
      /\ position' = [position EXCEPT ![p] = @ + 1]
      /\ consumed' = consumed + 1
      /\ UNCHANGED <<kind, end, committed, bronze, quarantine, dlqTopic, last, faults>>
  BY DEF Accept, Reject, Polled, topicVars, tableVars
<1>1. PICK r \in Records : r = <<p, position[p]>> /\ r \in Below(end)
  BY <1>0, NextRecord DEF TypeOK
<1>2. /\ batch' \in Bag /\ rejects' \in Bag /\ queued' \in Bag
      /\ pc' \in {"poll", "append"}
  <2>1. batch \in Bag /\ rejects \in Bag /\ queued \in Bag
    BY DEF TypeOK
  <2>2. CASE Accept(p)
    <3>1. batch' = [batch EXCEPT ![r] = @ + 1] /\ rejects' = rejects /\ queued' = queued
      BY <1>1, <2>2 DEF Accept
    <3>2. pc' \in {"poll", "append"}
      BY <2>2 DEF Accept
    <3>3. QED
      BY <1>1, <2>1, <3>1, <3>2
  <2>3. CASE Reject(p)
    <3>1. /\ rejects' = [rejects EXCEPT ![r] = @ + 1]
          /\ queued' = [queued EXCEPT ![r] = @ + 1]
          /\ batch' = batch /\ pc' = "poll"
      BY <1>0, <1>1, <2>3 DEF Reject
    <3>2. QED
      BY <1>1, <2>1, <3>1
  <2>4. QED
    BY <2>2, <2>3
<1>3. TypeOK'
  BY <1>0, <1>2 DEF TypeOK
<1>4. OffsetsOrdered' /\ FlushDrains'
  BY <1>0, <1>2 DEF OffsetsOrdered, FlushDrains, TypeOK
<1>5. \A s \in Records :
        /\ s # r => batch'[s] = batch[s] /\ rejects'[s] = rejects[s]
        /\ batch'[s] >= batch[s] /\ rejects'[s] >= rejects[s]
        /\ s = r /\ kind[r] = "corrupt" => rejects'[s] > 0 /\ batch'[s] = batch[s]
        /\ s = r /\ kind[r] # "corrupt" => batch'[s] > 0 /\ rejects'[s] = rejects[s]
  BY <1>1 DEF Accept, Reject, TypeOK
<1>6. Routed'
  BY <1>0, <1>1, <1>5 DEF Routed, Below
<1>7. CommittedAreAccounted'
  BY <1>0 DEF CommittedAreAccounted, Landed, Below
<1>8. Accounted'
  <2>1. ASSUME NEW s \in Below(position')
        PROVE  s \in Below(position) \/ s = r
    <3>1. position \in [Partitions -> 0 .. LogLen]
      BY DEF TypeOK
    <3>2. s \in Below([position EXCEPT ![p] = @ + 1])
      BY <1>0
    <3>3. QED
      BY <1>1, <3>1, <3>2, BelowNext
  <2>2. \A s \in Below(position) : s \in Records /\ (Landed(s) \/ Held(s))
    BY <1>0 DEF Accounted, Below
  <2>3. \A s \in Records : batch[s] \in Nat /\ rejects[s] \in Nat
                           /\ batch'[s] \in Nat /\ rejects'[s] \in Nat
    BY <1>2 DEF TypeOK
  <2>4. \A s \in Records : Landed(s) \/ Held(s) => Landed(s)' \/ Held(s)'
    BY <1>0, <1>5, <2>3 DEF Landed, Held
  <2>5. Held(r)'
    BY <1>0, <1>1, <1>5 DEF Held
  <2>6. \A s \in Below(position') : (Landed(s) \/ Held(s))'
    BY <2>1, <2>2, <2>4, <2>5
  <2>7. QED
    BY <2>6 DEF Accounted, Below
<1>9. QED
  BY <1>3, <1>4, <1>6, <1>7, <1>8

(* Emptying one of the two buffers into its table. *)
LEMMA AppendInv ==
    ASSUME IngestInv, AppendBronze \/ AppendQuarantine
    PROVE  IngestInv'
<1> USE IngestAssumption DEF IngestInv
<1>0. /\ pc \in Running /\ pc' \in Running
      /\ UNCHANGED <<kind, end, committed, dlqTopic, last, position, queued, consumed, faults>>
  BY DEF AppendBronze, AppendQuarantine, topicVars
<1>1. /\ bronze' \in Bag /\ quarantine' \in Bag /\ batch' \in Bag /\ rejects' \in Bag
  BY DEF AppendBronze, AppendQuarantine, TypeOK
<1>2. TypeOK'
  BY <1>0, <1>1 DEF TypeOK
<1>3. OffsetsOrdered' /\ FlushDrains'
  BY <1>0 DEF OffsetsOrdered, FlushDrains, AppendBronze, AppendQuarantine
<1>4. \A s \in Records :
        /\ bronze[s] \in Nat /\ quarantine[s] \in Nat /\ batch[s] \in Nat /\ rejects[s] \in Nat
        /\ bronze'[s] + batch'[s] = bronze[s] + batch[s]
        /\ quarantine'[s] + rejects'[s] = quarantine[s] + rejects[s]
        /\ bronze'[s] >= bronze[s] /\ quarantine'[s] >= quarantine[s]
        /\ batch'[s] \in {0, batch[s]} /\ rejects'[s] \in {0, rejects[s]}
        /\ bronze'[s] > bronze[s] => kind[s] # "wide"
  BY DEF AppendBronze, AppendQuarantine, TypeOK
<1>5. Routed'
  <2> SUFFICES ASSUME NEW s \in Records
               PROVE  /\ bronze'[s] > 0 => kind[s] = "valid" /\ s \in Below(end)
                      /\ batch'[s] > 0 => kind[s] # "corrupt" /\ s \in Below(end)
                      /\ quarantine'[s] > 0 => kind[s] = "corrupt" /\ s \in Below(end)
                      /\ rejects'[s] > 0 => kind[s] = "corrupt" /\ s \in Below(end)
    BY <1>0 DEF Routed, Below
  <2>1. kind[s] \in AllKinds
    BY DEF TypeOK
  <2>2. /\ bronze'[s] \in Nat /\ batch'[s] \in Nat
        /\ quarantine'[s] \in Nat /\ rejects'[s] \in Nat
    BY <1>1
  <2>3. bronze'[s] > 0 => bronze[s] > 0 \/ (batch[s] > 0 /\ kind[s] # "wide")
    BY <1>4, <2>2
  <2>4. quarantine'[s] > 0 => quarantine[s] > 0 \/ rejects[s] > 0
    BY <1>4, <2>2
  <2>5. (batch'[s] > 0 => batch[s] > 0) /\ (rejects'[s] > 0 => rejects[s] > 0)
    BY <1>4
  <2>6. QED
    BY <2>1, <2>3, <2>4, <2>5 DEF Routed, AllKinds
<1>6. \A s \in Records : Landed(s) => Landed(s)'
  BY <1>0, <1>1, <1>4 DEF Landed
<1>7. CommittedAreAccounted'
  BY <1>0, <1>6 DEF CommittedAreAccounted, Below
<1>8. \A s \in Records : Landed(s) \/ Held(s) => Landed(s)' \/ Held(s)'
  BY <1>0, <1>1, <1>4 DEF Landed, Held
<1>9. Accounted'
  BY <1>0, <1>8 DEF Accounted, Below
<1>10. QED
  BY <1>2, <1>3, <1>5, <1>7, <1>9

(* The DLQ producer's flush returns; the offsets are committed. *)
LEMMA CommitInv ==
    ASSUME IngestInv, DlqFlushed \/ DlqFlushTimeout \/ Commit
    PROVE  IngestInv'
<1> USE IngestAssumption DEF IngestInv, DlqFlushed, DlqFlushTimeout, Commit,
                             topicVars, tableVars, procVars
<1>1. TypeOK'
  BY DEF TypeOK
<1>2. OffsetsOrdered' /\ FlushDrains'
  BY DEF OffsetsOrdered, FlushDrains, TypeOK
<1>3. Routed' /\ Accounted'
  BY DEF Routed, Accounted, Landed, Held, Below
<1>4. CommittedAreAccounted'
  <2>1. CASE committed' = committed
    BY <2>1 DEF CommittedAreAccounted, Landed, Below
  <2>2. CASE Commit
    <3>1. \A s \in Below(position) : Landed(s) \/ Held(s)
      BY <2>2 DEF Accounted
    <3>2. \A s \in Records : ~ Held(s)
      BY <2>2 DEF FlushDrains, Held
    <3>3. Below(committed') = Below(position) /\ Below(position) \subseteq Records
      BY <2>2 DEF Below
    <3>4. QED
      BY <2>2, <3>1, <3>2, <3>3 DEF CommittedAreAccounted, Landed, Below
  <2>3. QED
    BY <2>1, <2>2
<1>5. QED
  BY <1>1, <1>2, <1>3, <1>4

(* A step of the process that ends it. *)
LEMMA EndInv ==
    ASSUME IngestInv,
           \/ \E p \in Partitions : RejectOverflow(p)
           \/ AppendRefused \/ CommitLast \/ CommitNothing \/ Crash \/ BrokerError
    PROVE  IngestInv'
<1>1. faults \in 0 .. MaxFaults
  BY DEF IngestInv, TypeOK
<1>2. faults < MaxFaults => faults + 1 \in 0 .. MaxFaults
  BY <1>1, IngestAssumption
<1>3. CASE \E p \in Partitions : RejectOverflow(p)
  BY <1>1, <1>3, ExitInv DEF RejectOverflow, topicVars, tableVars
<1>4. CASE AppendRefused
  BY <1>1, <1>4, ExitInv DEF AppendRefused, topicVars, tableVars
<1>5. CASE CommitLast
  BY <1>1, <1>5, ExitInv DEF CommitLast, topicVars, tableVars
<1>6. CASE CommitNothing
  BY <1>1, <1>6, ExitInv DEF CommitNothing, topicVars, tableVars
<1>7. CASE Crash
  BY <1>2, <1>7, ExitInv DEF Crash, Fault, topicVars, tableVars
<1>8. CASE BrokerError
  BY <1>2, <1>8, ExitInv DEF BrokerError, Fault, topicVars, tableVars
<1>9. QED
  BY <1>3, <1>4, <1>5, <1>6, <1>7, <1>8

(* Every step preserves the invariant. *)
LEMMA NextInv == IngestInv /\ [Next]_vars => IngestInv'
<1> SUFFICES ASSUME IngestInv, [Next]_vars PROVE IngestInv'
  OBVIOUS
<1>1. CASE \E p \in Partitions : Produce(p)
  BY <1>1, ProduceInv
<1>2. CASE \E r \in Records : DeliverDlq(r)
  BY <1>2, DeliverInv
<1>3. CASE Start \/ Rebalance
  BY <1>3, ResumeInv
<1>4. CASE \E p \in Partitions : Accept(p) \/ Reject(p)
  BY <1>4, ReadInv
<1>5. CASE IdleStop \/ LimitStop
  BY <1>5, StopLoopInv
<1>6. CASE AppendBronze \/ AppendQuarantine
  BY <1>6, AppendInv
<1>7. CASE DlqFlushed \/ DlqFlushTimeout \/ Commit
  BY <1>7, CommitInv
<1>8. CASE \/ \E p \in Partitions : RejectOverflow(p)
           \/ AppendRefused \/ CommitLast \/ CommitNothing \/ Crash \/ BrokerError
  BY <1>8, EndInv
<1>9. CASE UNCHANGED vars
  BY <1>9 DEF vars, IngestInv, TypeOK, OffsetsOrdered, FlushDrains, Routed, Accounted,
              CommittedAreAccounted, Landed, Held, Below
<1>10. QED
  BY <1>1, <1>2, <1>3, <1>4, <1>5, <1>6, <1>7, <1>8, <1>9 DEF Next, Consume, Flush

(* The inductive invariant holds of every behaviour. *)
THEOREM IngestInvariant == Spec => []IngestInv
BY InitInv, NextInv, PTL DEF Spec

(* Every variable keeps its type, whatever the constants. *)
THEOREM IngestTypeCorrect == Spec => []TypeOK
<1>1. IngestInv => TypeOK
  BY DEF IngestInv
<1>2. QED
  BY <1>1, IngestInvariant, PTL

(* Nothing the consumer group has committed is missing from bronze or quarantine. *)
THEOREM IngestLosesNothing == Spec => []CommittedAreAccounted
<1>1. IngestInv => CommittedAreAccounted
  BY DEF IngestInv
<1>2. QED
  BY <1>1, IngestInvariant, PTL

(* A running process never drops what it read, and nothing is stored or     *)
(* buffered that the topic does not hold.                                   *)
THEOREM IngestHoldsWhatItRead == Spec => []ReadIsHeldOrLanded
<1>1. IngestInv => ReadIsHeldOrLanded
  BY DEF IngestInv, Accounted, Routed, ReadIsHeldOrLanded, Landed, Held
<1>2. QED
  BY <1>1, IngestInvariant, PTL

(* No partition's committed offset ever passes a record bronze cannot hold. *)
THEOREM WideRecordIsNeverSkipped == Spec => []WideRecordBlocksPartition
<1>1. IngestInv => WideRecordBlocksPartition
  BY DEF IngestInv, CommittedAreAccounted, Routed, Landed, WideRecordBlocksPartition, Below
<1>2. QED
  BY <1>1, IngestInvariant, PTL

(* Committed offsets never rewind. *)
THEOREM OffsetsNeverRewind == Spec => CommittedNeverRewinds
<1>1. IngestInv /\ [Next]_vars => [\A p \in Partitions : committed'[p] >= committed[p]]_vars
  <2> SUFFICES ASSUME IngestInv, Next
               PROVE  \A p \in Partitions : committed'[p] >= committed[p]
    OBVIOUS
  <2>1. committed' = committed \/ committed' = position
    BY DEF Next, Consume, Flush, Produce, DeliverDlq, Start, Accept, Reject, Polled,
           RejectOverflow, IdleStop, LimitStop, AppendBronze, AppendRefused,
           AppendQuarantine, DlqFlushed, DlqFlushTimeout, Commit, CommitLast,
           CommitNothing, Crash, BrokerError, Rebalance
  <2>2. \A p \in Partitions : committed[p] \in Int /\ position[p] >= committed[p]
    BY DEF IngestInv, TypeOK, OffsetsOrdered
  <2>3. QED
    BY <2>1, <2>2
<1>2. QED
  BY <1>1, IngestInvariant, PTL DEF Spec, CommittedNeverRewinds

-----------------------------------------------------------------------------
(***************************************************************************)
(* Ingest implements Handoff.                                              *)
(***************************************************************************)
(* What each step may do to the mapped state. *)
LEMMA StepKinds ==
    ASSUME IngestInv, Next
    PROVE  \/ \E p \in Partitions : Produce(p)
           \/ AppendBronze \/ AppendQuarantine
           \/ (Commit \/ CommitLast) /\ UNCHANGED <<kind, end, bronze, quarantine>>
           \/ UNCHANGED <<kind, end, bronze, quarantine, committed>>
BY DEF Next, Consume, Flush, DeliverDlq, Start, Accept, Reject, Polled, RejectOverflow,
       IdleStop, LimitStop, AppendRefused, DlqFlushed, DlqFlushTimeout, Commit, CommitLast,
       CommitNothing, Crash, BrokerError, Rebalance, topicVars, tableVars, procVars

(* Producing a record is an arrival. *)
LEMMA ProduceIsArrive ==
    ASSUME IngestInv, NEW p \in Partitions, Produce(p)
    PROVE  H!Arrive
<1>1. PICK r \in Records : r = <<p, end[p]>>
  <2>1. end[p] \in 0 .. LogLen /\ end[p] < LogLen
    BY DEF IngestInv, TypeOK, Produce
  <2>2. end[p] \in Offsets
    BY <2>1, IngestAssumption DEF Offsets
  <2>3. QED
    BY <2>2 DEF Records
<1>2. r \notin Arrived
  BY <1>1 DEF IngestInv, TypeOK, Arrived, Below
<1>3. Arrived' = Arrived \cup {r}
  <2>1. end \in [Partitions -> 0 .. LogLen] /\ end' = [end EXCEPT ![p] = @ + 1]
    BY DEF IngestInv, TypeOK, Produce
  <2>2. ASSUME NEW s \in Below(end') PROVE s \in Below(end) \/ s = r
    BY <1>1, <2>1, <2>2, BelowNext
  <2>3. ASSUME NEW s \in Below(end) PROVE s \in Below(end')
    BY <2>1, <2>3, RecordPair, IngestAssumption DEF Below
  <2>4. r \in Below(end')
    BY <1>1, <2>1, IngestAssumption DEF Below
  <2>5. QED
    BY <2>2, <2>3, <2>4 DEF Arrived, Below
<1>4. UNCHANGED <<Stored, Acked>>
  BY DEF Produce, Stored, Acked, Below, tableVars
<1>5. QED
  BY <1>2, <1>3, <1>4 DEF H!Arrive

(* Writing a table only lands what has arrived. *)
LEMMA AppendIsLand ==
    ASSUME IngestInv, IngestInv', AppendBronze \/ AppendQuarantine
    PROVE  H!Land
<1>1. UNCHANGED <<Arrived, Acked>>
  BY DEF AppendBronze, AppendQuarantine, Arrived, Acked, Below, topicVars
<1>2. Stored' \subseteq Arrived'
  BY DEF IngestInv, Routed, Stored, Arrived, Below
<1>3. \A r \in Records : /\ bronze[r] \in Nat /\ quarantine[r] \in Nat
                         /\ bronze'[r] >= bronze[r] /\ quarantine'[r] >= quarantine[r]
                         /\ bronze'[r] \in Nat /\ quarantine'[r] \in Nat
  BY DEF AppendBronze, AppendQuarantine, IngestInv, TypeOK
<1>4. Stored \subseteq Stored'
  BY <1>3 DEF Stored
<1>5. Stored' = Stored \cup Stored' /\ Stored' \in SUBSET Arrived
  BY <1>1, <1>2, <1>4
<1>6. QED
  BY <1>1, <1>5 DEF H!Land

(* Committing the offsets only acknowledges what has landed. *)
LEMMA CommitIsAck ==
    ASSUME IngestInv, IngestInv', Commit \/ CommitLast,
           UNCHANGED <<kind, end, bronze, quarantine>>
    PROVE  H!Ack
<1>1. UNCHANGED <<Arrived, Stored>>
  BY DEF Arrived, Stored, Below
<1>2. Acked' \subseteq Stored
  BY <1>1 DEF IngestInv, CommittedAreAccounted, Landed, Acked, Stored, Below
<1>3. Acked \subseteq Acked'
  BY RecordPair DEF Commit, CommitLast, IngestInv, TypeOK, OffsetsOrdered, Acked, Below
<1>4. Acked' = Acked \cup Acked' /\ Acked' \in SUBSET Stored
  BY <1>2, <1>3
<1>5. QED
  BY <1>1, <1>4 DEF H!Ack

(* The bronze ingestion is a Handoff: it stores only what arrived and commits *)
(* only what is stored.                                                       *)
THEOREM IngestImplementsHandoff == Spec => ImplementsHandoff
<1>1. Init => H!HInit
  BY RecordPair DEF Init, H!HInit, Arrived, Stored, Acked, Below, Offsets
<1>2. IngestInv /\ IngestInv' /\ [Next]_vars => [H!HNext]_(H!hvars)
  <2> SUFFICES ASSUME IngestInv, IngestInv', [Next]_vars PROVE [H!HNext]_(H!hvars)
    OBVIOUS
  <2>1. CASE \E p \in Partitions : Produce(p)
    BY <2>1, ProduceIsArrive DEF H!HNext
  <2>2. CASE AppendBronze \/ AppendQuarantine
    BY <2>2, AppendIsLand DEF H!HNext
  <2>3. CASE (Commit \/ CommitLast) /\ UNCHANGED <<kind, end, bronze, quarantine>>
    BY <2>3, CommitIsAck DEF H!HNext
  <2>4. CASE UNCHANGED <<kind, end, bronze, quarantine, committed>>
    BY <2>4 DEF H!hvars, Arrived, Stored, Acked, Below
  <2>5. CASE UNCHANGED vars
    BY <2>4, <2>5 DEF vars
  <2>6. QED
    BY <2>1, <2>2, <2>3, <2>4, <2>5, StepKinds
<1>3. QED
  BY <1>1, <1>2, IngestInvariant, PTL DEF Spec, ImplementsHandoff, H!HSpec

-----------------------------------------------------------------------------
(***************************************************************************)
(* How much a replay can add to the tables.  What counts is not the rows   *)
(* of bronze but the rows every record has or may still get: those in      *)
(* bronze, those in the batch, and one more if it has yet to be read.      *)
(***************************************************************************)
\* The rows beyond the first that a record has or may still get.
Beyond(n) == IF n > 1 THEN n - 1 ELSE 0
Excess == [r \in Records |->
              Beyond(bronze[r] + batch[r] + (IF r \in Below(position) THEN 0 ELSE 1))]

\* What the next process reads again if this one stops: read and not committed.
Window == {r \in Below(position) \ Below(committed) : kind[r] # "corrupt"}
Ones(S) == [r \in Records |-> IF r \in S THEN 1 ELSE 0]

\* Each fault has paid for one batch.
ExcessIsPaid == Size(Excess) <= faults * BatchSize

\* The batch is never over its size, and is flushed when it reaches it.
BatchIsBounded ==
    /\ Size(batch) <= BatchSize
    /\ pc \in Stopped \cup {"poll"} => Size(batch) < BatchSize

\* What would be read again is in the batch until bronze has it, and is then
\* one batch at most.
WindowIsHeld ==
    /\ pc \in Stopped => position = committed
    /\ pc \in {"poll", "append"} => \A r \in Window : batch[r] > 0
    /\ pc \in {"quarantine", "dlqFlush", "commit"} => Size(Ones(Window)) <= BatchSize

ReplayInv == ExcessIsPaid /\ BatchIsBounded /\ WindowIsHeld

(* Records are finitely many. *)
LEMMA RecordsFinite == IsFiniteSet(Records)
<1>1. IsFiniteSet(Offsets)
  BY IngestAssumption, FS_Interval DEF Offsets
<1> QED BY <1>1, IngestAssumption, FS_Product DEF Records

(* The size of a bag is a sum over the records, ... *)
LEMMA SizeIsTotal ==
    ASSUME NEW B \in Bag
    PROVE  Size(B) = Total(B, Records) /\ Size(B) \in Nat
<1>1. Size(B) = Total(B, DOMAIN B)
  BY DEF Size, Total, FoldFunction
<1>2. DOMAIN B = Records
  OBVIOUS
<1>3. \A r \in Records : B[r] \in Nat
  OBVIOUS
<1>4. Total(B, Records) \in Nat
  BY <1>3, RecordsFinite, TotalOf
<1> QED BY <1>1, <1>2, <1>4

(* ... monotone, ... *)
LEMMA SizeMonotone ==
    ASSUME NEW B \in Bag, NEW C \in Bag, \A r \in Records : B[r] <= C[r]
    PROVE  Size(B) <= Size(C)
<1>1. \A r \in Records : B[r] \in Nat /\ C[r] \in Nat
  OBVIOUS
<1>2. Total(B, Records) <= Total(C, Records)
  BY <1>1, RecordsFinite, TotalMonotone
<1> QED BY <1>2, SizeIsTotal

(* ... additive, ... *)
LEMMA SizeUnion ==
    ASSUME NEW B \in Bag, NEW C \in Bag
    PROVE  Union(B, C) \in Bag /\ Size(Union(B, C)) = Size(B) + Size(C)
<1> DEFINE D == Union(B, C)
<1>1. D \in Bag /\ \A r \in Records : B[r] \in Nat /\ C[r] \in Nat /\ D[r] = B[r] + C[r]
  OBVIOUS
<1> HIDE DEF D
<1>2. Total(D, Records) = Total(B, Records) + Total(C, Records)
  BY <1>1, RecordsFinite, TotalPlus
<1> QED BY <1>1, <1>2, SizeIsTotal DEF D

(* ... and zero for the empty bag. *)
LEMMA SizeNone == Size(NoRows) = 0
<1> DEFINE B == NoRows
<1>1. B \in Bag /\ \A r \in Records : B[r] = 0
  OBVIOUS
<1> HIDE DEF B
<1>2. Total(B, Records) = 0
  BY <1>1, RecordsFinite, TotalZero
<1> QED BY <1>1, <1>2, SizeIsTotal DEF B

(* One more row makes a bag larger by one. *)
LEMMA SizeAdd ==
    ASSUME NEW B \in Bag, NEW a \in Records
    PROVE  Size(Add(B, a)) = Size(B) + 1
<1> DEFINE o == Ones({a})
<1>1. o \in Bag /\ o[a] = 1 /\ \A r \in Records : r # a => o[r] = 0
  BY DEF Ones
<1>2. Add(B, a) = Union(B, o)
  <2>1. Add(B, a) \in [Records -> Nat] /\ Union(B, o) \in [Records -> Nat]
    BY <1>1
  <2>2. \A r \in Records : Add(B, a)[r] = Union(B, o)[r]
    BY <1>1
  <2> QED BY <2>1, <2>2
<1> HIDE DEF o
<1>3. Total(o, Records) = o[a]
  BY <1>1, RecordsFinite, TotalOne
<1>4. Size(o) = 1
  BY <1>1, <1>3, SizeIsTotal
<1> QED BY <1>1, <1>2, <1>4, SizeUnion

(* What Excess and the others are, and that they are bags. *)
LEMMA ExcessAt ==
    TypeOK =>
        /\ Excess \in Bag
        /\ \A r \in Records :
              /\ bronze[r] \in Nat /\ batch[r] \in Nat
              /\ r \in Below(position) => Excess[r] = Beyond(bronze[r] + batch[r])
              /\ r \notin Below(position) => Excess[r] = Beyond(bronze[r] + batch[r] + 1)
<1> SUFFICES ASSUME TypeOK
             PROVE  /\ Excess \in Bag
                    /\ \A r \in Records :
                          /\ bronze[r] \in Nat /\ batch[r] \in Nat
                          /\ r \in Below(position) => Excess[r] = Beyond(bronze[r] + batch[r])
                          /\ r \notin Below(position) =>
                                Excess[r] = Beyond(bronze[r] + batch[r] + 1)
  OBVIOUS
<1>1. \A r \in Records : bronze[r] \in Nat /\ batch[r] \in Nat
  BY DEF TypeOK
<1>2. \A n \in Nat : Beyond(n) \in Nat
  BY DEF Beyond
<1>3. \A r \in Records :
         bronze[r] + batch[r] + (IF r \in Below(position) THEN 0 ELSE 1) \in Nat
  BY <1>1
<1>4. Excess \in Bag
  BY <1>2, <1>3 DEF Excess
<1>5. ASSUME NEW r \in Records
      PROVE  /\ r \in Below(position) => Excess[r] = Beyond(bronze[r] + batch[r])
             /\ r \notin Below(position) => Excess[r] = Beyond(bronze[r] + batch[r] + 1)
  <2>1. bronze[r] + batch[r] + 0 = bronze[r] + batch[r]
    BY <1>1
  <2> QED BY <2>1 DEF Excess
<1> QED BY <1>1, <1>4, <1>5

\* The same after a step.
LEMMA ExcessAtNext ==
    ASSUME TypeOK'
    PROVE  /\ Excess' \in Bag
           /\ \A r \in Records :
                 /\ bronze'[r] \in Nat /\ batch'[r] \in Nat
                 /\ r \in Below(position') => Excess'[r] = Beyond(bronze'[r] + batch'[r])
                 /\ r \notin Below(position') => Excess'[r] = Beyond(bronze'[r] + batch'[r] + 1)
<1>1. (/\ Excess \in Bag
       /\ \A r \in Records :
             /\ bronze[r] \in Nat /\ batch[r] \in Nat
             /\ r \in Below(position) => Excess[r] = Beyond(bronze[r] + batch[r])
             /\ r \notin Below(position) => Excess[r] = Beyond(bronze[r] + batch[r] + 1))'
  BY ExcessAt, PTL
<1>2. \A r \in Records : (r \in Below(position))' <=> r \in Below(position')
  BY DEF Below
<1> QED BY <1>1, <1>2

(* Excess that grows by D has that to pay. *)
LEMMA ExcessGrows ==
    ASSUME TypeOK, TypeOK', NEW D \in Bag, \A r \in Records : Excess'[r] <= Excess[r] + D[r]
    PROVE  /\ Size(Excess') <= Size(Excess) + Size(D)
           /\ Size(Excess') \in Nat /\ Size(Excess) \in Nat
<1> DEFINE x == Excess
           y == Excess'
<1>1. x \in Bag /\ y \in Bag
  BY ExcessAt, ExcessAtNext
<1>2. \A r \in Records : y[r] <= x[r] + D[r]
  OBVIOUS
<1> HIDE DEF x, y
<1>3. Union(x, D) \in Bag /\ \A r \in Records : y[r] <= Union(x, D)[r]
  BY <1>1, <1>2
<1>4. Size(y) <= Size(x) + Size(D)
  <2> DEFINE u == Union(x, D)
  <2>1. Size(u) = Size(x) + Size(D)
    BY <1>1, SizeUnion
  <2>2. Size(y) <= Size(u)
    <3>1. u \in Bag /\ \A r \in Records : y[r] <= u[r]
      BY <1>3
    <3> HIDE DEF u
    <3> QED BY <1>1, <3>1, SizeMonotone
  <2> QED BY <2>1, <2>2
<1>5. Size(y) \in Nat /\ Size(x) \in Nat
  BY <1>1, SizeIsTotal
<1> QED BY <1>4, <1>5 DEF x, y

(* A step that is no fault adds none; a fault adds a batch at most. *)
LEMMA ExcessStaysPaid ==
    ASSUME TypeOK, TypeOK', ExcessIsPaid, faults' \in {faults, faults + 1},
           NEW D \in Bag, Size(D) <= BatchSize, faults' = faults => Size(D) = 0,
           \A r \in Records : Excess'[r] <= Excess[r] + D[r]
    PROVE  ExcessIsPaid'
<1> DEFINE x == Size(Excess)
           y == Size(Excess')
           d == Size(D)
<1>1. y <= x + d /\ x \in Nat /\ y \in Nat /\ d \in Nat
  BY ExcessGrows, SizeIsTotal
<1>2. x <= faults * BatchSize
  BY DEF ExcessIsPaid
<1>3. faults \in Nat /\ BatchSize \in Nat /\ d <= BatchSize /\ (faults' = faults => d = 0)
  BY IngestAssumption DEF TypeOK
<1> HIDE DEF x, y, d
<1>4. (faults + 1) * BatchSize = faults * BatchSize + BatchSize /\ faults * BatchSize \in Nat
  BY <1>3
<1>5. y <= faults' * BatchSize
  <2>1. CASE faults' = faults
    BY <1>1, <1>2, <1>3, <1>4, <2>1
  <2>2. CASE faults' = faults + 1
    <3> DEFINE w == faults * BatchSize
               z == faults' * BatchSize
    <3>1. z = w + BatchSize /\ w \in Nat /\ x <= w
      BY <1>2, <1>4, <2>2
    <3> HIDE DEF w, z
    <3>2. y <= z
      BY <1>1, <1>3, <3>1
    <3> QED BY <3>2 DEF z
  <2> QED BY <2>1, <2>2
<1> QED BY <1>5 DEF ExcessIsPaid, y

(* What is not read again adds none, whether it is a fault or not. *)
LEMMA ExcessKept ==
    ASSUME TypeOK, TypeOK', ExcessIsPaid, faults' \in {faults, faults + 1},
           \A r \in Records : Excess'[r] <= Excess[r]
    PROVE  ExcessIsPaid'
<1> DEFINE D == NoRows
<1>1. D \in Bag /\ \A r \in Records : D[r] = 0
  OBVIOUS
<1>2. Size(D) = 0 /\ Size(D) <= BatchSize
  BY SizeNone, IngestAssumption
<1>3. \A r \in Records : Excess'[r] <= Excess[r] + D[r]
  <2>1. \A r \in Records : Excess[r] \in Nat /\ Excess[r] + D[r] = Excess[r]
    BY <1>1, ExcessAt
  <2> QED BY <2>1
<1> HIDE DEF D
<1> QED BY <1>1, <1>2, <1>3, ExcessStaysPaid

(* What would be read again, as a bag. *)
LEMMA WindowBag == Ones(Window) \in Bag
BY DEF Ones

(* Records below the committed offsets are below the read position. *)
LEMMA CommittedIsRead ==
    ASSUME IngestInv
    PROVE  Below(committed) \subseteq Below(position)
<1>1. /\ committed \in [Partitions -> 0 .. LogLen] /\ position \in [Partitions -> 0 .. LogLen]
      /\ \A p \in Partitions : committed[p] <= position[p]
  BY DEF IngestInv, TypeOK, OffsetsOrdered
<1> QED BY <1>1, BelowMonotone

(* Steps that leave the rows, the batch and the offsets alone. *)
LEMMA ReplayFrame ==
    ASSUME IngestInv, IngestInv', ReplayInv,
           UNCHANGED <<kind, committed, bronze, batch, position, faults>>,
           \/ pc' = pc
           \/ pc \in Stopped /\ pc' = "poll"
           \/ pc = "poll" /\ pc' = "append"
           \/ pc \in {"quarantine", "dlqFlush"} /\ pc' \in {"dlqFlush", "commit"}
    PROVE  ReplayInv'
<1>1. Window' = Window /\ Excess' = Excess
  BY DEF Window, Excess, Below
<1>2. ExcessIsPaid'
  BY <1>1 DEF ReplayInv, ExcessIsPaid
<1>3. BatchIsBounded'
  BY DEF ReplayInv, BatchIsBounded
<1>4. WindowIsHeld'
  <2>1. pc \in Stopped => position = committed /\ Window = {}
    BY DEF ReplayInv, WindowIsHeld, Window
  <2>2. /\ pc' \in Stopped => position' = committed'
        /\ pc' \in {"poll", "append"} => \A r \in Window : batch[r] > 0
        /\ pc' \in {"quarantine", "dlqFlush", "commit"} => Size(Ones(Window)) <= BatchSize
    BY <2>1 DEF ReplayInv, WindowIsHeld
  <2> QED BY <1>1, <2>2 DEF WindowIsHeld
<1> QED BY <1>2, <1>3, <1>4 DEF ReplayInv

(* Reading a record moves what it may get from the topic to the batch. *)
LEMMA ReplayRead ==
    ASSUME IngestInv, IngestInv', ReplayInv, NEW p \in Partitions, Accept(p) \/ Reject(p)
    PROVE  ReplayInv'
<1> DEFINE a == <<p, position[p]>>
<1>1. /\ pc = "poll" /\ pc' \in {"poll", "append"} /\ position[p] < end[p]
      /\ position' = [position EXCEPT ![p] = @ + 1]
      /\ UNCHANGED <<kind, committed, bronze, faults>>
  BY DEF Accept, Reject, Polled, topicVars, tableVars
<1>2. TypeOK /\ TypeOK' /\ position \in [Partitions -> 0 .. LogLen] /\ batch \in Bag
  BY DEF IngestInv, TypeOK
<1>3. a \in Records /\ a \notin Below(position)
  <2>1. a \in Records
    BY <1>1, <1>2, NextRecord DEF IngestInv, TypeOK
  <2> QED BY <1>2, <2>1 DEF Below
<1>4. \A r \in Below(position') : r \in Below(position) \/ r = a
  BY <1>1, <1>2, BelowNext
<1>5. Below(position) \subseteq Below(position') /\ a \in Below(position')
  <2>1. position' \in [Partitions -> 0 .. LogLen] /\ \A q \in Partitions : position[q] <= position'[q]
    BY <1>1, <1>2 DEF TypeOK
  <2>2. position[p] < position'[p]
    BY <1>1, <1>2
  <2> QED BY <1>2, <2>1, <2>2, BelowMonotone, NextRecord
<1>6. \/ kind[a] # "corrupt" /\ batch' = Add(batch, a)
      \/ kind[a] = "corrupt" /\ batch' = batch /\ pc' = "poll"
  BY <1>1 DEF Accept, Reject
<1> HIDE DEF a
<1>7. \A r \in Records : /\ batch[r] \in Nat /\ batch'[r] >= batch[r]
                         /\ r # a => batch'[r] = batch[r]
                         /\ batch'[r] <= batch[r] + 1
                         /\ r = a /\ kind[a] # "corrupt" => batch'[r] > 0
  BY <1>2, <1>3, <1>6
<1>8. ExcessIsPaid'
  <2> SUFFICES ASSUME NEW r \in Records PROVE Excess'[r] <= Excess[r]
    BY <1>1, <1>2, ExcessKept DEF ReplayInv
  <2>1. \A m, n \in Nat : m <= n => Beyond(m) <= Beyond(n)
    BY DEF Beyond
  <2>2. CASE r = a
    <3>1. /\ Excess[r] = Beyond(bronze[r] + batch[r] + 1)
          /\ Excess'[r] = Beyond(bronze'[r] + batch'[r])
          /\ bronze[r] \in Nat /\ batch[r] \in Nat /\ batch'[r] \in Nat
      BY <1>2, <1>3, <1>5, <2>2, ExcessAt, ExcessAtNext
    <3>2. bronze'[r] + batch'[r] <= bronze[r] + batch[r] + 1
      BY <1>1, <1>7, <3>1
    <3> QED BY <1>1, <2>1, <3>1, <3>2
  <2>3. CASE r # a
    <3>1. r \in Below(position') <=> r \in Below(position)
      BY <1>4, <1>5, <2>3
    <3>2. bronze'[r] = bronze[r] /\ batch'[r] = batch[r]
      BY <1>1, <1>7, <2>3
    <3>3. Excess[r] \in Nat
      BY <1>2, ExcessAt
    <3> QED BY <1>2, <3>1, <3>2, <3>3, ExcessAt, ExcessAtNext
  <2> QED BY <2>2, <2>3
<1>9. BatchIsBounded'
  <2>1. Size(batch) < BatchSize /\ Size(batch) \in Nat /\ BatchSize \in Nat
    BY <1>1, <1>2, SizeIsTotal, IngestAssumption DEF ReplayInv, BatchIsBounded
  <2>2. CASE batch' = batch
    BY <1>1, <2>1, <2>2 DEF BatchIsBounded
  <2>3. CASE kind[a] # "corrupt" /\ batch' = Add(batch, a)
    <3>1. Size(batch') = Size(batch) + 1
      BY <1>2, <1>3, <2>3, SizeAdd
    <3>2. pc' = IF Size(batch') >= BatchSize THEN "append" ELSE "poll"
      BY <2>3 DEF Accept, Reject, a
    <3>3. Size(batch') <= BatchSize /\ (pc' = "poll" => Size(batch') < BatchSize)
      BY <2>1, <3>1, <3>2
    <3> QED BY <1>1, <3>3 DEF BatchIsBounded
  <2> QED BY <1>6, <2>2, <2>3
<1>10. WindowIsHeld'
  <2>1. \A r \in Window : batch[r] > 0
    BY <1>1 DEF ReplayInv, WindowIsHeld
  <2>2. ASSUME NEW r \in Window' PROVE batch'[r] > 0
    <3>1. r \in Records /\ r \in Below(position') /\ r \notin Below(committed) /\ kind[r] # "corrupt"
      BY <1>1, <2>2 DEF Window, Below
    <3>2. CASE r = a
      BY <1>7, <3>1, <3>2
    <3>3. CASE r # a
      <4>1. r \in Window
        BY <1>4, <3>1, <3>3 DEF Window
      <4> QED BY <1>7, <2>1, <3>1, <4>1
    <3> QED BY <3>2, <3>3
  <2> QED BY <1>1, <2>2 DEF WindowIsHeld
<1> QED BY <1>8, <1>9, <1>10 DEF ReplayInv

(* Appending the batch makes it rows of bronze, and what a replay could   *)
(* read again was all in it.                                               *)
LEMMA ReplayAppend ==
    ASSUME IngestInv, IngestInv', ReplayInv, AppendBronze
    PROVE  ReplayInv'
<1>1. /\ pc = "append" /\ pc' = "quarantine" /\ batch' = NoRows /\ bronze' = Union(bronze, batch)
      /\ UNCHANGED <<kind, committed, position, faults>>
  BY DEF AppendBronze, topicVars
<1>2. TypeOK /\ TypeOK' /\ batch \in Bag
  BY DEF IngestInv, TypeOK
<1>3. ExcessIsPaid'
  <2> SUFFICES ASSUME NEW r \in Records PROVE Excess'[r] <= Excess[r]
    BY <1>1, <1>2, ExcessKept DEF ReplayInv
  <2>1. bronze[r] \in Nat /\ batch[r] \in Nat /\ bronze'[r] = bronze[r] + batch[r] /\ batch'[r] = 0
    BY <1>1, <1>2, ExcessAt
  <2>2. bronze'[r] + batch'[r] = bronze[r] + batch[r]
    BY <2>1
  <2>3. Excess'[r] = Excess[r] /\ Excess[r] \in Nat
    BY <1>1, <1>2, <2>2, ExcessAt, ExcessAtNext
  <2> QED BY <2>3
<1>4. BatchIsBounded'
  <2>1. Size(batch') = 0
    BY <1>1, SizeNone
  <2> QED BY <1>1, <2>1, IngestAssumption DEF BatchIsBounded
<1>5. WindowIsHeld'
  <2> DEFINE o == Ones(Window)
  <2>1. o \in Bag /\ \A r \in Records : o[r] <= batch[r]
    <3>1. \A r \in Window : batch[r] > 0
      BY <1>1 DEF ReplayInv, WindowIsHeld
    <3> QED BY <1>2, <3>1 DEF Ones
  <2>2. Size(o) <= Size(batch)
    <3> HIDE DEF o
    <3> QED BY <1>2, <2>1, SizeMonotone
  <2>3. Size(batch) <= BatchSize /\ Size(batch) \in Nat /\ Size(o) \in Nat
    <3> HIDE DEF o
    <3> QED BY <1>2, <2>1, SizeIsTotal DEF ReplayInv, BatchIsBounded
  <2>4. Size(Ones(Window)) <= BatchSize
    <3>1. Size(o) <= BatchSize
      <4> HIDE DEF o
      <4> QED BY <2>2, <2>3, IngestAssumption
    <3> QED BY <3>1
  <2>5. Window' = Window
    BY <1>1 DEF Window, Below
  <2> QED BY <1>1, <2>4, <2>5 DEF WindowIsHeld
<1> QED BY <1>3, <1>4, <1>5 DEF ReplayInv

(* Committing leaves nothing to be read again. *)
LEMMA ReplayCommit ==
    ASSUME IngestInv, IngestInv', ReplayInv, Commit
    PROVE  ReplayInv'
<1>1. /\ pc = "commit" /\ pc' = "poll" /\ committed' = position /\ batch = NoRows
      /\ UNCHANGED <<kind, bronze, batch, position, faults>>
  BY DEF Commit, topicVars, tableVars, procVars, IngestInv, FlushDrains
<1>2. ExcessIsPaid'
  <2>1. Excess' = Excess
    BY <1>1 DEF Excess, Below
  <2> QED BY <1>1, <2>1 DEF ReplayInv, ExcessIsPaid
<1>3. BatchIsBounded'
  <2>1. Size(batch') = 0
    BY <1>1, SizeNone
  <2> QED BY <1>1, <2>1, IngestAssumption DEF BatchIsBounded
<1>4. WindowIsHeld'
  <2>1. Window' = {}
    BY <1>1 DEF Window, Below
  <2> QED BY <1>1, <2>1 DEF WindowIsHeld
<1> QED BY <1>2, <1>3, <1>4 DEF ReplayInv

(* Stopping the process: what it had read and not committed is to be read  *)
(* again.  Until the append that was in the batch, which is gone.          *)
LEMMA ReplayExit ==
    ASSUME IngestInv, IngestInv', ReplayInv, NEW how \in Stopped, Exit(how),
           UNCHANGED <<kind, bronze>>,
           \/ faults' = faults + 1 /\ committed' = committed
           \/ faults' = faults /\ committed' = committed /\ pc \in {"poll", "append"}
           \/ faults' = faults /\ committed' = position
    PROVE  ReplayInv'
<1>1. /\ pc' = how /\ batch' = NoRows /\ position' = committed'
  BY DEF Exit
<1>2. TypeOK /\ TypeOK'
  BY DEF IngestInv
<1>3. BatchIsBounded'
  <2>1. Size(batch') = 0
    BY <1>1, SizeNone
  <2> QED BY <1>1, <2>1, IngestAssumption DEF BatchIsBounded
<1>4. WindowIsHeld'
  BY <1>1 DEF WindowIsHeld
<1>5. ASSUME NEW r \in Records
      PROVE  /\ r \in Window /\ committed' = committed =>
                    Excess'[r] <= Excess[r] + 1 /\ (batch[r] > 0 => Excess'[r] <= Excess[r])
             /\ r \notin Window \/ committed' # committed => Excess'[r] <= Excess[r]
  <2>1. /\ bronze[r] \in Nat /\ batch[r] \in Nat /\ bronze'[r] = bronze[r] /\ batch'[r] = 0
    BY <1>1, <1>2, ExcessAt
  <2>2. \A m, n \in Nat : /\ m <= n => Beyond(m) <= Beyond(n)
                          /\ Beyond(n + 1) <= Beyond(n) + 1
                          /\ Beyond(n) \in Nat /\ Beyond(1) = 0
    BY DEF Beyond
  <2>3. CASE r \in Below(committed')
    <3>1. r \in Below(position)
      BY <2>3, CommittedIsRead
    <3>2. Excess'[r] = Beyond(bronze[r]) /\ Excess[r] = Beyond(bronze[r] + batch[r])
      <4>1. Excess'[r] = Beyond(bronze[r] + 0)
        BY <1>1, <1>2, <2>1, <2>3, ExcessAtNext
      <4>2. bronze[r] + 0 = bronze[r]
        BY <2>1
      <4> QED BY <1>2, <3>1, <4>1, <4>2, ExcessAt
    <3>3. Excess'[r] <= Excess[r] /\ Excess[r] \in Nat /\ Excess'[r] \in Nat
      BY <2>1, <2>2, <3>2
    <3> QED BY <3>3
  <2>4. CASE r \notin Below(committed')
    <3>1. Excess'[r] = Beyond(bronze[r] + 1)
      <4>1. Excess'[r] = Beyond(bronze[r] + 0 + 1)
        BY <1>1, <1>2, <2>1, <2>4, ExcessAtNext
      <4>2. bronze[r] + 0 + 1 = bronze[r] + 1
        BY <2>1
      <4> QED BY <4>1, <4>2
    <3>2. CASE r \notin Below(position)
      <4>1. Excess[r] = Beyond(bronze[r] + batch[r] + 1)
        BY <1>2, <3>2, ExcessAt
      <4>2. bronze[r] + 1 <= bronze[r] + batch[r] + 1
        BY <2>1
      <4>3. Excess'[r] <= Excess[r] /\ Excess[r] \in Nat
        BY <2>1, <2>2, <3>1, <4>1, <4>2
      <4>4. r \notin Window
        BY <3>2 DEF Window
      <4> QED BY <4>3, <4>4
    <3>3. CASE r \in Below(position)
      <4>1. committed' = committed /\ r \notin Below(committed)
        BY <2>4, <3>3
      <4>2. Excess[r] = Beyond(bronze[r] + batch[r])
        BY <1>2, <3>3, ExcessAt
      <4>3. CASE kind[r] = "corrupt"
        <5>1. bronze[r] = 0
          BY <2>1, <4>3 DEF IngestInv, Routed
        <5>2. Excess'[r] = 0 /\ Excess[r] \in Nat
          BY <2>1, <2>2, <3>1, <4>2, <5>1
        <5>3. r \notin Window
          BY <4>3 DEF Window
        <5> QED BY <5>2, <5>3
      <4>4. CASE kind[r] # "corrupt"
        <5>1. r \in Window
          BY <3>3, <4>1, <4>4 DEF Window
        <5>2. Beyond(bronze[r]) <= Excess[r] /\ Beyond(bronze[r] + 1) <= Beyond(bronze[r]) + 1
          BY <2>1, <2>2, <4>2
        <5>3. batch[r] > 0 => Beyond(bronze[r] + 1) <= Excess[r]
          BY <2>1, <2>2, <4>2
        <5>4. Excess[r] \in Nat /\ Beyond(bronze[r]) \in Nat /\ Beyond(bronze[r] + 1) \in Nat
          BY <2>1, <2>2, <4>2
        <5> QED BY <3>1, <4>1, <5>1, <5>2, <5>3, <5>4
      <4> QED BY <4>3, <4>4
    <3> QED BY <3>2, <3>3
  <2> QED BY <2>3, <2>4
<1>6. ExcessIsPaid'
  <2>1. CASE \/ pc \in {"poll", "append"}
             \/ faults' = faults /\ committed' = position
             \/ Window = {}
    <3> SUFFICES ASSUME NEW r \in Records PROVE Excess'[r] <= Excess[r]
      BY <1>2, ExcessKept DEF ReplayInv
    <3>1. CASE pc \in {"poll", "append"}
      <4>1. \A s \in Window : batch[s] > 0
        BY <3>1 DEF ReplayInv, WindowIsHeld
      <4> QED BY <1>5, <4>1
    <3>2. CASE committed' = position
      <4>1. committed' = committed => Window = {}
        BY <3>2 DEF Window
      <4> QED BY <1>5, <4>1
    <3>3. CASE Window = {}
      BY <1>5, <3>3
    <3> QED BY <2>1, <3>1, <3>2, <3>3
  <2>2. CASE pc \notin {"poll", "append"} /\ faults' = faults + 1 /\ committed' = committed
    <3>1. CASE pc \in Stopped
      <4>1. Window = {}
        BY <3>1 DEF ReplayInv, WindowIsHeld, Window
      <4> QED BY <2>1, <4>1
    <3>2. CASE pc \in {"quarantine", "dlqFlush", "commit"}
      <4> DEFINE D == Ones(Window)
      <4>1. D \in Bag /\ Size(D) <= BatchSize
        <5>1. Size(Ones(Window)) <= BatchSize
          BY <3>2 DEF ReplayInv, WindowIsHeld
        <5> QED BY <5>1, WindowBag
      <4>2. \A r \in Records : Excess[r] \in Nat /\ D[r] = IF r \in Window THEN 1 ELSE 0
        BY <1>2, ExcessAt DEF Ones
      <4>3. \A r \in Records : Excess'[r] <= Excess[r] + D[r]
        <5> HIDE DEF D
        <5> SUFFICES ASSUME NEW r \in Records PROVE Excess'[r] <= Excess[r] + D[r]
          OBVIOUS
        <5>1. CASE r \in Window
          BY <1>5, <2>2, <4>2, <5>1
        <5>2. CASE r \notin Window
          BY <1>5, <2>2, <4>2, <5>2
        <5> QED BY <5>1, <5>2
      <4>4. faults \in Nat
        BY <1>2, IngestAssumption DEF TypeOK
      <4> HIDE DEF D
      <4> QED BY <1>2, <2>2, <4>1, <4>3, <4>4, ExcessStaysPaid DEF ReplayInv
    <3> QED BY <1>2, <2>2, <3>1, <3>2 DEF TypeOK
  <2> QED BY <2>1, <2>2
<1> QED BY <1>3, <1>4, <1>6 DEF ReplayInv

(* A rebalance keeps the batch, so what is read again may get a second row *)
(* for each one the batch has, and no more.                                *)
LEMMA ReplayRebalance ==
    ASSUME IngestInv, IngestInv', ReplayInv, Rebalance
    PROVE  ReplayInv'
<1>1. /\ pc = "poll" /\ pc' = pc /\ position' = committed /\ faults' = faults + 1
      /\ UNCHANGED <<kind, committed, bronze, batch>>
  BY DEF Rebalance, Fault, topicVars, tableVars
<1>2. TypeOK /\ TypeOK' /\ batch \in Bag
  BY DEF IngestInv, TypeOK
<1>3. ExcessIsPaid'
  <2>1. Size(batch) <= BatchSize /\ faults \in Nat
    BY <1>2, IngestAssumption DEF ReplayInv, BatchIsBounded, TypeOK
  <2> SUFFICES ASSUME NEW r \in Records PROVE Excess'[r] <= Excess[r] + batch[r]
    BY <1>1, <1>2, <2>1, ExcessStaysPaid DEF ReplayInv
  <2>2. bronze[r] \in Nat /\ batch[r] \in Nat /\ bronze'[r] = bronze[r] /\ batch'[r] = batch[r]
    BY <1>1, <1>2, ExcessAt
  <2>3. \A n \in Nat : Beyond(n) \in Nat /\ Beyond(n + 1) <= Beyond(n) + 1
    BY DEF Beyond
  <2>4. bronze[r] + batch[r] \in Nat /\ bronze[r] + batch[r] + 1 \in Nat
    BY <2>2
  <2>5. CASE (r \in Below(committed)) <=> (r \in Below(position))
    <3>1. Excess'[r] = Excess[r] /\ Excess[r] \in Nat
      BY <1>1, <1>2, <2>2, <2>5, ExcessAt, ExcessAtNext
    <3> QED BY <2>2, <3>1
  <2>6. CASE r \notin Below(committed) /\ r \in Below(position)
    <3>1. Excess'[r] = Beyond(bronze[r] + batch[r] + 1) /\ Excess[r] = Beyond(bronze[r] + batch[r])
      BY <1>1, <1>2, <2>2, <2>6, ExcessAt, ExcessAtNext
    <3>2. CASE kind[r] = "corrupt"
      <4>1. bronze[r] = 0 /\ batch[r] = 0
        BY <2>2, <3>2 DEF IngestInv, Routed
      <4> QED BY <2>3, <2>4, <3>1, <4>1 DEF Beyond
    <3>3. CASE kind[r] # "corrupt"
      <4>1. batch[r] > 0
        BY <1>1, <2>6, <3>3 DEF ReplayInv, WindowIsHeld, Window
      <4> QED BY <2>2, <2>3, <2>4, <3>1, <4>1
    <3> QED BY <3>2, <3>3
  <2> QED BY <2>5, <2>6, CommittedIsRead
<1>4. BatchIsBounded'
  BY <1>1 DEF ReplayInv, BatchIsBounded
<1>5. WindowIsHeld'
  <2>1. Window' = {}
    BY <1>1 DEF Window, Below
  <2> QED BY <1>1, <2>1 DEF WindowIsHeld
<1> QED BY <1>3, <1>4, <1>5 DEF ReplayInv

(* The steps that end the process are exits of one of these kinds. *)
LEMMA ReplayEnd ==
    ASSUME IngestInv, IngestInv', ReplayInv,
           \/ \E p \in Partitions : RejectOverflow(p)
           \/ AppendRefused \/ CommitLast \/ CommitNothing \/ Crash \/ BrokerError
    PROVE  ReplayInv'
<1>1. PICK how \in Stopped : Exit(how)
  BY DEF RejectOverflow, AppendRefused, CommitLast, CommitNothing, Crash, BrokerError
<1>2. /\ UNCHANGED <<kind, bronze>>
      /\ \/ faults' = faults + 1 /\ committed' = committed
         \/ faults' = faults /\ committed' = committed /\ pc \in {"poll", "append"}
         \/ faults' = faults /\ committed' = position
  BY DEF RejectOverflow, AppendRefused, CommitLast, CommitNothing, Crash, BrokerError, Fault,
         topicVars, tableVars
<1> QED BY <1>1, <1>2, ReplayExit

(* At the start nothing is in the tables and nothing is read. *)
LEMMA ReplayInit == Init => ReplayInv
<1> SUFFICES ASSUME Init PROVE ReplayInv
  OBVIOUS
<1>1. TypeOK
  BY InitInv DEF IngestInv
<1>2. Excess = NoRows
  <2>1. \A r \in Records : bronze[r] = 0 /\ batch[r] = 0
    BY DEF Init
  <2>2. \A r \in Records : bronze[r] + batch[r] + (IF r \in Below(position) THEN 0 ELSE 1) \in {0, 1}
    BY <2>1
  <2>3. Beyond(0) = 0 /\ Beyond(1) = 0
    BY DEF Beyond
  <2> QED BY <2>2, <2>3 DEF Excess
<1>3. ExcessIsPaid
  <2>1. Size(Excess) = 0 /\ faults = 0
    BY <1>2, SizeNone DEF Init
  <2> QED BY <2>1, IngestAssumption DEF ExcessIsPaid
<1>4. BatchIsBounded
  <2>1. Size(batch) = 0
    BY SizeNone DEF Init
  <2> QED BY <2>1, IngestAssumption DEF BatchIsBounded
<1>5. WindowIsHeld
  BY DEF WindowIsHeld, Init
<1> QED BY <1>3, <1>4, <1>5 DEF ReplayInv

(* Every step preserves it. *)
LEMMA ReplayNext == IngestInv /\ IngestInv' /\ ReplayInv /\ [Next]_vars => ReplayInv'
<1> SUFFICES ASSUME IngestInv, IngestInv', ReplayInv, [Next]_vars PROVE ReplayInv'
  OBVIOUS
<1>1. CASE \/ \E p \in Partitions : Produce(p)
           \/ \E r \in Records : DeliverDlq(r)
           \/ IdleStop \/ LimitStop \/ AppendQuarantine \/ DlqFlushed \/ DlqFlushTimeout
           \/ UNCHANGED vars
  <2>1. UNCHANGED <<kind, committed, bronze, batch, position, faults>>
    BY <1>1 DEF Produce, DeliverDlq, IdleStop, LimitStop, AppendQuarantine, DlqFlushed,
                DlqFlushTimeout, vars, topicVars, tableVars, procVars
  <2>2. \/ pc' = pc
        \/ pc = "poll" /\ pc' = "append"
        \/ pc \in {"quarantine", "dlqFlush"} /\ pc' \in {"dlqFlush", "commit"}
    BY <1>1 DEF Produce, DeliverDlq, IdleStop, LimitStop, AppendQuarantine, DlqFlushed,
                DlqFlushTimeout, vars
  <2> QED BY <2>1, <2>2, ReplayFrame
<1>2. CASE Start
  <2>1. /\ UNCHANGED <<kind, committed, bronze, batch, faults>>
        /\ position' = committed /\ pc \in Stopped /\ pc' = "poll"
    BY <1>2 DEF Start, topicVars, tableVars
  <2>2. position' = position
    BY <2>1 DEF ReplayInv, WindowIsHeld
  <2> QED BY <2>1, <2>2, ReplayFrame
<1>3. CASE \E p \in Partitions : Accept(p) \/ Reject(p)
  BY <1>3, ReplayRead
<1>4. CASE AppendBronze
  BY <1>4, ReplayAppend
<1>5. CASE Commit
  BY <1>5, ReplayCommit
<1>6. CASE \/ \E p \in Partitions : RejectOverflow(p)
           \/ AppendRefused \/ CommitLast \/ CommitNothing \/ Crash \/ BrokerError
  BY <1>6, ReplayEnd
<1>7. CASE Rebalance
  BY <1>7, ReplayRebalance
<1> QED
  BY <1>1, <1>2, <1>3, <1>4, <1>5, <1>6, <1>7 DEF Next, Consume, Flush

-----------------------------------------------------------------------------
(***************************************************************************)
(* Without a fault a record gets one row: what it has in quarantine and in *)
(* the buffer, and what it may still get, come to one at most, and until   *)
(* a flush has appended the buffer, quarantine holds committed records     *)
(* only.                                                                   *)
(***************************************************************************)
AtMostOneRow ==
    \A r \in Records :
        /\ quarantine[r] + rejects[r] <= 1
        /\ r \notin Below(position) => quarantine[r] = 0 /\ rejects[r] = 0

QuarantinedIsCommitted ==
    pc \in Stopped \cup {"poll", "append", "quarantine"} =>
        \A r \in Records : quarantine[r] > 0 => r \in Below(committed)

OnceInv == faults = 0 => AtMostOneRow /\ QuarantinedIsCommitted

(* The rows of the two bags are natural numbers. *)
LEMMA RejectedRows ==
    ASSUME TypeOK, NEW r \in Records
    PROVE  quarantine[r] \in Nat /\ rejects[r] \in Nat
BY DEF TypeOK

(* Every step that is no fault preserves it. *)
LEMMA OnceStep ==
    ASSUME IngestInv, IngestInv', ReplayInv, OnceInv, faults = 0, faults' = 0, [Next]_vars
    PROVE  AtMostOneRow' /\ QuarantinedIsCommitted'
<1>1. AtMostOneRow /\ QuarantinedIsCommitted /\ TypeOK /\ TypeOK'
  BY DEF OnceInv, IngestInv
<1>2. CASE \/ \E p \in Partitions : Produce(p)
           \/ \E r \in Records : DeliverDlq(r)
           \/ Start
           \/ IdleStop \/ LimitStop \/ AppendBronze \/ DlqFlushed \/ DlqFlushTimeout
           \/ UNCHANGED vars
  <2>1. UNCHANGED <<committed, quarantine, rejects>>
    BY <1>2 DEF Produce, DeliverDlq, Start, IdleStop, LimitStop, AppendBronze, DlqFlushed,
                DlqFlushTimeout, vars, topicVars, tableVars, procVars
  <2>2. position' = position
    <3>1. CASE Start
      BY <3>1 DEF Start, ReplayInv, WindowIsHeld
    <3>2. CASE ~ Start
      BY <1>2, <3>2 DEF Produce, DeliverDlq, IdleStop, LimitStop, AppendBronze, DlqFlushed,
                        DlqFlushTimeout, vars, procVars
    <3> QED BY <3>1, <3>2
  <2>3. pc' \in Stopped \cup {"poll", "append", "quarantine"} =>
            pc \in Stopped \cup {"poll", "append", "quarantine"}
    BY <1>2 DEF Produce, DeliverDlq, Start, IdleStop, LimitStop, AppendBronze, DlqFlushed,
                DlqFlushTimeout, vars
  <2> QED BY <1>1, <2>1, <2>2, <2>3 DEF AtMostOneRow, QuarantinedIsCommitted, Below
<1>3. CASE \E p \in Partitions : Accept(p) \/ Reject(p)
  <2> PICK p \in Partitions : Accept(p) \/ Reject(p)
    BY <1>3
  <2> DEFINE a == <<p, position[p]>>
  <2>1. /\ pc = "poll" /\ position[p] < end[p] /\ position' = [position EXCEPT ![p] = @ + 1]
        /\ UNCHANGED <<committed, quarantine>>
        /\ rejects' = rejects \/ rejects' = Add(rejects, a)
    BY DEF Accept, Reject, Polled, topicVars, tableVars
  <2>2. position \in [Partitions -> 0 .. LogLen] /\ end \in [Partitions -> 0 .. LogLen]
    BY <1>1 DEF TypeOK
  <2>3. a \in Records /\ a \notin Below(position)
    <3>1. a \in Records
      BY <2>1, <2>2, NextRecord
    <3> QED BY <2>2, <3>1 DEF Below
  <2>4. Below(position) \subseteq Below(position') /\ a \in Below(position')
    <3>1. /\ position' \in [Partitions -> 0 .. LogLen] /\ position[p] < position'[p]
          /\ \A q \in Partitions : position[q] <= position'[q]
      BY <1>1, <2>1, <2>2 DEF TypeOK
    <3> QED BY <2>2, <3>1, BelowMonotone, NextRecord
  <2> HIDE DEF a
  <2>5. AtMostOneRow'
    <3> SUFFICES ASSUME NEW r \in Records
                 PROVE  /\ quarantine'[r] + rejects'[r] <= 1
                        /\ r \notin Below(position') => quarantine'[r] = 0 /\ rejects'[r] = 0
      BY DEF AtMostOneRow, Below
    <3>1. CASE r = a
      <4>1. quarantine[r] = 0 /\ rejects[r] = 0
        BY <1>1, <2>3, <3>1 DEF AtMostOneRow
      <4>2. rejects \in Bag
        BY <1>1 DEF TypeOK
      <4>3. quarantine'[r] = 0 /\ rejects'[r] \in {0, 1}
        BY <2>1, <3>1, <4>1, <4>2
      <4> QED BY <2>4, <3>1, <4>3
    <3>2. CASE r # a
      <4>1. rejects \in Bag
        BY <1>1 DEF TypeOK
      <4>2. quarantine'[r] = quarantine[r] /\ rejects'[r] = rejects[r]
        BY <2>1, <3>2, <4>1
      <4> QED BY <1>1, <2>4, <4>2 DEF AtMostOneRow
    <3> QED BY <3>1, <3>2
  <2> QED BY <1>1, <2>1, <2>5 DEF QuarantinedIsCommitted, Below
<1>4. CASE AppendQuarantine
  <2>1. /\ quarantine' = Union(quarantine, rejects) /\ rejects' = NoRows /\ pc' = "dlqFlush"
        /\ position' = position
    BY <1>4 DEF AppendQuarantine
  <2>2. \A r \in Records : quarantine'[r] = quarantine[r] + rejects[r] /\ rejects'[r] = 0
    BY <2>1
  <2>3. AtMostOneRow'
    <3> SUFFICES ASSUME NEW r \in Records
                 PROVE  /\ quarantine'[r] + rejects'[r] <= 1
                        /\ r \notin Below(position) => quarantine'[r] = 0 /\ rejects'[r] = 0
      BY <2>1 DEF AtMostOneRow, Below
    <3>1. quarantine[r] \in Nat /\ rejects[r] \in Nat /\ quarantine[r] + rejects[r] <= 1
      BY <1>1, RejectedRows DEF AtMostOneRow
    <3> QED BY <1>1, <2>2, <3>1 DEF AtMostOneRow
  <2> QED BY <2>1, <2>3 DEF QuarantinedIsCommitted
<1>5. ASSUME committed' = position, position' = position, quarantine' = quarantine,
             \A r \in Records : rejects'[r] \in {0, rejects[r]}
      PROVE  AtMostOneRow' /\ QuarantinedIsCommitted'
  <2>1. \A r \in Records : quarantine[r] > 0 => r \in Below(position)
    BY <1>1, RejectedRows DEF AtMostOneRow
  <2>2. AtMostOneRow'
    <3> SUFFICES ASSUME NEW r \in Records
                 PROVE  /\ quarantine'[r] + rejects'[r] <= 1
                        /\ r \notin Below(position) => quarantine'[r] = 0 /\ rejects'[r] = 0
      BY <1>5 DEF AtMostOneRow, Below
    <3>1. quarantine[r] \in Nat /\ rejects[r] \in Nat /\ quarantine[r] + rejects[r] <= 1
      BY <1>1, RejectedRows DEF AtMostOneRow
    <3>2. rejects'[r] = 0 \/ rejects'[r] = rejects[r]
      BY <1>5
    <3> QED BY <1>1, <1>5, <3>1, <3>2 DEF AtMostOneRow
  <2> QED BY <1>5, <2>1, <2>2 DEF QuarantinedIsCommitted, Below
<1>6. CASE Commit
  BY <1>5, <1>6 DEF Commit, tableVars, procVars
<1>7. CASE CommitLast \/ CommitNothing
  <2>1. committed' = position /\ position' = position /\ quarantine' = quarantine /\ rejects' = NoRows
    BY <1>7 DEF CommitLast, CommitNothing, Exit, tableVars
  <2> QED BY <1>5, <2>1
<1>8. CASE AppendRefused \/ \E p \in Partitions : RejectOverflow(p)
  <2>1. /\ pc \in {"poll", "append"} /\ pc' \in Stopped /\ position' = committed
        /\ rejects' = NoRows /\ UNCHANGED <<committed, quarantine>>
    BY <1>8 DEF AppendRefused, RejectOverflow, Exit, tableVars
  <2>2. AtMostOneRow'
    <3> SUFFICES ASSUME NEW r \in Records
                 PROVE  /\ quarantine[r] + 0 <= 1
                        /\ r \notin Below(committed) => quarantine[r] = 0
      BY <2>1 DEF AtMostOneRow, Below
    <3>1. quarantine[r] \in Nat /\ rejects[r] \in Nat /\ quarantine[r] + rejects[r] <= 1
      BY <1>1, RejectedRows DEF AtMostOneRow
    <3> QED BY <1>1, <2>1, <3>1 DEF QuarantinedIsCommitted
  <2> QED BY <1>1, <2>1, <2>2 DEF QuarantinedIsCommitted, Below
<1>9. ~ (Crash \/ BrokerError \/ Rebalance)
  BY DEF Crash, BrokerError, Rebalance, Fault
<1> QED
  BY <1>2, <1>3, <1>4, <1>6, <1>7, <1>8, <1>9 DEF Next, Consume, Flush

(* So does every other, which makes it vacuous. *)
LEMMA OnceNext == IngestInv /\ IngestInv' /\ ReplayInv /\ OnceInv /\ [Next]_vars => OnceInv'
<1> SUFFICES ASSUME IngestInv, IngestInv', ReplayInv, OnceInv, [Next]_vars, faults' = 0
             PROVE  AtMostOneRow' /\ QuarantinedIsCommitted'
  BY DEF OnceInv
<1>1. faults \in Nat /\ faults' \in {faults, faults + 1}
  <2>1. faults \in Nat
    BY IngestAssumption DEF IngestInv, TypeOK
  <2>2. faults' \in {faults, faults + 1}
    BY DEF Next, Consume, Flush, Produce, DeliverDlq, Start, Accept, Reject, Polled, RejectOverflow,
           IdleStop, LimitStop, AppendBronze, AppendRefused, AppendQuarantine, DlqFlushed,
           DlqFlushTimeout, Commit, CommitLast, CommitNothing, Crash, BrokerError, Rebalance,
           Fault, vars
  <2> QED BY <2>1, <2>2
<1>2. faults = 0
  BY <1>1
<1> QED BY <1>2, OnceStep

LEMMA OnceInit == Init => OnceInv
<1> SUFFICES ASSUME Init PROVE AtMostOneRow /\ QuarantinedIsCommitted
  BY DEF OnceInv
<1> QED BY DEF Init, AtMostOneRow, QuarantinedIsCommitted

-----------------------------------------------------------------------------
(* What the invariants say of the tables. *)
LEMMA ReplayBound == IngestInv /\ ReplayInv /\ OnceInv => ReplayIsBounded
<1> SUFFICES ASSUME IngestInv, ReplayInv, OnceInv PROVE ReplayIsBounded
  OBVIOUS
<1>1. TypeOK
  BY DEF IngestInv
<1>2. Surplus(bronze) <= faults * BatchSize
  <2> DEFINE s == [r \in Records |-> IF bronze[r] > 1 THEN bronze[r] - 1 ELSE 0]
             x == Excess
  <2>1. x \in Bag /\ s \in Bag /\ \A r \in Records : s[r] <= x[r]
    <3>1. x \in Bag /\ \A r \in Records : bronze[r] \in Nat /\ batch[r] \in Nat
      BY <1>1, ExcessAt
    <3>2. s \in Bag
      BY <3>1
    <3>3. ASSUME NEW r \in Records PROVE s[r] <= x[r]
      <4>1. \A m, n \in Nat : m <= n => Beyond(m) <= Beyond(n)
        BY DEF Beyond
      <4>2. s[r] = Beyond(bronze[r])
        BY DEF Beyond
      <4>3. x[r] = Beyond(bronze[r] + batch[r]) \/ x[r] = Beyond(bronze[r] + batch[r] + 1)
        BY <1>1, ExcessAt
      <4> HIDE DEF s, x
      <4> QED BY <3>1, <4>1, <4>2, <4>3
    <3> QED BY <3>1, <3>2, <3>3
  <2>2. Size(s) <= Size(x) /\ Size(s) \in Nat /\ Size(x) \in Nat
    <3> HIDE DEF s, x
    <3> QED BY <2>1, SizeMonotone, SizeIsTotal
  <2>3. Size(x) <= faults * BatchSize /\ faults * BatchSize \in Nat
    <3>1. faults \in Nat /\ BatchSize \in Nat
      BY <1>1, IngestAssumption DEF TypeOK
    <3> QED BY <3>1 DEF ReplayInv, ExcessIsPaid
  <2>4. Size(s) <= faults * BatchSize
    <3> DEFINE w == faults * BatchSize
    <3>1. w \in Nat /\ Size(x) <= w
      BY <2>3
    <3> HIDE DEF s, x, w
    <3>2. Size(s) <= w
      BY <2>2, <3>1
    <3> QED BY <3>2 DEF w
  <2> QED BY <2>4 DEF Surplus
<1>3. faults = 0 => Surplus(quarantine) = 0
  <2> SUFFICES ASSUME faults = 0 PROVE Surplus(quarantine) = 0
    OBVIOUS
  <2>1. \A r \in Records : ~ (quarantine[r] > 1)
    BY <1>1, RejectedRows DEF OnceInv, AtMostOneRow
  <2>2. [r \in Records |-> IF quarantine[r] > 1 THEN quarantine[r] - 1 ELSE 0] = NoRows
    BY <2>1
  <2> QED BY <2>2, SizeNone DEF Surplus
<1> QED BY <1>2, <1>3 DEF ReplayIsBounded

(* A replay costs at most one batch of bronze rows per crash, broker error  *)
(* or rebalance, and quarantine has no row twice without one, for every     *)
(* batch size, number of partitions and number of faults.                   *)
THEOREM ReplaysAreBounded == Spec => []ReplayIsBounded
<1>1. Spec => []IngestInv
  BY IngestInvariant
<1>2. IngestInv /\ ReplayInv /\ OnceInv /\ IngestInv' /\ [Next]_vars => ReplayInv' /\ OnceInv'
  BY ReplayNext, OnceNext
<1>3. Init => ReplayInv /\ OnceInv
  BY ReplayInit, OnceInit
<1> QED BY <1>1, <1>2, <1>3, ReplayBound, PTL DEF Spec

=============================================================================
