------------------------ MODULE OccupancyFlowProofs ------------------------
(***************************************************************************)
(* Proofs about the occupancy stream's way to silver, for every payload,   *)
(* number of emissions, ingestions and resets, and every clock.            *)
(***************************************************************************)
EXTENDS OccupancyFlow, FiniteSums

-----------------------------------------------------------------------------
(***************************************************************************)
(* The verdict.                                                            *)
(***************************************************************************)
\* A later clock finds no error that an earlier one did not find.
LEMMA ErrorsOnlyGo ==
    ASSUME NEW e, NEW m \in Nat, NEW n \in Nat, m <= n,
           IsA("string", e, "event_time") => e["event_time"].val \in Nat
    PROVE  FieldErrors(e, n) \subseteq FieldErrors(e, m)
<1> SUFFICES ASSUME NEW r \in FieldErrors(e, n)
             PROVE  r \in FieldErrors(e, m)
  OBVIOUS
<1>1. r \in Rules(e)
  BY DEF FieldErrors
<1>2. r[2] = "value_error" => r[1] \in {"zone_id", "event_time"}
  BY <1>1 DEF Rules, Texts, Counts
<1>3. ASSUME IsA("string", e, "event_time"), Ahead(e["event_time"].val, n)
      PROVE  Ahead(e["event_time"].val, m)
  BY <1>3 DEF Ahead, FUTURE_TOLERANCE
<1>4. WrongValue(e, r[1], r[2], n) => WrongValue(e, r[1], r[2], m)
  BY <1>2, <1>3 DEF WrongValue
<1>5. QED
  BY <1>1, <1>4 DEF FieldErrors

\* What is valid stays valid.
LEMMA ValidStaysValid ==
    ASSUME NEW k \in DOMAIN Payload, NEW m \in Nat, NEW n \in Nat, m <= n, Accepts(Payload[k], m)
    PROVE  Accepts(Payload[k], n)
<1>1. Payload[k].json
  BY DEF Accepts, Violations
<1>2. FieldErrors(Payload[k].fields, m) = {} /\ ~ OverCapacity(Payload[k].fields)
  BY <1>1 DEF Accepts, Violations
<1>3. FieldErrors(Payload[k].fields, n) = {}
  BY <1>1, <1>2, ErrorsOnlyGo, FlowAssumption
<1>4. QED
  BY <1>1, <1>2, <1>3 DEF Accepts, Violations

-----------------------------------------------------------------------------
(***************************************************************************)
(* The invariant.                                                          *)
(***************************************************************************)
FlowType ==
    /\ clock \in Nat /\ emission \in Nat /\ sent \in Nat
    /\ topic \in Seq((DOMAIN Payload) \X Nat)
    /\ committed \in 0 .. Len(topic)
    /\ dropped \in 0 .. committed
    /\ process \in Nat
    /\ bronze \subseteq ((DOMAIN Payload) \X Nat) \X Nat
    /\ quarantine \subseteq ((DOMAIN Payload) \X Nat) \X Nat

\* An event the producer has sent.
Known(e) == e[2] < emission \/ (e[2] = emission /\ e[1] <= sent)

\* The producer never sends an event again, reset or not.
SentOnce ==
    /\ \A i \in 1 .. Len(topic) : Known(topic[i])
    /\ \A i, j \in 1 .. Len(topic) : topic[i] = topic[j] => i = j

RowsAreSent ==
    \A row \in bronze \cup quarantine : Known(row[1]) /\ row[2] <= process

\* What is still to be read was not landed by the process that will read it.
UnreadIsNotOwn ==
    \A i \in committed + 1 .. Len(topic), row \in bronze \cup quarantine :
        row[1] = topic[i] => row[2] < process

BronzeIsValid == \A row \in bronze : Accepts(Payload[row[1][1]], clock)

SilverIsFirst == silver \subseteq Deduplicated

FlowInv ==
    /\ FlowType
    /\ SentOnce
    /\ RowsAreSent
    /\ UnreadIsNotOwn
    /\ BronzeIsValid
    /\ SilverIsFirst
    /\ CommittedHaveOnePlace

\* What the appends of a flush up to n, or some of them, leave.
Landed(n, b, q) ==
    /\ b \subseteq ((DOMAIN Payload) \X Nat) \X Nat
    /\ q \subseteq ((DOMAIN Payload) \X Nat) \X Nat
    /\ \A row \in b \cup q : Known(row[1]) /\ row[2] <= process
    /\ \A i \in n + 1 .. Len(topic), row \in b \cup q : row[1] = topic[i] => row[2] < process
    /\ \A row \in b : Accepts(Payload[row[1][1]], clock)
    /\ \A row \in silver : row \in b /\ \A other \in b : other[1] = row[1] => row[2] <= other[2]
    /\ \A row \in q, other \in b : row[1] = other[1] => row[2] < other[2]

LEMMA Appended ==
    ASSUME FlowInv, NEW n \in committed + 1 .. Len(topic),
           NEW A \in SUBSET Accepted(n), NEW B \in SUBSET (ReadTo(n) \ Accepted(n)),
           NEW b, b = bronze \cup (A \X {process}),
           NEW q, q = quarantine \cup (B \X {process})
    PROVE  Landed(n, b, q)
<1>1. /\ A \subseteq ReadTo(n) /\ B \subseteq ReadTo(n)
      /\ \A e \in A : Accepts(Payload[e[1]], clock)
      /\ \A e \in B : ~ Accepts(Payload[e[1]], clock)
  BY DEF Accepted
<1>2. \A e \in ReadTo(n) : \E i \in committed + 1 .. n : e = topic[i]
  BY DEF ReadTo
<1>3. n \in Nat /\ committed \in Nat /\ n <= Len(topic) /\ Len(topic) \in Nat /\ committed + 1 <= n
  BY DEF FlowInv, FlowType
<1>4. \A e \in ReadTo(n) :
          /\ e \in (DOMAIN Payload) \X Nat
          /\ Known(e)
          /\ \A i \in n + 1 .. Len(topic) : topic[i] # e
          /\ \A row \in bronze \cup quarantine : row[1] = e => row[2] < process
  <2> TAKE e \in ReadTo(n)
  <2>1. PICK i \in committed + 1 .. n : e = topic[i]
    BY <1>2
  <2>2. i \in 1 .. Len(topic) /\ i \in committed + 1 .. Len(topic)
    BY <1>3
  <2>3. topic[i] \in (DOMAIN Payload) \X Nat
    BY <2>2 DEF FlowInv, FlowType
  <2>4. Known(e)
    BY <2>1, <2>2 DEF FlowInv, SentOnce
  <2>5. \A j \in n + 1 .. Len(topic) : topic[j] # e
    BY <1>3, <2>1, <2>2 DEF FlowInv, SentOnce
  <2>6. \A row \in bronze \cup quarantine : row[1] = e => row[2] < process
    BY <2>1, <2>2 DEF FlowInv, UnreadIsNotOwn
  <2>7. QED
    BY <2>1, <2>3, <2>4, <2>5, <2>6
<1>5. /\ \A row \in b : row \in bronze \/ (row[1] \in A /\ row[2] = process /\ row = <<row[1], row[2]>>)
      /\ \A row \in q : row \in quarantine \/ (row[1] \in B /\ row[2] = process /\ row = <<row[1], row[2]>>)
      /\ bronze \subseteq b /\ quarantine \subseteq q
  OBVIOUS
<1>6. process \in Nat /\ \A row \in bronze \cup quarantine : row[2] \in Nat
  BY DEF FlowInv, FlowType
<1>7. b \subseteq ((DOMAIN Payload) \X Nat) \X Nat /\ q \subseteq ((DOMAIN Payload) \X Nat) \X Nat
  BY <1>1, <1>4, <1>6 DEF FlowInv, FlowType
<1>8. \A row \in b \cup q : Known(row[1]) /\ row[2] <= process
  BY <1>1, <1>4, <1>5, <1>6 DEF FlowInv, RowsAreSent
<1>9. \A i \in n + 1 .. Len(topic), row \in b \cup q : row[1] = topic[i] => row[2] < process
  <2> TAKE i \in n + 1 .. Len(topic), row \in b \cup q
  <2>1. i \in committed + 1 .. Len(topic)
    BY <1>3
  <2>2. CASE row \in bronze \cup quarantine
    BY <2>1, <2>2 DEF FlowInv, UnreadIsNotOwn
  <2>3. CASE row[1] \in A \cup B
    BY <1>1, <1>4, <2>3
  <2>4. QED
    BY <1>5, <2>2, <2>3
<1>10. \A row \in b : Accepts(Payload[row[1][1]], clock)
  BY <1>1, <1>5 DEF FlowInv, BronzeIsValid
<1>11. \A row \in silver : row \in b /\ \A other \in b : other[1] = row[1] => row[2] <= other[2]
  <2> TAKE row \in silver
  <2>1. row \in bronze /\ \A other \in bronze : other[1] = row[1] => row[2] <= other[2]
    BY DEF FlowInv, SilverIsFirst, Deduplicated
  <2>2. row[2] <= process
    BY <2>1 DEF FlowInv, RowsAreSent
  <2>3. QED
    BY <1>5, <2>1, <2>2
<1>12. \A row \in q, other \in b : row[1] = other[1] => row[2] < other[2]
  <2> TAKE row \in q, other \in b
  <2> HAVE row[1] = other[1]
  <2>1. CASE row \in quarantine /\ other \in bronze
    BY <2>1 DEF FlowInv, CommittedHaveOnePlace
  <2>2. CASE row \in quarantine /\ other[1] \in A /\ other[2] = process
    BY <1>1, <1>4, <2>2
  <2>3. CASE row[1] \in B
    <3>1. ~ Accepts(Payload[other[1][1]], clock)
      BY <1>1, <2>3
    <3>2. QED
      BY <1>10, <3>1
  <2>4. QED
    BY <1>5, <2>1, <2>2, <2>3
<1>13. QED
  BY <1>7, <1>8, <1>9, <1>10, <1>11, <1>12 DEF Landed

LEMMA FlowInvInitially == Init => FlowInv
BY FlowAssumption
   DEF Init, FlowInv, FlowType, SentOnce, RowsAreSent, UnreadIsNotOwn, BronzeIsValid,
       SilverIsFirst, CommittedHaveOnePlace, EventsOf

\* Appending to the tables, with the offset committed or not.
LEMMA AppendsKeepFlowInv ==
    ASSUME FlowInv, NEW n \in committed + 1 .. Len(topic),
           NEW A \in SUBSET Accepted(n), NEW B \in SUBSET (ReadTo(n) \ Accepted(n)),
           bronze' = bronze \cup (A \X {process}),
           quarantine' = quarantine \cup (B \X {process}),
           \/ committed' = n /\ process' = process /\ A \cup B = ReadTo(n)
           \/ committed' = committed /\ process' = process + 1,
           UNCHANGED <<clock, emission, sent, topic, silver, dropped>>
    PROVE  FlowInv'
<1> DEFINE b == bronze \cup (A \X {process})
           q == quarantine \cup (B \X {process})
<1>0. b = bronze \cup (A \X {process}) /\ q = quarantine \cup (B \X {process})
  OBVIOUS
<1> HIDE DEF b, q
<1>1. Landed(n, b, q)
  BY <1>0, Appended, Zenon
<1>2. b = bronze' /\ q = quarantine'
  BY <1>0
<1>3. bronze \subseteq bronze' /\ quarantine \subseteq quarantine'
  OBVIOUS
<1>4. \A e \in A : e \in EventsOf(bronze')
  <2> TAKE e \in A
  <2>1. <<e, process>> \in bronze' /\ <<e, process>>[1] = e
    OBVIOUS
  <2>2. QED
    BY <2>1 DEF EventsOf
<1>5. \A e \in B : e \in EventsOf(quarantine')
  <2> TAKE e \in B
  <2>1. <<e, process>> \in quarantine' /\ <<e, process>>[1] = e
    OBVIOUS
  <2>2. QED
    BY <2>1 DEF EventsOf
<1>6. /\ n \in Nat /\ committed \in Nat /\ dropped \in Nat /\ Len(topic) \in Nat /\ process \in Nat
      /\ n <= Len(topic) /\ committed + 1 <= n /\ dropped <= committed
  BY DEF FlowInv, FlowType
<1>7. process <= process' /\ process' \in Nat
  BY <1>6
<1>8. FlowType'
  BY <1>1, <1>2, <1>6, <1>7 DEF Landed, FlowInv, FlowType
<1>9. SentOnce'
  BY DEF FlowInv, SentOnce, Known
<1>10. RowsAreSent'
  BY <1>1, <1>2, <1>6, <1>7, <1>8 DEF Landed, RowsAreSent, Known, FlowType
<1>11. UnreadIsNotOwn'
  <2>1. CASE committed' = n /\ process' = process
    BY <1>1, <1>2, <2>1 DEF Landed, UnreadIsNotOwn
  <2>2. CASE process' = process + 1
    BY <1>1, <1>2, <1>6, <1>8, <2>2 DEF Landed, UnreadIsNotOwn, FlowType
  <2>3. QED
    BY <2>1, <2>2
<1>12. BronzeIsValid'
  BY <1>1, <1>2 DEF Landed, BronzeIsValid
<1>13. SilverIsFirst'
  BY <1>1, <1>2 DEF Landed, SilverIsFirst, Deduplicated
<1>14. CommittedHaveOnePlace'
  <2>1. ASSUME NEW i \in dropped' + 1 .. committed'
        PROVE  topic[i] \in EventsOf(bronze') \cup EventsOf(quarantine')
    <3>1. CASE i \in dropped + 1 .. committed
      <4>1. topic[i] \in EventsOf(bronze) \cup EventsOf(quarantine)
        BY <3>1 DEF FlowInv, CommittedHaveOnePlace
      <4>2. QED
        BY <1>3, <4>1 DEF EventsOf
    <3>2. CASE i \in committed + 1 .. n /\ A \cup B = ReadTo(n)
      <4>1. topic[i] \in A \cup B
        BY <3>2 DEF ReadTo
      <4>2. QED
        BY <1>4, <1>5, <4>1
    <3>3. QED
      BY <1>6, <2>1, <3>1, <3>2
  <2>2. QED
    BY <1>1, <1>2, <2>1 DEF Landed, CommittedHaveOnePlace
<1>15. QED
  BY <1>8, <1>9, <1>10, <1>11, <1>12, <1>13, <1>14 DEF FlowInv

\* Every step keeps the invariant.
LEMMA StepKeepsFlowInv == FlowInv /\ [Next]_vars => FlowInv'
<1> SUFFICES ASSUME FlowInv, [Next]_vars
             PROVE  FlowInv'
  OBVIOUS
<1> USE DEF producerVars, brokerVars, tableVars, resetVars
<1>1. CASE Tick
  <2>1. clock' \in Nat /\ clock <= clock' /\ clock \in Nat
    BY <1>1, FlowAssumption DEF Tick, FlowInv, FlowType
  <2>2. BronzeIsValid'
    <3>1. \A row \in bronze : row[1][1] \in DOMAIN Payload
      BY DEF FlowInv, FlowType
    <3>2. QED
      BY <1>1, <2>1, <3>1, ValidStaysValid DEF Tick, FlowInv, BronzeIsValid
  <2>3. QED
    BY <1>1, <2>1, <2>2
       DEF Tick, FlowInv, FlowType, SentOnce, RowsAreSent, UnreadIsNotOwn, SilverIsFirst,
           CommittedHaveOnePlace, Known, Deduplicated
<1>2. CASE Send
  <2>1. /\ sent \in Nat /\ emission \in Nat /\ sent + 1 \in DOMAIN Payload
        /\ Len(topic) \in Nat /\ committed \in Nat /\ committed <= Len(topic) /\ dropped \in Nat
    BY <1>2, FlowAssumption DEF Send, FlowInv, FlowType
  <2>0. PICK e : e = <<sent + 1, emission>>
    OBVIOUS
  <2>2. /\ e \in (DOMAIN Payload) \X Nat
        /\ ~ Known(e) /\ Known(e)'
    BY <1>2, <2>0, <2>1 DEF Send, Known
  <2>3. ASSUME NEW x, x[1] \in Nat, x[2] \in Nat, Known(x)
        PROVE  Known(x)'
    BY <1>2, <2>1, <2>3 DEF Send, Known
  <2>4. /\ topic' = Append(topic, e) /\ topic \in Seq((DOMAIN Payload) \X Nat)
        /\ Len(topic') = Len(topic) + 1
        /\ \A i \in 1 .. Len(topic) : topic'[i] = topic[i]
        /\ topic'[Len(topic) + 1] = e
    BY <1>2, <2>0, <2>2 DEF Send, FlowInv, FlowType
  <2>5. DOMAIN Payload \subseteq Nat
    BY FlowAssumption
  <2>6. \A i \in 1 .. Len(topic) : topic[i] \in (DOMAIN Payload) \X Nat
    BY <2>4
  <2>7. FlowType'
    BY <1>2, <2>1, <2>2, <2>4 DEF Send, FlowInv, FlowType
  <2>8. SentOnce'
    <3>1. \A i \in 1 .. Len(topic) : Known(topic[i]) /\ topic[i] # e
      BY <2>2 DEF FlowInv, SentOnce
    <3>2. \A i \in 1 .. Len(topic) : Known(topic[i])'
      BY <2>3, <2>4, <2>5, <2>6, <3>1 DEF Known
    <3>3. QED
      BY <2>1, <2>2, <2>4, <3>1, <3>2 DEF FlowInv, SentOnce, Known
  <2>9. RowsAreSent'
    BY <1>2, <2>3, <2>5 DEF Send, FlowInv, FlowType, RowsAreSent, Known
  <2>10. UnreadIsNotOwn'
    <3>1. \A row \in bronze \cup quarantine : row[1] # e
      BY <2>2 DEF FlowInv, RowsAreSent
    <3>2. ASSUME NEW i \in committed + 1 .. Len(topic) + 1, NEW row \in bronze \cup quarantine,
                 row[1] = topic'[i]
          PROVE  row[2] < process
      <4>1. i # Len(topic) + 1
        BY <2>4, <3>1, <3>2
      <4>2. i \in committed + 1 .. Len(topic) /\ i \in 1 .. Len(topic)
        BY <2>1, <4>1
      <4>3. row[1] = topic[i]
        BY <2>4, <3>2, <4>2
      <4>4. QED
        BY <4>2, <4>3 DEF FlowInv, UnreadIsNotOwn
    <3>3. UNCHANGED <<committed, bronze, quarantine, process>>
      BY <1>2 DEF Send
    <3>4. QED
      BY <2>4, <3>2, <3>3 DEF UnreadIsNotOwn
  <2>11. CommittedHaveOnePlace'
    BY <1>2, <2>1, <2>4 DEF Send, FlowInv, CommittedHaveOnePlace
  <2>12. QED
    BY <1>2, <2>7, <2>8, <2>9, <2>10, <2>11
       DEF Send, FlowInv, BronzeIsValid, SilverIsFirst, Deduplicated
<1>3. CASE EmitAgain
  <2>1. emission \in Nat /\ emission' = emission + 1 /\ emission' \in Nat /\ sent' \in Nat
    BY <1>3 DEF EmitAgain, FlowInv, FlowType
  <2>2. ASSUME NEW x, x[2] \in Nat, Known(x)
        PROVE  Known(x)'
    BY <1>3, <2>1, <2>2 DEF EmitAgain, Known
  <2>3. FlowType'
    BY <1>3, <2>1 DEF EmitAgain, FlowInv, FlowType
  <2>4. \A i \in 1 .. Len(topic) : topic[i][2] \in Nat
    BY DEF FlowInv, FlowType
  <2>5. SentOnce'
    BY <1>3, <2>2, <2>4 DEF EmitAgain, FlowInv, SentOnce, Known
  <2>6. RowsAreSent'
    BY <1>3, <2>2 DEF EmitAgain, FlowInv, FlowType, RowsAreSent, Known
  <2>7. QED
    BY <1>3, <2>3, <2>5, <2>6
       DEF EmitAgain, FlowInv, UnreadIsNotOwn, BronzeIsValid, SilverIsFirst,
           CommittedHaveOnePlace, Deduplicated
<1>4. CASE Ingest
  <2>1. PICK n \in committed + 1 .. Len(topic) :
            /\ Flush(n)
            /\ UNCHANGED <<clock, producerVars, topic, process, silver, gold, counted, resetVars>>
    BY <1>4 DEF Ingest
  <2>2. /\ Accepted(n) \in SUBSET Accepted(n)
        /\ ReadTo(n) \ Accepted(n) \in SUBSET (ReadTo(n) \ Accepted(n))
        /\ Accepted(n) \cup (ReadTo(n) \ Accepted(n)) = ReadTo(n)
    BY DEF Accepted
  <2>3. QED
    BY <2>1, <2>2, AppendsKeepFlowInv DEF Flush
<1>5. CASE EndProcess
  <2>1. CASE UNCHANGED <<bronze, quarantine>>
    BY <1>5, <2>1
       DEF EndProcess, FlowInv, FlowType, SentOnce, RowsAreSent, UnreadIsNotOwn, BronzeIsValid,
           SilverIsFirst, CommittedHaveOnePlace, Known, Deduplicated
  <2>2. CASE \E n \in committed + 1 .. Len(topic) :
                /\ bronze' = bronze \cup (Accepted(n) \X {process})
                /\ \/ UNCHANGED quarantine
                   \/ quarantine' = quarantine \cup ((ReadTo(n) \ Accepted(n)) \X {process})
    <3>1. PICK n \in committed + 1 .. Len(topic) :
                /\ bronze' = bronze \cup (Accepted(n) \X {process})
                /\ \/ quarantine' = quarantine \cup ({} \X {process})
                   \/ quarantine' = quarantine \cup ((ReadTo(n) \ Accepted(n)) \X {process})
      BY <2>2
    <3>2. /\ Accepted(n) \in SUBSET Accepted(n)
          /\ {} \in SUBSET (ReadTo(n) \ Accepted(n))
          /\ ReadTo(n) \ Accepted(n) \in SUBSET (ReadTo(n) \ Accepted(n))
      OBVIOUS
    <3>3. /\ committed' = committed /\ process' = process + 1
          /\ UNCHANGED <<clock, emission, sent, topic, silver, dropped>>
      BY <1>5 DEF EndProcess
    <3>4. QED
      BY <3>1, <3>2, <3>3, AppendsKeepFlowInv
  <2>3. QED
    BY <1>5, <2>1, <2>2 DEF EndProcess
<1>6. CASE BuildSilver
  BY <1>6
     DEF BuildSilver, FlowInv, FlowType, SentOnce, RowsAreSent, UnreadIsNotOwn, BronzeIsValid,
         SilverIsFirst, CommittedHaveOnePlace, Known, Deduplicated
<1>7. CASE BuildGold \/ ResetStopsShort \/ UNCHANGED vars
  <2>1. UNCHANGED <<clock, emission, sent, topic, committed, process, bronze, quarantine, silver,
                    dropped>>
    BY <1>7 DEF BuildGold, ResetStopsShort, vars
  <2>2. QED
    BY <2>1
       DEF FlowInv, FlowType, SentOnce, RowsAreSent, UnreadIsNotOwn, BronzeIsValid,
           SilverIsFirst, CommittedHaveOnePlace, Known, Deduplicated
<1>8. CASE DropTables
  BY <1>8
     DEF DropTables, FlowInv, FlowType, SentOnce, RowsAreSent, UnreadIsNotOwn, BronzeIsValid,
         SilverIsFirst, CommittedHaveOnePlace, Known, Deduplicated
<1>9. CASE RecreateTopics
  BY <1>9
     DEF RecreateTopics, FlowInv, FlowType, SentOnce, RowsAreSent, UnreadIsNotOwn, BronzeIsValid,
         SilverIsFirst, CommittedHaveOnePlace, Known, Deduplicated
<1>10. QED
  BY <1>1, <1>2, <1>3, <1>4, <1>5, <1>6, <1>7, <1>8, <1>9 DEF Next

\* The invariant: one place for what is committed, first copies in silver.
THEOREM FlowInvariant == Spec => []FlowInv
BY FlowInvInitially, StepKeepsFlowInv, PTL DEF Spec

(***************************************************************************)
(* Committed offsets are accounted for in exactly one of bronze and the    *)
(* quarantine, or a reset took their rows; an event is in both only when   *)
(* its time had come by the later ingestion.  For every payload and any    *)
(* number of kills, replays and resets.                                    *)
(***************************************************************************)
THEOREM CommittedReadingsHaveOnePlace == Spec => []CommittedHaveOnePlace
BY FlowInvariant, PTL DEF FlowInv

(***************************************************************************)
(* A row of silver stays, as it is, through every replay and rebuild,      *)
(* until a reset empties the table (silver.py:46-50).                      *)
(***************************************************************************)
THEOREM SilverRowsAreStable == Spec => StableRows
<1>1. FlowInv /\ [Next]_vars => [silver' = {} \/ silver \subseteq silver']_vars
  <2> SUFFICES ASSUME FlowInv, [Next]_vars
               PROVE  silver' = {} \/ silver \subseteq silver'
    OBVIOUS
  <2>1. CASE BuildSilver
    BY <2>1 DEF BuildSilver, FlowInv, SilverIsFirst
  <2>2. CASE DropTables
    BY <2>2 DEF DropTables
  <2>3. CASE ~ BuildSilver /\ ~ DropTables
    BY <2>3
       DEF Next, vars, tableVars, Tick, Send, EmitAgain, Ingest, EndProcess, BuildGold,
           RecreateTopics, ResetStopsShort
  <2>4. QED
    BY <2>1, <2>2, <2>3
<1>2. QED
  BY <1>1, FlowInvariant, PTL DEF Spec, StableRows

-----------------------------------------------------------------------------
(***************************************************************************)
(* What gold is computed from.                                             *)
(***************************************************************************)
\* Emissions are counted from one: no row escapes RateIndependent's range.
Numbered ==
    /\ emission >= 1
    /\ \A i \in 1 .. Len(topic) : topic[i][2] >= 1
    /\ \A row \in bronze : row[1][2] >= 1

InCell(c) == {row \in counted : Cell(row) = c}

\* Gold is the aggregate of rows bronze still has, one for each event.
GoldIsOfCounted ==
    /\ counted \subseteq bronze
    /\ \A row, other \in counted : row[1] = other[1] => row = other
    /\ counted = {} => gold = <<>>
    /\ counted # {} => gold = [c \in Cells(counted) |-> Aggregate(InCell(c))]

GoldInv == FlowInv /\ Numbered /\ GoldIsOfCounted

LEMMA GoldInvInitially == Init => GoldInv
BY FlowInvInitially DEF Init, GoldInv, Numbered, GoldIsOfCounted

\* An append to bronze leaves what gold was computed from.
LEMMA AppendsKeepGoldInv ==
    ASSUME GoldInv, NEW n \in committed + 1 .. Len(topic),
           bronze' = bronze \cup (Accepted(n) \X {process}),
           UNCHANGED <<emission, topic, counted, gold>>
    PROVE  Numbered' /\ GoldIsOfCounted'
<1>1. committed \in Nat /\ n <= Len(topic) /\ Len(topic) \in Nat
  BY DEF GoldInv, FlowInv, FlowType
<1>2. \A e \in Accepted(n) : \E i \in 1 .. Len(topic) : e = topic[i]
  BY <1>1 DEF Accepted, ReadTo
<1>3. \A row \in bronze' : row \in bronze \/ row[1] \in Accepted(n)
  OBVIOUS
<1>4. \A row \in bronze' : row[1][2] >= 1
  BY <1>2, <1>3 DEF GoldInv, Numbered
<1>5. bronze \subseteq bronze'
  OBVIOUS
<1> QED BY <1>4, <1>5 DEF GoldInv, Numbered, GoldIsOfCounted, InCell

LEMMA StepKeepsGoldInv == GoldInv /\ [Next]_vars => GoldInv'
<1> SUFFICES ASSUME GoldInv, [Next]_vars
             PROVE  Numbered' /\ GoldIsOfCounted'
  BY StepKeepsFlowInv DEF GoldInv
<1> USE DEF producerVars, brokerVars, tableVars, resetVars
<1>1. CASE Send
  <2>1. /\ topic' = Append(topic, <<sent + 1, emission>>) /\ topic \in Seq((DOMAIN Payload) \X Nat)
        /\ Len(topic') = Len(topic) + 1 /\ Len(topic) \in Nat
        /\ \A i \in 1 .. Len(topic) : topic'[i] = topic[i]
        /\ topic'[Len(topic) + 1] = <<sent + 1, emission>>
    BY <1>1 DEF Send, GoldInv, FlowInv, FlowType
  <2>2. \A i \in 1 .. Len(topic') : topic'[i][2] >= 1
    BY <2>1 DEF GoldInv, Numbered
  <2>3. UNCHANGED <<emission, bronze, counted, gold>>
    BY <1>1 DEF Send
  <2> QED BY <2>2, <2>3 DEF GoldInv, Numbered, GoldIsOfCounted, InCell
<1>2. CASE Ingest
  BY <1>2, AppendsKeepGoldInv DEF Ingest, Flush
<1>3. CASE EndProcess
  <2>1. CASE UNCHANGED bronze
    BY <1>3, <2>1 DEF EndProcess, GoldInv, Numbered, GoldIsOfCounted, InCell
  <2>2. CASE \E n \in committed + 1 .. Len(topic) : bronze' = bronze \cup (Accepted(n) \X {process})
    BY <1>3, <2>2, AppendsKeepGoldInv DEF EndProcess
  <2> QED BY <1>3, <2>1, <2>2 DEF EndProcess
<1>4. CASE BuildGold
  <2>1. silver \subseteq bronze
    BY DEF GoldInv, FlowInv, SilverIsFirst, Deduplicated
  <2>2. \A row, other \in silver : row[1] = other[1] => row = other
    <3> TAKE row, other \in silver
    <3> HAVE row[1] = other[1]
    <3>1. row \in bronze /\ other \in bronze /\ row[2] <= other[2] /\ other[2] <= row[2]
      BY DEF GoldInv, FlowInv, SilverIsFirst, Deduplicated
    <3>2. \A r \in bronze : r = <<r[1], r[2]>> /\ r[2] \in Nat
      BY DEF GoldInv, FlowInv, FlowType
    <3>3. row[2] = other[2]
      BY <3>1, <3>2
    <3> QED BY <3>1, <3>2, <3>3
  <2> QED BY <1>4, <2>1, <2>2 DEF BuildGold, GoldInv, Numbered, GoldIsOfCounted, InCell
<1>5. CASE EmitAgain
  <2>1. emission' = emission + 1 /\ emission \in Nat /\ UNCHANGED <<topic, bronze, counted, gold>>
    BY <1>5 DEF EmitAgain, GoldInv, FlowInv, FlowType
  <2> QED BY <2>1 DEF GoldInv, Numbered, GoldIsOfCounted, InCell
<1>6. CASE DropTables
  BY <1>6 DEF DropTables, GoldInv, Numbered, GoldIsOfCounted
<1>7. CASE RecreateTopics
  BY <1>7 DEF RecreateTopics, GoldInv, Numbered, GoldIsOfCounted, InCell
<1>8. CASE Tick \/ BuildSilver \/ ResetStopsShort \/ UNCHANGED vars
  <2>1. UNCHANGED <<emission, topic, bronze, counted, gold>>
    BY <1>8 DEF Tick, BuildSilver, ResetStopsShort, vars
  <2> QED BY <2>1 DEF GoldInv, Numbered, GoldIsOfCounted, InCell
<1> QED BY <1>1, <1>2, <1>3, <1>4, <1>5, <1>6, <1>7, <1>8 DEF Next

\* Gold is computed from one row of bronze for each event.
THEOREM GoldInvariant == Spec => []GoldInv
BY GoldInvInitially, StepKeepsGoldInv, PTL DEF Spec

-----------------------------------------------------------------------------
(***************************************************************************)
(* Division, and rounding.                                                 *)
(***************************************************************************)
\* The quotient of naturals, and what determines it.
LEMMA Quotient ==
    ASSUME NEW x \in Nat, NEW y \in Nat \ {0}
    PROVE  /\ x \div y \in Nat
           /\ y * (x \div y) <= x /\ x < y * (x \div y) + y
OBVIOUS

LEMMA QuotientIs ==
    ASSUME NEW x \in Nat, NEW y \in Nat \ {0}, NEW q \in Nat, y * q <= x, x < y * q + y
    PROVE  x \div y = q
<1> DEFINE d == x \div y
<1>1. d \in Nat /\ y * d <= x /\ x < y * d + y
  BY Quotient
<1> HIDE DEF d
<1>2. ASSUME NEW a \in Nat, NEW b \in Nat, a < b
      PROVE  y * a + y <= y * b
  <2>1. PICK k \in Nat : b = a + 1 + k
    <3>1. b - a - 1 \in Nat /\ b = a + 1 + (b - a - 1)
      BY <1>2
    <3> QED BY <3>1
  <2>2. y * (a + 1 + k) = y * a + y + y * k /\ y * k \in Nat
    OBVIOUS
  <2> QED BY <2>1, <2>2
<1>3. ~ (d < q) /\ ~ (q < d)
  <2>1. y * d \in Nat /\ y * q \in Nat
    BY <1>1
  <2>2. d < q => y * d + y <= y * q
    BY <1>1, <1>2
  <2>3. q < d => y * q + y <= y * d
    BY <1>1, <1>2
  <2> QED BY <1>1, <2>1, <2>2, <2>3
<1>4. d = q
  BY <1>1, <1>3
<1> QED BY <1>4 DEF d

\* Rounding is to a natural number, and keeps the order.
LEMMA RoundedIsNat ==
    ASSUME NEW a \in Nat, NEW n \in Nat \ {0}
    PROVE  Rounded(a, n) \in Nat
<1>1. 2 * a + n \in Nat /\ 2 * n \in Nat \ {0}
  OBVIOUS
<1> QED BY <1>1, Quotient DEF Rounded

LEMMA RoundedKeepsOrder ==
    ASSUME NEW a \in Nat, NEW b \in Nat, NEW n \in Nat \ {0}, a <= b
    PROVE  Rounded(a, n) <= Rounded(b, n)
<1> DEFINE y == 2 * n
           x == 2 * a + n
           z == 2 * b + n
<1>1. x \in Nat /\ z \in Nat /\ y \in Nat \ {0} /\ x <= z
  OBVIOUS
<1> HIDE DEF x, y, z
<1>2. x \div y <= z \div y
  <2> DEFINE d == x \div y
             e == z \div y
  <2>1. d \in Nat /\ y * d <= x /\ e \in Nat /\ z < y * e + y
    BY <1>1, Quotient
  <2> HIDE DEF d, e
  <2>2. CASE e < d
    <3>1. PICK k \in Nat : d = e + 1 + k
      <4>1. d - e - 1 \in Nat /\ d = e + 1 + (d - e - 1)
        BY <2>1, <2>2
      <4> QED BY <4>1
    <3>2. y * (e + 1 + k) = y * e + y + y * k /\ y * k \in Nat /\ y * e \in Nat
      BY <1>1, <2>1
    <3> QED BY <1>1, <2>1, <3>1, <3>2
  <2>3. CASE ~ (e < d)
    BY <2>1, <2>3 DEF d, e
  <2> QED BY <2>2, <2>3
<1> QED BY <1>2 DEF Rounded, x, y, z

\* A whole number of times the divisor is rounded to that number.
LEMMA RoundedWhole ==
    ASSUME NEW m \in Nat, NEW n \in Nat \ {0}
    PROVE  Rounded(m * n, n) = m
<1> DEFINE p == m * n
<1>1. p \in Nat /\ 2 * n \in Nat \ {0} /\ (2 * n) * m = 2 * p
  OBVIOUS
<1> HIDE DEF p
<1>2. 2 * p + n \in Nat /\ (2 * n) * m <= 2 * p + n /\ 2 * p + n < (2 * n) * m + 2 * n
  BY <1>1
<1>3. (2 * p + n) \div (2 * n) = m
  BY <1>1, <1>2, QuotientIs
<1> QED BY <1>3 DEF Rounded, p

\* A common factor does not change what a fraction is rounded to.
LEMMA RoundedScales ==
    ASSUME NEW a \in Nat, NEW n \in Nat \ {0}, NEW m \in Nat \ {0}
    PROVE  Rounded(m * a, m * n) = Rounded(a, n)
<1> DEFINE x == 2 * a + n
           y == 2 * n
           d == x \div y
<1>1. x \in Nat /\ y \in Nat \ {0}
  OBVIOUS
<1>2. d \in Nat /\ y * d <= x /\ x < y * d + y
  BY <1>1, Quotient
<1>3. 2 * (m * a) + m * n = m * x /\ 2 * (m * n) = m * y
  OBVIOUS
<1>4. Rounded(a, n) = d
  BY DEF Rounded
<1>5. Rounded(m * a, m * n) = (m * x) \div (m * y)
  BY <1>3 DEF Rounded
<1> HIDE DEF x, y, d
<1>6. (m * x) \div (m * y) = d
  <2>1. PICK r \in Nat : x = y * d + r /\ r < y
    <3> DEFINE r == x - y * d
    <3>1. y * d \in Nat
      BY <1>1, <1>2
    <3>2. r \in Nat /\ x = y * d + r /\ r < y
      BY <1>1, <1>2, <3>1
    <3> QED BY <3>2
  <2>2. PICK k \in Nat : y = r + 1 + k
    <3>1. y - r - 1 \in Nat /\ y = r + 1 + (y - r - 1)
      BY <1>1, <2>1
    <3> QED BY <3>1
  <2>3. m * x = (m * y) * d + m * r
    <3>1. m * (y * d + r) = (m * y) * d + m * r
      BY <1>1, <1>2
    <3> QED BY <2>1, <3>1
  <2>4. m * y = m * r + m + m * k
    <3>1. m * (r + 1 + k) = m * r + m + m * k
      OBVIOUS
    <3> QED BY <2>2, <3>1
  <2> DEFINE u == m * x
             v == m * y
             w == v * d
             s == m * r
             t == m * k
  <2>5. u \in Nat /\ v \in Nat \ {0} /\ w \in Nat /\ s \in Nat /\ t \in Nat
    BY <1>1, <1>2
  <2>6. u = w + s /\ v = s + m + t
    BY <2>3, <2>4
  <2> HIDE DEF u, v, s, t
  <2>7. v * d <= u /\ u < v * d + v
    <3> HIDE DEF w
    <3>1. w <= u /\ u < w + v
      BY <2>5, <2>6
    <3> QED BY <3>1 DEF w
  <2>8. u \div v = d
    BY <1>2, <2>5, <2>7, QuotientIs
  <2> QED BY <2>8 DEF u, v
<1> QED BY <1>4, <1>5, <1>6

-----------------------------------------------------------------------------
(***************************************************************************)
(* What the columns of gold are computed from.                             *)
(***************************************************************************)
Occupied(i)  == Payload[i].fields["occupancy_estimate"].val
Used(i)      == Utilization(Payload[i].fields)

\* What the contract accepts has a known zone, numbers and a time.
LEMMA AcceptedReading ==
    ASSUME NEW i \in DOMAIN Payload, NEW now, Accepts(Payload[i], now)
    PROVE  /\ Occupied(i) \in Nat
           /\ Payload[i].fields["zone_id"].val \in Zones
           /\ Used(i) \in Nat
<1> DEFINE e == Payload[i].fields
<1>1. Payload[i].json /\ FieldErrors(e, now) = {}
  BY DEF Accepts, Violations
<1>2. \A r \in Rules(e) :
          /\ ~ (r[2] = "missing" /\ r[1] \notin DOMAIN e)
          /\ ~ WrongType(e, r[1], r[2])
          /\ ~ WrongValue(e, r[1], r[2], now)
  BY <1>1 DEF FieldErrors
<1>3. e["occupancy_estimate"].val \in Nat
  <2>1. <<"occupancy_estimate", "missing">> \in Rules(e) /\ <<"occupancy_estimate", "int_type">> \in Rules(e)
        /\ <<"occupancy_estimate", "greater_than_equal">> \in Rules(e)
    BY DEF Rules, Required, Fields, Texts, Counts
  <2>2. "occupancy_estimate" \in DOMAIN e
    BY <1>2, <2>1
  <2>3. IsA("number", e, "occupancy_estimate")
    BY <1>2, <2>1, <2>2 DEF WrongType
  <2>4. ~ (e["occupancy_estimate"].val < 0)
    BY <1>2, <2>1, <2>3 DEF WrongValue
  <2>5. e["occupancy_estimate"].val \in Int
    BY <1>1, <2>3, FlowAssumption DEF Counts
  <2> QED BY <2>4, <2>5
<1>4. e["zone_id"].val \in Zones
  <2>1. <<"zone_id", "missing">> \in Rules(e) /\ <<"zone_id", "string_type">> \in Rules(e)
        /\ <<"zone_id", "value_error">> \in Rules(e)
    BY DEF Rules, Required, Fields, Texts, Counts
  <2>2. "zone_id" \in DOMAIN e
    BY <1>2, <2>1
  <2>3. IsA("string", e, "zone_id")
    BY <1>2, <2>1, <2>2 DEF WrongType
  <2> QED BY <1>2, <2>1, <2>3 DEF WrongValue
<1>5. Utilization(e) \in Nat
  <2> DEFINE n == e["occupancy_estimate"].val * 10000
             z == e["zone_id"].val
  <2>1. n \in Nat /\ Capacity[z] \in Nat \ {0}
    BY <1>3, <1>4, ZonesAssumption
  <2> HIDE DEF n
  <2>2. Rounded(n, Capacity[z]) \in Nat
    BY <2>1, RoundedIsNat
  <2> QED BY <2>2 DEF Utilization, n
<1> QED BY <1>3, <1>4, <1>5 DEF Occupied, Used

\* There are finitely many rows, each of a reading and an emission of its own.
LEMMA CountedRows ==
    ASSUME GoldInv
    PROVE  /\ IsFiniteSet(counted)
           /\ \A row \in counted :
                 /\ row = <<row[1], row[2]>> /\ row[1] = <<row[1][1], row[1][2]>>
                 /\ row[1][1] \in DOMAIN Payload /\ row[1][2] \in 1 .. emission
                 /\ Occupied(row[1][1]) \in Nat /\ Used(row[1][1]) \in Nat
<1>1. emission \in Nat /\ process \in Nat
  BY DEF GoldInv, FlowInv, FlowType
<1>2. ASSUME NEW row \in counted
      PROVE  /\ row = <<row[1], row[2]>> /\ row[1] = <<row[1][1], row[1][2]>>
             /\ row[1][1] \in DOMAIN Payload /\ row[1][2] \in 1 .. emission
             /\ row[2] \in 0 .. process
             /\ Accepts(Payload[row[1][1]], clock)
  <2>1. row \in bronze
    BY DEF GoldInv, GoldIsOfCounted
  <2>2. row \in ((DOMAIN Payload) \X Nat) \X Nat
    BY <2>1 DEF GoldInv, FlowInv, FlowType
  <2>3. Known(row[1]) /\ row[2] <= process /\ row[1][2] >= 1
    BY <2>1 DEF GoldInv, FlowInv, RowsAreSent, Numbered
  <2>4. row[1][2] <= emission
    BY <1>1, <2>2, <2>3 DEF Known
  <2>5. Accepts(Payload[row[1][1]], clock)
    BY <2>1 DEF GoldInv, FlowInv, BronzeIsValid
  <2> QED BY <1>1, <2>2, <2>3, <2>4, <2>5
<1>3. IsFiniteSet(counted)
  <2> DEFINE E == (DOMAIN Payload) \X (1 .. emission)
             R == E \X (0 .. process)
  <2>1. IsFiniteSet(DOMAIN Payload)
    <3>1. 1 \in Int /\ Len(Payload) \in Int /\ DOMAIN Payload = 1 .. Len(Payload)
      BY FlowAssumption
    <3>2. IsFiniteSet(1 .. Len(Payload))
      BY <3>1, FS_Interval
    <3> QED BY <3>1, <3>2
  <2>2. IsFiniteSet(1 .. emission) /\ IsFiniteSet(0 .. process)
    BY <1>1, FS_Interval
  <2>3. IsFiniteSet(E)
    BY <2>1, <2>2, FS_Product
  <2>4. counted \subseteq R
    BY <1>2
  <2> HIDE DEF E
  <2>5. IsFiniteSet(R)
    BY <2>2, <2>3, FS_Product
  <2> QED BY <2>4, <2>5, FS_Subset
<1>4. \A row \in counted : Occupied(row[1][1]) \in Nat /\ Used(row[1][1]) \in Nat
  BY <1>2, AcceptedReading
<1> QED BY <1>2, <1>3, <1>4

-----------------------------------------------------------------------------
\* The rows of the zone-hours are the rows counted.
LEMMA CellsHoldAllRows ==
    ASSUME GoldInv
    PROVE  /\ IsFiniteSet(Cells(counted))
           /\ Total([c \in Cells(counted) |-> Cardinality(InCell(c))], Cells(counted))
                 = Cardinality(EventsOf(counted))
<1> DEFINE f == [row \in counted |-> 1]
           h == [row \in counted |-> Cell(row)]
           b == [row \in counted |-> row[1]]
           g == [e \in EventsOf(counted) |-> 1]
           C == Cells(counted)
           S == counted
           fibers == [c \in C |-> Total(f, {row \in S : h[row] = c})]
           sizes == [c \in C |-> Cardinality(InCell(c))]
<1>1. IsFiniteSet(S)
  BY CountedRows
<1>2. IsFiniteSet(C)
  <2>1. h \in Surjection(S, C)
    BY DEF Cells, Surjection
  <2> HIDE DEF h, S, C
  <2> QED BY <1>1, <2>1, FS_Surjection
<1>3. /\ \A row \in S : f[row] = 1 /\ f[row] \in Nat /\ h[row] \in C /\ g[b[row]] = f[row]
      /\ \A row, other \in S : b[row] = b[other] => row = other
      /\ ImageOf(b, S) = EventsOf(counted)
      /\ \A c \in C : {row \in S : h[row] = c} = InCell(c) /\ InCell(c) \subseteq S
      /\ \A e \in EventsOf(counted) : g[e] = 1
  BY DEF GoldInv, GoldIsOfCounted, EventsOf, Cells, InCell, ImageOf
<1> HIDE DEF f, h, b, g, S
<1>4. Total(f, S) = Total(fibers, C)
  <2> HIDE DEF C
  <2> QED BY <1>1, <1>2, <1>3, TotalFibers
<1>5. \A c \in C : Cardinality(InCell(c)) \in Nat /\ fibers[c] = Cardinality(InCell(c))
  <2> SUFFICES ASSUME NEW c \in C
               PROVE  Cardinality(InCell(c)) \in Nat /\ fibers[c] = Cardinality(InCell(c))
    OBVIOUS
  <2>1. fibers[c] = Total(f, InCell(c))
    BY <1>3
  <2>2. IsFiniteSet(InCell(c)) /\ \A row \in InCell(c) : f[row] = 1
    BY <1>1, <1>3, FS_Subset
  <2>3. Total(f, InCell(c)) = Cardinality(InCell(c)) * 1 /\ Cardinality(InCell(c)) \in Nat
    BY <2>2, TotalConstant, FS_CardinalityType
  <2> QED BY <2>1, <2>3
<1>6. Total(fibers, C) = Total(sizes, C)
  <2>1. \A c \in C : sizes[c] \in Nat /\ fibers[c] = sizes[c]
    BY <1>5
  <2> HIDE DEF fibers, sizes, C
  <2> QED BY <1>2, <2>1, TotalSame
<1>7. /\ IsFiniteSet(EventsOf(counted)) /\ Total(g, EventsOf(counted)) = Total(f, S)
  <2>1. \A row \in S : f[row] \in Nat /\ g[b[row]] = f[row]
    BY <1>3
  <2>2. \A row, other \in S : b[row] = b[other] => row = other
    BY <1>3
  <2>3. IsFiniteSet(ImageOf(b, S)) /\ Total(g, ImageOf(b, S)) = Total(f, S)
    BY <1>1, <2>1, <2>2, TotalImage
  <2> QED BY <1>3, <2>3
<1>8. Total(g, EventsOf(counted)) = Cardinality(EventsOf(counted)) * 1
      /\ Cardinality(EventsOf(counted)) \in Nat
  BY <1>3, <1>7, TotalConstant, FS_CardinalityType
<1>9. Total(sizes, C) = Cardinality(EventsOf(counted))
  <2> HIDE DEF fibers, sizes, C
  <2> QED BY <1>4, <1>6, <1>7, <1>8
<1> QED BY <1>2, <1>9

\* The minutes above a threshold are minutes of an hour, fewer above a higher one.
LEMMA MinutesAreOfAnHour ==
    ASSUME NEW S, IsFiniteSet(S), S # {}, \A row \in S : Utilized(row) \in Nat
    PROVE  Minutes(9000, S) <= Minutes(8000, S) /\ Minutes(8000, S) <= 600
<1> DEFINE A == {row \in S : Utilized(row) > 9000}
           B == {row \in S : Utilized(row) > 8000}
           a == Cardinality(A)
           b == Cardinality(B)
           n == Cardinality(S)
<1>1. A \subseteq B /\ B \subseteq S
  OBVIOUS
<1>2. Minutes(9000, S) = Rounded(600 * a, n) /\ Minutes(8000, S) = Rounded(600 * b, n)
  BY DEF Minutes, Count
<1> HIDE DEF A, B
<1>3. a \in Nat /\ b \in Nat /\ n \in Nat \ {0} /\ a <= b /\ b <= n
  BY <1>1, FS_Subset, FS_CardinalityType, FS_EmptySet
<1> HIDE DEF a, b, n
<1>4. 600 * a \in Nat /\ 600 * b \in Nat /\ 600 * n \in Nat /\ 600 * a <= 600 * b /\ 600 * b <= 600 * n
  BY <1>3
<1>5. Rounded(600 * a, n) <= Rounded(600 * b, n) /\ Rounded(600 * b, n) <= Rounded(600 * n, n)
  BY <1>3, <1>4, RoundedKeepsOrder
<1>6. Rounded(600 * n, n) = 600
  BY <1>3, RoundedWhole
<1> QED BY <1>2, <1>5, <1>6

LEMMA GoldInvBacks == GoldInv => GoldIsBackedByBronze
<1> SUFFICES ASSUME GoldInv
             PROVE  GoldIsBackedByBronze
  OBVIOUS
<1>1. EventsOf(counted) \subseteq EventsOf(bronze)
  BY DEF GoldInv, GoldIsOfCounted, EventsOf
<1>2. CASE counted = {}
  <2>1. gold = <<>> /\ DOMAIN gold = {} /\ EventsOf(counted) = {}
    BY <1>2 DEF GoldInv, GoldIsOfCounted, EventsOf
  <2>2. Cardinality({}) = 0 /\ \A f : Total(f, {}) = 0
    BY FS_EmptySet, TotalUnfolds
  <2> DEFINE f == [c \in DOMAIN gold |-> gold[c].totals.reading_count]
  <2>3. SumFunction(f) = Total(f, DOMAIN f) /\ DOMAIN f = {}
    BY <2>1 DEF SumFunction, SumFunctionOnSet, Total
  <2> HIDE DEF f
  <2>4. SumFunction(f) = 0
    BY <2>2, <2>3
  <2> QED BY <1>1, <2>1, <2>2, <2>4 DEF GoldIsBackedByBronze, f
<1>3. CASE counted # {}
  <2>1. gold = [c \in Cells(counted) |-> Aggregate(InCell(c))]
    BY <1>3 DEF GoldInv, GoldIsOfCounted
  <2>2. ASSUME NEW c \in Cells(counted)
        PROVE  /\ gold[c].totals.reading_count = Cardinality(InCell(c))
               /\ gold[c].rates.minutes_above_90pct = Minutes(9000, InCell(c))
               /\ gold[c].rates.minutes_above_80pct = Minutes(8000, InCell(c))
    <3>1. gold[c] = Aggregate(InCell(c))
      BY <2>1
    <3> QED BY <3>1 DEF Aggregate, Totals, Rates
  <2>3. ASSUME NEW c \in Cells(counted)
        PROVE  Minutes(9000, InCell(c)) <= Minutes(8000, InCell(c)) /\ Minutes(8000, InCell(c)) <= 600
    <3>1. InCell(c) # {} /\ InCell(c) \subseteq counted
      BY DEF InCell, Cells
    <3>2. IsFiniteSet(InCell(c))
      BY <3>1, CountedRows, FS_Subset
    <3>3. \A row \in InCell(c) : Utilized(row) \in Nat
      BY <3>1, CountedRows DEF Utilized, Used, FieldsOf
    <3> QED BY <3>1, <3>2, <3>3, MinutesAreOfAnHour
  <2>4. [c \in DOMAIN gold |-> gold[c].totals.reading_count]
           = [c \in Cells(counted) |-> Cardinality(InCell(c))]
    BY <2>1, <2>2
  <2> DEFINE f == [c \in Cells(counted) |-> Cardinality(InCell(c))]
  <2>5. SumFunction(f) = Total(f, Cells(counted))
    BY DEF SumFunction, SumFunctionOnSet, Total
  <2>6. Total(f, Cells(counted)) = Cardinality(EventsOf(counted))
    BY CellsHoldAllRows
  <2> HIDE DEF f
  <2>7. SumFunction([c \in DOMAIN gold |-> gold[c].totals.reading_count]) = Cardinality(EventsOf(counted))
    BY <2>4, <2>5, <2>6 DEF f
  <2>8. \A c \in DOMAIN gold :
          /\ gold[c].rates.minutes_above_90pct <= gold[c].rates.minutes_above_80pct
          /\ gold[c].rates.minutes_above_80pct <= 600
    BY <2>1, <2>2, <2>3
  <2> QED BY <1>1, <2>7, <2>8 DEF GoldIsBackedByBronze
<1> QED BY <1>2, <1>3

(***************************************************************************)
(* Gold counts each event bronze has once, for every payload and any       *)
(* number of replays, emissions and resets (gold.py, silver.py:46-50).     *)
(***************************************************************************)
THEOREM GoldCountsBronzeOnce == Spec => []GoldIsBackedByBronze
BY GoldInvariant, GoldInvBacks, PTL

-----------------------------------------------------------------------------
(***************************************************************************)
(* Rates of rows that several emissions sent the same readings for.        *)
(***************************************************************************)
\* Which emission and which of its readings a row has.
EmissionOf(S) == [row \in S |-> row[1][2]]
ReadingOf(S)  == [row \in S |-> row[1][1]]

\* The rows of one emission.
Of(n, S) == {row \in S : row[1][2] = n}

\* S has, for each emission of K, the rows of the same readings as for n.
Repeats(S, K, n) ==
    /\ IsFiniteSet(S) /\ IsFiniteSet(K) /\ n \in K
    /\ \A row \in S : row[1][2] \in K
    /\ \A row, other \in S : row[1][2] = other[1][2] /\ row[1][1] = other[1][1] => row = other
    /\ \A k \in K : {row[1][1] : row \in Of(k, S)} = {row[1][1] : row \in Of(n, S)}
    /\ \A row \in S : Occupied(row[1][1]) \in Nat /\ Used(row[1][1]) \in Nat

\* The same in the terms of module FiniteSums.
LEMMA RepeatsIsRepeated ==
    ASSUME NEW S, NEW K, NEW n, Repeats(S, K, n)
    PROVE  /\ Repeated(EmissionOf(S), ReadingOf(S), S, K, n)
           /\ Fiber(EmissionOf(S), S, n) = Of(n, S)
<1> DEFINE h == EmissionOf(S)
           b == ReadingOf(S)
<1>1. \A x \in S : h[x] = x[1][2] /\ b[x] = x[1][1]
  BY DEF EmissionOf, ReadingOf
<1>2. \A k : Fiber(h, S, k) = Of(k, S)
  BY <1>1 DEF Fiber, Of
<1>3. \A k : ImageOf(b, Fiber(h, S, k)) = {row[1][1] : row \in Of(k, S)}
  <2> TAKE k
  <2>1. \A x \in Of(k, S) : b[x] = x[1][1]
    BY <1>1 DEF Of
  <2>2. ImageOf(b, Of(k, S)) = {x[1][1] : x \in Of(k, S)}
    <3> HIDE DEF b, h
    <3> QED BY <2>1 DEF ImageOf
  <2> QED BY <1>2, <2>2
<1> HIDE DEF h, b
<1>4. /\ IsFiniteSet(S) /\ IsFiniteSet(K) /\ n \in K
      /\ \A x \in S : h[x] \in K
      /\ \A x, y \in S : h[x] = h[y] /\ b[x] = b[y] => x = y
  BY <1>1 DEF Repeats
<1>5. \A k \in K : ImageOf(b, Fiber(h, S, k)) = ImageOf(b, Fiber(h, S, n))
  BY <1>3 DEF Repeats
<1>6. Repeated(h, b, S, K, n)
  BY <1>4, <1>5 DEF Repeated
<1> QED BY <1>2, <1>6 DEF h, b

\* Sums over S are those over the rows of n, times the number of emissions.
LEMMA SumRepeats ==
    ASSUME NEW S, NEW K, NEW n, Repeats(S, K, n), NEW f, NEW part,
           \A row \in S : f[row] \in Nat,
           \A row, other \in S : row[1][1] = other[1][1] => f[row] = f[other],
           \A row \in Of(n, S) : part[row] = f[row]
    PROVE  Total(part, Of(n, S)) \in Nat /\ Total(f, S) = Cardinality(K) * Total(part, Of(n, S))
<1> DEFINE h == EmissionOf(S)
           b == ReadingOf(S)
           N == Of(n, S)
           g == [i \in {row[1][1] : row \in S} |-> f[CHOOSE row \in S : row[1][1] = i]]
<1>1. Repeated(h, b, S, K, n) /\ Fiber(h, S, n) = N
  BY RepeatsIsRepeated
<1>2. \A x \in S : f[x] \in Nat /\ g[b[x]] = f[x]
  BY DEF ReadingOf
<1>3. N \subseteq S /\ \A row \in N : part[row] = f[row]
  BY DEF Of
<1>4. IsFiniteSet(S)
  BY DEF Repeats
<1> HIDE DEF h, b, N, g
<1>5. Total(f, N) \in Nat /\ Total(f, S) = Cardinality(K) * Total(f, N)
  <2>1. /\ Total(f, Fiber(h, S, n)) \in Nat
        /\ Total(f, S) = Cardinality(K) * Total(f, Fiber(h, S, n))
    BY <1>1, <1>2, TotalRepeats
  <2> QED BY <1>1, <2>1
<1>6. Total(part, N) = Total(f, N)
  <2>1. IsFiniteSet(N) /\ \A x \in N : f[x] \in Nat /\ part[x] = f[x]
    BY <1>2, <1>3, <1>4, FS_Subset
  <2> QED BY <2>1, TotalSame
<1>7. Total(part, N) \in Nat /\ Total(f, S) = Cardinality(K) * Total(part, N)
  BY <1>5, <1>6
<1> QED BY <1>7 DEF N

\* The rows whose readings are in P.
WithReadings(P, S) == {row \in S : row[1][1] \in P}

\* Their number, likewise.
LEMMA CountRepeats ==
    ASSUME NEW S, NEW K, NEW n, Repeats(S, K, n), NEW P
    PROVE  /\ Cardinality(WithReadings(P, Of(n, S))) \in Nat
           /\ Cardinality(WithReadings(P, S))
                 = Cardinality(K) * Cardinality(WithReadings(P, Of(n, S)))
<1> DEFINE h == EmissionOf(S)
           b == ReadingOf(S)
           N == Of(n, S)
           W == WithReadings(P, S)
<1>1. Repeated(h, b, S, K, n) /\ Fiber(h, S, n) = N
  BY RepeatsIsRepeated
<1>2. W \subseteq S /\ \A x, y \in S : x \in W /\ b[x] = b[y] => y \in W
  BY DEF ReadingOf, WithReadings
<1>3. W \cap N = WithReadings(P, N)
  BY DEF Of, WithReadings
<1> HIDE DEF h, b, W, N
<1>4. /\ Cardinality(W \cap Fiber(h, S, n)) \in Nat
      /\ Cardinality(W) = Cardinality(K) * Cardinality(W \cap Fiber(h, S, n))
  BY <1>1, <1>2, CardinalityRepeats
<1>5. /\ Cardinality(WithReadings(P, N)) \in Nat
      /\ Cardinality(W) = Cardinality(K) * Cardinality(WithReadings(P, N))
  BY <1>1, <1>3, <1>4
<1> QED BY <1>5 DEF W, N

\* The rates and peaks of the rows of all the emissions are those of one of them.
LEMMA RatesRepeat ==
    ASSUME NEW S, NEW K, NEW n, Repeats(S, K, n), Of(n, S) # {}
    PROVE  Rates(S) = Rates(Of(n, S))
<1> DEFINE N == Of(n, S)
           m == Cardinality(K)
           q == Cardinality(N)
<1>1. IsFiniteSet(S) /\ IsFiniteSet(K) /\ n \in K /\ N \subseteq S
  BY DEF Repeats, Of
<1>2. m \in Nat \ {0} /\ q \in Nat \ {0}
  <2>1. IsFiniteSet(N) /\ N # {}
    BY <1>1, FS_Subset
  <2> HIDE DEF N
  <2> QED BY <1>1, <2>1, FS_CardinalityType, FS_EmptySet
<1>3. \A row \in S : /\ Occupancy(row) = Occupied(row[1][1]) /\ Occupied(row[1][1]) \in Nat
                     /\ Utilized(row) = Used(row[1][1]) /\ Used(row[1][1]) \in Nat
  BY DEF Repeats, Occupancy, Occupied, Utilized, Used, FieldsOf
<1>4. \A row \in S : \E one \in N : one[1][1] = row[1][1]
  <2> TAKE row \in S
  <2> DEFINE k == row[1][2]
  <2>1. k \in K /\ row \in Of(k, S)
    BY DEF Repeats, Of
  <2>2. row[1][1] \in {r[1][1] : r \in Of(k, S)}
    BY <2>1
  <2>3. row[1][1] \in {r[1][1] : r \in Of(n, S)}
    BY <2>1, <2>2 DEF Repeats
  <2> QED BY <2>3
<1>5. Peak(Occupancy, S) = Peak(Occupancy, N)
  <2>1. {Occupancy(row) : row \in S} = {Occupancy(row) : row \in N}
    <3>1. \A row \in S : \E one \in N : Occupancy(one) = Occupancy(row)
      BY <1>1, <1>3, <1>4
    <3> HIDE DEF N
    <3> QED BY <1>1, <3>1
  <2> QED BY <2>1 DEF Peak
<1>6. Peak(Utilized, S) = Peak(Utilized, N)
  <2>1. {Utilized(row) : row \in S} = {Utilized(row) : row \in N}
    <3>1. \A row \in S : \E one \in N : Utilized(one) = Utilized(row)
      BY <1>1, <1>3, <1>4
    <3> HIDE DEF N
    <3> QED BY <1>1, <3>1
  <2> QED BY <2>1 DEF Peak
<1>7. Sum(Occupancy, N) \in Nat /\ Sum(Occupancy, S) = m * Sum(Occupancy, N)
  <2> DEFINE f == [row \in S |-> Occupancy(row)]
             part == [row \in N |-> Occupancy(row)]
  <2>1. /\ \A row \in S : f[row] \in Nat
        /\ \A row, other \in S : row[1][1] = other[1][1] => f[row] = f[other]
    BY <1>3
  <2>2. \A row \in Of(n, S) : part[row] = f[row]
    BY <1>1
  <2>3. Sum(Occupancy, S) = Total(f, S) /\ Sum(Occupancy, N) = Total(part, N)
    BY DEF Sum, SumFunction, SumFunctionOnSet, Total
  <2> HIDE DEF f, part
  <2>4. Total(part, N) \in Nat /\ Total(f, S) = m * Total(part, N)
    BY <2>1, <2>2, SumRepeats
  <2> QED BY <2>3, <2>4
<1>8. Sum(Utilized, N) \in Nat /\ Sum(Utilized, S) = m * Sum(Utilized, N)
  <2> DEFINE f == [row \in S |-> Utilized(row)]
             part == [row \in N |-> Utilized(row)]
  <2>1. /\ \A row \in S : f[row] \in Nat
        /\ \A row, other \in S : row[1][1] = other[1][1] => f[row] = f[other]
    BY <1>3
  <2>2. \A row \in Of(n, S) : part[row] = f[row]
    BY <1>1
  <2>3. Sum(Utilized, S) = Total(f, S) /\ Sum(Utilized, N) = Total(part, N)
    BY DEF Sum, SumFunction, SumFunctionOnSet, Total
  <2> HIDE DEF f, part
  <2>4. Total(part, N) \in Nat /\ Total(f, S) = m * Total(part, N)
    BY <2>1, <2>2, SumRepeats
  <2> QED BY <2>3, <2>4
<1>9. ASSUME NEW t
      PROVE  LET Above(T) == {row \in T : Utilized(row) > t}
             IN  /\ Cardinality(Above(N)) \in Nat
                 /\ Cardinality(Above(S)) = m * Cardinality(Above(N))
  <2> DEFINE P == {i \in {row[1][1] : row \in S} : Used(i) > t}
             Above(T) == {row \in T : Utilized(row) > t}
  <2>1. Above(S) = WithReadings(P, S) /\ Above(N) = WithReadings(P, N)
    BY <1>1, <1>3 DEF WithReadings
  <2> HIDE DEF P
  <2>2. Cardinality(WithReadings(P, N)) \in Nat /\ Cardinality(WithReadings(P, S)) = m * Cardinality(WithReadings(P, N))
    BY CountRepeats
  <2> HIDE DEF N, m
  <2> QED BY <2>1, <2>2
<1>10. /\ Cardinality({row \in N : Degraded(row)}) \in Nat
       /\ Cardinality({row \in S : Degraded(row)}) = m * Cardinality({row \in N : Degraded(row)})
  <2> DEFINE P == {i \in {row[1][1] : row \in S} : Payload[i].fields["sensor_status"].val # "OK"}
  <2>1. {row \in S : Degraded(row)} = WithReadings(P, S) /\ {row \in N : Degraded(row)} = WithReadings(P, N)
    BY <1>1 DEF Degraded, FieldsOf, WithReadings
  <2> HIDE DEF P
  <2>2. Cardinality(WithReadings(P, N)) \in Nat /\ Cardinality(WithReadings(P, S)) = m * Cardinality(WithReadings(P, N))
    BY CountRepeats
  <2> HIDE DEF N, m
  <2> QED BY <2>1, <2>2
<1>11. Cardinality(S) = m * q
  <2> DEFINE P == {row[1][1] : row \in S}
  <2>1. S = WithReadings(P, S) /\ N = WithReadings(P, N)
    BY <1>1 DEF WithReadings
  <2> HIDE DEF P
  <2>2. Cardinality(WithReadings(P, N)) \in Nat /\ Cardinality(WithReadings(P, S)) = m * Cardinality(WithReadings(P, N))
    BY CountRepeats
  <2> HIDE DEF N, m
  <2> QED BY <2>1, <2>2
<1> HIDE DEF N, m, q
<1>12. ASSUME NEW a \in Nat, NEW c \in Nat
       PROVE  Rounded(c * (m * a), m * q) = Rounded(c * a, q)
  <2>1. c * (m * a) = m * (c * a) /\ c * a \in Nat
    BY <1>2
  <2> QED BY <1>2, <2>1, RoundedScales
<1>13. Rounded(10 * Sum(Occupancy, S), Cardinality(S)) = Rounded(10 * Sum(Occupancy, N), q)
  BY <1>7, <1>11, <1>12
<1>14. Rounded(Sum(Utilized, S), Cardinality(S)) = Rounded(Sum(Utilized, N), q)
  BY <1>2, <1>8, <1>11, RoundedScales
<1>15. \A t : Minutes(t, S) = Minutes(t, N)
  <2> TAKE t
  <2> DEFINE a == Cardinality({row \in N : Utilized(row) > t})
             b == Cardinality({row \in S : Utilized(row) > t})
  <2>1. a \in Nat /\ b = m * a
    BY <1>9
  <2>2. Minutes(t, S) = Rounded(600 * b, Cardinality(S)) /\ Minutes(t, N) = Rounded(600 * a, q)
    BY DEF Minutes, Count, q
  <2> HIDE DEF a, b
  <2> QED BY <1>11, <1>12, <2>1, <2>2
<1>16. Rounded(10000 * Count(Degraded, S), Cardinality(S)) = Rounded(10000 * Count(Degraded, N), q)
  <2> DEFINE a == Cardinality({row \in N : Degraded(row)})
             b == Cardinality({row \in S : Degraded(row)})
  <2>1. a \in Nat /\ b = m * a
    BY <1>10
  <2>2. Count(Degraded, S) = b /\ Count(Degraded, N) = a
    BY DEF Count
  <2> HIDE DEF a, b
  <2> QED BY <1>11, <1>12, <2>1, <2>2
<1>17. Rates(S) = Rates(N)
  BY <1>5, <1>6, <1>13, <1>14, <1>15, <1>16 DEF Rates, q
<1> QED BY <1>17 DEF N

LEMMA GoldInvIsRateIndependent == GoldInv => RateIndependent
<1> SUFFICES ASSUME GoldInv, NEW c \in DOMAIN gold, NEW n \in 1 .. emission
             PROVE  LET From(k) == {row \in counted : Cell(row) = c /\ row[1][2] = k}
                        Sent(k) == {row[1][1] : row \in From(k)}
                    IN  (From(n) # {} /\ \A k \in 1 .. emission : Sent(k) \in {{}, Sent(n)})
                           => gold[c].rates = Rates(From(n))
  BY DEF RateIndependent
<1>0. \A k : {row \in counted : Cell(row) = c /\ row[1][2] = k} = Of(k, InCell(c))
  BY DEF Of, InCell
<1> SUFFICES ASSUME Of(n, InCell(c)) # {},
                    \A k \in 1 .. emission :
                       {row[1][1] : row \in Of(k, InCell(c))}
                          \in {{}, {row[1][1] : row \in Of(n, InCell(c))}}
             PROVE  gold[c].rates = Rates(Of(n, InCell(c)))
  BY <1>0
<1> DEFINE S == InCell(c)
           K == {k \in 1 .. emission : Of(k, S) # {}}
<1>1. counted # {} /\ c \in Cells(counted) /\ gold[c] = Aggregate(S)
  BY DEF GoldInv, GoldIsOfCounted
<1>2. S \subseteq counted
  BY DEF InCell
<1>3. Repeats(S, K, n)
  <2>1. IsFiniteSet(S)
    BY <1>2, CountedRows, FS_Subset
  <2>2. IsFiniteSet(K) /\ n \in K
    <3>1. emission \in Nat
      BY DEF GoldInv, FlowInv, FlowType
    <3>2. IsFiniteSet(1 .. emission)
      BY <3>1, FS_Interval
    <3> QED BY <3>2, FS_Subset
  <2>3. \A row \in S : row[1][2] \in K
    BY <1>2, CountedRows DEF Of
  <2>4. \A row, other \in S : row[1][2] = other[1][2] /\ row[1][1] = other[1][1] => row = other
    <3> TAKE row, other \in S
    <3> HAVE row[1][2] = other[1][2] /\ row[1][1] = other[1][1]
    <3>1. row[1] = <<row[1][1], row[1][2]>> /\ other[1] = <<other[1][1], other[1][2]>>
      BY <1>2, CountedRows
    <3>2. row[1] = other[1]
      BY <3>1
    <3> QED BY <1>2, <3>2 DEF GoldInv, GoldIsOfCounted
  <2>5. \A k \in K : {row[1][1] : row \in Of(k, S)} = {row[1][1] : row \in Of(n, S)}
    <3> TAKE k \in K
    <3>1. {row[1][1] : row \in Of(k, S)} # {}
      <4> PICK row \in Of(k, S) : TRUE
        OBVIOUS
      <4>1. row[1][1] \in {r[1][1] : r \in Of(k, S)}
        OBVIOUS
      <4> QED BY <4>1
    <3>2. k \in 1 .. emission
      OBVIOUS
    <3> HIDE DEF S, K
    <3> QED BY <3>1, <3>2 DEF S
  <2>6. \A row \in S : Occupied(row[1][1]) \in Nat /\ Used(row[1][1]) \in Nat
    BY <1>2, CountedRows
  <2> HIDE DEF S, K
  <2> QED BY <2>1, <2>2, <2>3, <2>4, <2>5, <2>6 DEF Repeats
<1>4. Rates(S) = Rates(Of(n, S))
  <2> HIDE DEF K
  <2> QED BY <1>3, RatesRepeat
<1> QED BY <1>1, <1>4 DEF Aggregate

(***************************************************************************)
(* "Correct regardless of the producer's emission rate" (gold.py): several *)
(* emissions of the same readings give the rates and peaks of one, for     *)
(* every payload, and however the replays have spread them.                *)
(***************************************************************************)
THEOREM GoldIsRateIndependent == Spec => []RateIndependent
BY GoldInvariant, GoldInvIsRateIndependent, PTL

=============================================================================
