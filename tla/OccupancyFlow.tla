--------------------------- MODULE OccupancyFlow ---------------------------
(***************************************************************************)
(* The occupancy stream from the producer's topic to gold_zone_hourly, by  *)
(* the commands of the Makefile in any order: produce, ingest (with the    *)
(* contract read against a clock that goes on), silver, gold, and reset,   *)
(* which may stop between the tables and the topics.                       *)
(*                                                                         *)
(* The producer is seeded: each emission sends the same payloads, under    *)
(* fresh event_ids.  An event is <<payload, emission>>.  A row of a table  *)
(* is <<event, process>>, since _ingested_at is one time for a process of  *)
(* the ingestion.  The topic is shown as one partition.                    *)
(***************************************************************************)
EXTENDS OccupancyContract, FiniteSetsExt, Sequences

CONSTANTS
    Payload,        \* what one emission sends, in order
    Start, MaxClock,\* the clock: its first and (bound) its last minute
    Step,           \* bound: the minutes the clock goes on at a time
    MaxEmissions,   \* bound: runs of the producer
    MaxProcesses,   \* bound: runs of the ingestion
    MaxResets       \* bound: runs of reset_pipeline.sh

ASSUME FlowAssumption ==
    /\ Len(Payload) \in Nat /\ DOMAIN Payload = 1 .. Len(Payload)
    /\ {Start, MaxClock, MaxEmissions, MaxProcesses, MaxResets} \subseteq Nat
    /\ Step \in Nat \ {0}
    /\ \A k \in DOMAIN Payload :
          /\ Payload[k].json /\ IsA("string", Payload[k].fields, "event_time")
                => Payload[k].fields["event_time"].val \in Nat
          /\ \A f \in Counts : Payload[k].json /\ IsA("number", Payload[k].fields, f)
                => Payload[k].fields[f].val \in Int

VARIABLES
    clock,
    emission, sent,     \* the run of the producer, and what it has sent of Payload
    topic, committed,   \* zone_occupancy_raw and the group's offset in it
    process,            \* the ingestion that runs, or runs next
    bronze, quarantine, \* rows
    silver,             \* rows
    gold,               \* zone-hour -> row of gold_zone_hourly
    counted,            \* history: the rows gold was computed from
    resetting, resets,  \* whether a reset is between tables and topics; resets begun
    dropped             \* history: the offset up to which a reset has taken the rows

producerVars == <<emission, sent>>
brokerVars   == <<topic, committed>>
tableVars    == <<bronze, quarantine, silver, gold, counted>>
resetVars    == <<resetting, resets, dropped>>
vars == <<clock, producerVars, brokerVars, process, tableVars, resetVars>>

Events == (DOMAIN Payload) \X (1 .. MaxEmissions)
Rows   == Events \X (1 .. MaxProcesses)

\* What the row or event was sent as.
FieldsOf(e) == Payload[e[1]].fields
EventsOf(table) == {row[1] : row \in table}

Init ==
    /\ clock = Start
    /\ emission = 1 /\ sent = 0
    /\ topic = <<>> /\ committed = 0
    /\ process = 1
    /\ bronze = {} /\ quarantine = {} /\ silver = {} /\ gold = <<>> /\ counted = {}
    /\ resetting = FALSE /\ resets = 0 /\ dropped = 0

Tick ==
    /\ clock + Step <= MaxClock
    /\ clock' = clock + Step
    /\ UNCHANGED <<producerVars, brokerVars, process, tableVars, resetVars>>

-----------------------------------------------------------------------------
Send ==
    /\ sent < Len(Payload)
    /\ sent' = sent + 1
    /\ topic' = Append(topic, <<sent + 1, emission>>)
    /\ UNCHANGED <<clock, emission, committed, process, tableVars, resetVars>>

\* The producer is run again, whatever the last run came to.
EmitAgain ==
    /\ emission < MaxEmissions
    /\ emission' = emission + 1
    /\ sent' = 0
    /\ UNCHANGED <<clock, brokerVars, process, tableVars, resetVars>>

-----------------------------------------------------------------------------
ReadTo(n)   == {topic[i] : i \in committed + 1 .. n}
Accepted(n) == {e \in ReadTo(n) : Accepts(Payload[e[1]], clock)}

\* A batch up to offset n, read and flushed: appended, quarantined, committed.
Flush(n) ==
    /\ bronze' = bronze \cup (Accepted(n) \X {process})
    /\ quarantine' = quarantine \cup ((ReadTo(n) \ Accepted(n)) \X {process})
    /\ committed' = n

\* Mutant of Ingest: only what was accepted is made durable before the commit.
IngestUnquarantined ==
    \E n \in committed + 1 .. Len(topic) :
        /\ bronze' = bronze \cup (Accepted(n) \X {process})
        /\ committed' = n
        /\ UNCHANGED <<clock, producerVars, topic, process, quarantine, silver, gold, counted,
                       resetVars>>

Ingest ==
    \E n \in committed + 1 .. Len(topic) :
        /\ Flush(n)
        /\ UNCHANGED <<clock, producerVars, topic, process, silver, gold, counted, resetVars>>

\* The process ends, by itself, or killed after none, one or both of the
\* appends of a flush.
EndProcess ==
    /\ process < MaxProcesses
    /\ process' = process + 1
    /\ \/ UNCHANGED <<bronze, quarantine>>
       \/ \E n \in committed + 1 .. Len(topic) :
             /\ bronze' = bronze \cup (Accepted(n) \X {process})
             /\ \/ UNCHANGED quarantine
                \/ quarantine' = quarantine \cup ((ReadTo(n) \ Accepted(n)) \X {process})
    /\ UNCHANGED <<clock, producerVars, brokerVars, silver, gold, counted, resetVars>>

-----------------------------------------------------------------------------
\* Mutant of Deduplicated: the copy ingested last is kept.
DeduplicatedLatest == {row \in bronze : \A other \in bronze : other[1] = row[1] => other[2] <= row[2]}

\* sort("_ingested_at").unique(subset=["event_id"], keep="first")
Deduplicated == {row \in bronze : \A other \in bronze : other[1] = row[1] => row[2] <= other[2]}

\* Mutant of BuildSilver: bronze goes through as it is.
BuildSilverAsIs ==
    /\ bronze # {}
    /\ silver' = bronze
    /\ UNCHANGED <<clock, producerVars, brokerVars, process, bronze, quarantine, gold, counted,
                   resetVars>>

\* build_silver_occupancy.  The join drops nothing: the contract knows the zones.
BuildSilver ==
    /\ bronze # {}
    /\ silver' = Deduplicated
    /\ UNCHANGED <<clock, producerVars, brokerVars, process, bronze, quarantine, gold, counted,
                   resetVars>>

\* zone_id and hour_start
Cell(row) == <<FieldsOf(row[1])["zone_id"].val, FieldsOf(row[1])["event_time"].val \div 60>>
Cells(table) == {Cell(row) : row \in table}

Occupancy(row) == FieldsOf(row[1])["occupancy_estimate"].val
Utilized(row)  == Utilization(FieldsOf(row[1]))
Degraded(row)  == FieldsOf(row[1])["sensor_status"].val # "OK"

Sum(op(_), S) == SumFunction([row \in S |-> op(row)])
Peak(op(_), S) == Max({op(row) : row \in S})
Count(test(_), S) == Cardinality({row \in S : test(row)})

\* Mutant of Minutes: each reading stands for its share of an emission's hour.
MinutesFixed(threshold, S) ==
    Rounded(600 * Count(LAMBDA row : Utilized(row) > threshold, S), 3)

\* The minutes above a threshold, in tenths: the share of readings above it.
Minutes(threshold, S) ==
    Rounded(600 * Count(LAMBDA row : Utilized(row) > threshold, S), Cardinality(S))

\* The columns that are sums over the rows of a zone-hour ...
Totals(S) ==
    [reading_count |-> Cardinality(S),
     entries |-> Sum(LAMBDA row : FieldsOf(row[1])["entries"].val, S),
     exits |-> Sum(LAMBDA row : FieldsOf(row[1])["exits"].val, S)]

\* ... and those that are rates and peaks; averages in tenths and hundredths.
Rates(S) ==
    [peak_occupancy |-> Peak(Occupancy, S),
     avg_occupancy |-> Rounded(10 * Sum(Occupancy, S), Cardinality(S)),
     peak_utilization |-> Peak(Utilized, S),
     avg_utilization |-> Rounded(Sum(Utilized, S), Cardinality(S)),
     minutes_above_80pct |-> Minutes(8000, S),
     minutes_above_90pct |-> Minutes(9000, S),
     degraded_sensor_pct |-> Rounded(10000 * Count(Degraded, S), Cardinality(S))]

Aggregate(S) == [totals |-> Totals(S), rates |-> Rates(S)]

\* build_gold_zone_hourly
BuildGold ==
    /\ silver # {}
    /\ gold' = [c \in Cells(silver) |-> Aggregate({row \in silver : Cell(row) = c})]
    /\ counted' = silver
    /\ UNCHANGED <<clock, producerVars, brokerVars, process, bronze, quarantine, silver, resetVars>>

-----------------------------------------------------------------------------
\* rm -rf delta
DropTables ==
    /\ ~ resetting
    /\ resets < MaxResets
    /\ resets' = resets + 1
    /\ resetting' = TRUE
    /\ bronze' = {} /\ quarantine' = {} /\ silver' = {} /\ gold' = <<>> /\ counted' = {}
    /\ dropped' = committed
    /\ UNCHANGED <<clock, producerVars, brokerVars, process>>

\* The topics are deleted, which takes the group's offsets, and created.
RecreateTopics ==
    /\ resetting
    /\ resetting' = FALSE
    /\ topic' = <<>> /\ committed' = 0
    /\ dropped' = 0
    /\ UNCHANGED <<clock, producerVars, process, tableVars, resets>>

\* The script is killed, or no broker is there, in which case it goes on to
\* print RESET COMPLETE.
ResetStopsShort ==
    /\ resetting
    /\ resetting' = FALSE
    /\ UNCHANGED <<clock, producerVars, brokerVars, process, tableVars, resets, dropped>>

Next ==
    \/ Tick \/ Send \/ EmitAgain
    \/ Ingest \/ EndProcess
    \/ BuildSilver \/ BuildGold
    \/ DropTables \/ RecreateTopics \/ ResetStopsShort

Spec == Init /\ [][Next]_vars

-----------------------------------------------------------------------------
(***************************************************************************)
(* What is committed is in bronze or in the quarantine, whatever was       *)
(* killed, except for offsets a reset has taken the rows of without        *)
(* recreating the topic: those are never read again.  It is in both only   *)
(* if a replay found that the reading's time had come, never the other way *)
(* round: what bronze has is valid from then on.                           *)
(***************************************************************************)
CommittedHaveOnePlace ==
    /\ \A i \in dropped + 1 .. committed :
          topic[i] \in EventsOf(bronze) \cup EventsOf(quarantine)
    /\ \A row \in quarantine, other \in bronze : row[1] = other[1] => row[2] < other[2]

(***************************************************************************)
(* Gold counts each event bronze has once, however often a replay has      *)
(* brought it, and the minutes above a threshold are minutes of an hour.   *)
(***************************************************************************)
GoldIsBackedByBronze ==
    /\ EventsOf(counted) \subseteq EventsOf(bronze)
    /\ SumFunction([c \in DOMAIN gold |-> gold[c].totals.reading_count])
          = Cardinality(EventsOf(counted))
    /\ \A c \in DOMAIN gold :
          /\ gold[c].rates.minutes_above_90pct <= gold[c].rates.minutes_above_80pct
          /\ gold[c].rates.minutes_above_80pct <= 600

(***************************************************************************)
(* "correct regardless of the producer's emission rate": a zone-hour that  *)
(* got the same readings from several emissions has the rates and peaks of *)
(* one of them.                                                            *)
(***************************************************************************)
RateIndependent ==
    \A c \in DOMAIN gold :
        LET From(n) == {row \in counted : Cell(row) = c /\ row[1][2] = n}
            Sent(n) == {row[1][1] : row \in From(n)}
        IN  \A n \in 1 .. emission :
                (From(n) # {} /\ \A k \in 1 .. emission : Sent(k) \in {{}, Sent(n)})
                    => gold[c].rates = Rates(From(n))

(***************************************************************************)
(* "Keeping the earliest ingest makes this deterministic across reruns": a *)
(* rebuild never exchanges or loses a row, only a reset empties silver.    *)
(***************************************************************************)
StableRows == [][silver' = {} \/ silver \subseteq silver']_vars
=============================================================================
