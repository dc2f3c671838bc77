------------------------------ MODULE Pipeline ------------------------------
(***************************************************************************)
(* The runs of the DAG with what its tasks do: the producers, the bronze   *)
(* ingestion, the two quality gates, silver, gold and the RAG index.       *)
(*                                                                         *)
(* The occupancy producer is seeded: every emission repeats the same       *)
(* readings, each under a fresh uuid4.  An event is therefore              *)
(* <<reading, emission>>.  The request producer repeats its events under   *)
(* the same ids, so a request is all there is to say of them; what a merge *)
(* makes of their lifecycle is the subject of RequestFlow.  `conf` is the  *)
(* DAG run's config, as the readings and requests the contract accepts of  *)
(* such a run: a high corrupt_rate or few unique_requests make it smaller. *)
(*                                                                         *)
(* One attempt of an ingestion is one step: it appends some of what is     *)
(* pending and commits some of what it appended (Ingest is the detail).    *)
(***************************************************************************)
EXTENDS DagRun, Functions

CONSTANTS
    Readings,       \* zone and tick of the occupancy stream
    Requests,       \* request_ids
    Confs,          \* the configs a run may be triggered with
    BronzeMin,      \* BRONZE_MIN_ROWS
    SilverMin,      \* SILVER_MIN_ROWS
    MaxRows         \* run_gate's --max-rows, which the DAG leaves at its default

ASSUME PipelineAssumption ==
    /\ Confs \subseteq [readings : SUBSET Readings, requests : SUBSET Requests]
    /\ {BronzeMin, SilverMin, MaxRows} \subseteq Nat \ {0}

\* Every emission after a run's first follows a fault.
Emissions == 1 .. MaxRuns + MaxFaults
Events    == Readings \X Emissions

VARIABLES
    conf,           \* the config of the present run
    sop,            \* data/sop is there
    emission,       \* emissions of the occupancy producer
    occTopic,       \* accepted occupancy events whose offset is not committed
    reqTopic,       \* likewise, requests
    bronzeOcc,      \* event -> rows of bronze_zone_occupancy
    bronzeReq,      \* requests with a row in bronze_service_requests
    silverOcc,      \* events of silver_zone_occupancy
    silverReq,      \* requests of silver_service_requests
    gold,           \* reading -> events gold_zone_hourly counts for it
    index,          \* the Qdrant collection: "none", "empty" or "full"
    validated       \* history: the events of each bronze validate_bronze has passed

topicVars == <<emission, occTopic, reqTopic>>
tableVars == <<bronzeOcc, bronzeReq, silverOcc, silverReq, gold>>
dataVars  == <<conf, sop, topicVars, tableVars, index, validated>>
vars == <<dagVars, dataVars>>

EmptyTable == [e \in Events |-> 0]
Nothing    == [r \in Readings |-> 0]

Init ==
    /\ DagInit
    /\ conf \in Confs
    /\ sop \in BOOLEAN
    /\ emission = 0 /\ occTopic = {} /\ reqTopic = {}
    /\ bronzeOcc = EmptyTable /\ bronzeReq = {}
    /\ silverOcc = {} /\ silverReq = {}
    /\ gold = Nothing
    /\ index = "none"
    /\ validated = {}

-----------------------------------------------------------------------------
Trigger ==
    /\ Triggered
    /\ conf' \in Confs
    /\ UNCHANGED <<sop, topicVars, tableVars, index, validated>>

\* The scheduler moves on, or an attempt dies.
Move == (Schedule \/ RunEnds) /\ UNCHANGED dataVars
Kill == (\E t \in Tasks : Killed(t)) /\ UNCHANGED dataVars

\* Somebody puts the SOP corpus in place.
SopArrives ==
    /\ ~ sop
    /\ sop' = TRUE
    /\ UNCHANGED <<dagVars, conf, topicVars, tableVars, index, validated>>

\* wait_for_sop_corpus finds the directory, or its 120 seconds are over;
\* a sensor's timeout is not retried.
SensorPokes ==
    /\ At("wait_for_sop_corpus", 0)
    /\ sop
    /\ Done("wait_for_sop_corpus") /\ NoFault
    /\ UNCHANGED dataVars

SensorTimesOut ==
    /\ At("wait_for_sop_corpus", 0)
    /\ ~ sop
    /\ FailForGood("wait_for_sop_corpus") /\ NoFault
    /\ UNCHANGED dataVars

-----------------------------------------------------------------------------
(***************************************************************************)
(* produce_test_events: the occupancy producer, then the request producer. *)
(* A producer that stops short delivers part of its events; when it is its *)
(* final flush(60) that ran out, it still exits with 0.                    *)
(***************************************************************************)
Delivering(t, S, all) ==
    \/ S = all /\ Done(t) /\ NoFault
    \/ S # all /\ Fault /\ (Done(t) \/ AttemptFails(t))

EmitOccupancy ==
    /\ At("produce_test_events", 0)
    /\ emission' = emission + 1
    /\ \E S \in SUBSET conf.readings :
          /\ occTopic' = occTopic \cup (S \X {emission'})
          /\ Delivering("produce_test_events", S, conf.readings)
    /\ UNCHANGED <<conf, sop, reqTopic, tableVars, index, validated>>

EmitRequests ==
    /\ At("produce_test_events", 1)
    /\ \E S \in SUBSET conf.requests :
          /\ reqTopic' = reqTopic \cup S
          /\ Delivering("produce_test_events", S, conf.requests)
    /\ UNCHANGED <<conf, sop, emission, occTopic, tableVars, index, validated>>

(***************************************************************************)
(* The ingestion tasks: A is appended and C of it committed.  A part of    *)
(* the topic may stay behind (--idle-timeout); an attempt that does not    *)
(* commit what it appended has died.  A zone is on one partition, which is *)
(* read in order.                                                          *)
(***************************************************************************)
InOrder(A, pending) ==
    \A e \in A : \A d \in pending : d[1] = e[1] /\ d[2] < e[2] => d \in A

Ingesting(t, A, C) ==
    \/ C = A /\ Done(t) /\ NoFault
    \/ C # A /\ Fault /\ AttemptFails(t)

IngestOccupancy ==
    /\ At("ingest_bronze_occupancy", 0)
    /\ \E A \in SUBSET occTopic : \E C \in SUBSET A :
          /\ InOrder(A, occTopic) /\ InOrder(C, occTopic)
          /\ bronzeOcc' = [e \in Events |-> bronzeOcc[e] + IF e \in A THEN 1 ELSE 0]
          /\ occTopic' = occTopic \ C
          /\ Ingesting("ingest_bronze_occupancy", A, C)
    /\ UNCHANGED <<conf, sop, emission, reqTopic, bronzeReq, silverOcc, silverReq,
                   gold, index, validated>>

IngestRequests ==
    /\ At("ingest_bronze_requests", 0)
    /\ \E A \in SUBSET reqTopic : \E C \in SUBSET A :
          /\ bronzeReq' = bronzeReq \cup A
          /\ reqTopic' = reqTopic \ C
          /\ Ingesting("ingest_bronze_requests", A, C)
    /\ UNCHANGED <<conf, sop, emission, occTopic, bronzeOcc, silverOcc, silverReq,
                   gold, index, validated>>

-----------------------------------------------------------------------------
RowsOf(table)   == FoldFunction(+, 0, table)
EventsOf(table) == {e \in Events : table[e] > 0}

\* bronze_suite on bronze_zone_occupancy, which is read whole: event_id is
\* unique and the row count is between the bounds.  The contract has seen to
\* the value ranges.
BronzeMeetsSuite ==
    /\ \A e \in Events : bronzeOcc[e] <= 1
    /\ RowsOf(bronzeOcc) \in BronzeMin .. MaxRows

\* silver_requests_suite on silver_service_requests.
SilverMeetsSuite == Cardinality(silverReq) \in SilverMin .. MaxRows

ValidateBronze ==
    /\ At("validate_bronze", 0)
    /\ NoFault
    /\ \/ BronzeMeetsSuite /\ Done("validate_bronze")
          /\ validated' = validated \cup {EventsOf(bronzeOcc)}
       \/ ~ BronzeMeetsSuite /\ AttemptFails("validate_bronze") /\ UNCHANGED validated
    /\ UNCHANGED <<conf, sop, topicVars, tableVars, index>>

\* Mutant of ValidateSilver: the verdict is printed and not raised.
ValidateSilverSoftly ==
    /\ At("validate_silver", 0)
    /\ NoFault
    /\ Done("validate_silver")
    /\ UNCHANGED dataVars

ValidateSilver ==
    /\ At("validate_silver", 0)
    /\ NoFault
    /\ \/ SilverMeetsSuite /\ Done("validate_silver")
       \/ ~ SilverMeetsSuite /\ AttemptFails("validate_silver")
    /\ UNCHANGED dataVars

-----------------------------------------------------------------------------
\* build_silver_occupancy: one row per event_id, over the old table.
BuildSilverOccupancy ==
    /\ At("build_silver_occupancy", 0)
    /\ silverOcc' = EventsOf(bronzeOcc)
    /\ Done("build_silver_occupancy") /\ NoFault
    /\ UNCHANGED <<conf, sop, topicVars, bronzeOcc, bronzeReq, silverReq, gold, index, validated>>

\* build_silver_requests: a merge into the old table; there may be no bronze
\* table to read yet, which nothing has validated.
BuildSilverRequests ==
    /\ At("build_silver_requests_merge", 0)
    /\ NoFault
    /\ \/ bronzeReq # {} /\ Done("build_silver_requests_merge")
       \/ bronzeReq = {} /\ AttemptFails("build_silver_requests_merge")
    /\ silverReq' = silverReq \cup bronzeReq
    /\ UNCHANGED <<conf, sop, topicVars, bronzeOcc, bronzeReq, silverOcc, gold, index, validated>>

\* The events silver holds of each reading: reading_count and the sums with it.
CountsOf(S) == [r \in Readings |-> Cardinality({e \in S : e[1] = r})]

\* Mutant of BuildGold: the aggregates are added to the old ones.
BuildGoldAppending ==
    /\ At("build_gold_zone_hourly", 0)
    /\ gold' = [r \in Readings |-> gold[r] + CountsOf(silverOcc)[r]]
    /\ Done("build_gold_zone_hourly") /\ NoFault
    /\ UNCHANGED <<conf, sop, topicVars, bronzeOcc, bronzeReq, silverOcc, silverReq, index, validated>>

BuildGold ==
    /\ At("build_gold_zone_hourly", 0)
    /\ gold' = CountsOf(silverOcc)
    /\ Done("build_gold_zone_hourly") /\ NoFault
    /\ UNCHANGED <<conf, sop, topicVars, bronzeOcc, bronzeReq, silverOcc, silverReq, index, validated>>

\* refresh_rag_index: the collection is dropped and created, then filled.
RecreateCollection ==
    /\ At("refresh_rag_index", 0)
    /\ index' = "empty"
    /\ Done("refresh_rag_index") /\ NoFault
    /\ UNCHANGED <<conf, sop, topicVars, tableVars, validated>>

UpsertChunks ==
    /\ At("refresh_rag_index", 1)
    /\ index' = "full"
    /\ Done("refresh_rag_index") /\ NoFault
    /\ UNCHANGED <<conf, sop, topicVars, tableVars, validated>>

\* smoke_test_rag: retrieval cites something as long as there is a collection
\* (BM25 finds passages even if it is empty), whatever the models answer.
SmokeTest ==
    /\ At("smoke_test_rag", 0)
    /\ index # "none"
    /\ Done("smoke_test_rag") /\ NoFault
    /\ UNCHANGED dataVars

Work ==
    \/ SensorPokes \/ SensorTimesOut
    \/ EmitOccupancy \/ EmitRequests \/ IngestOccupancy \/ IngestRequests
    \/ ValidateBronze \/ ValidateSilver
    \/ BuildSilverOccupancy \/ BuildSilverRequests \/ BuildGold
    \/ RecreateCollection \/ UpsertChunks \/ SmokeTest

Next == Trigger \/ Move \/ Kill \/ SopArrives \/ Work

Spec == Init /\ [][Next]_vars

\* The scheduler keeps scheduling, and the commands of an attempt end.
FairSpec == Spec /\ WF_vars(Move) /\ WF_vars(Work)

-----------------------------------------------------------------------------
TypeOK ==
    /\ DagTypeOK
    /\ conf \in Confs
    /\ sop \in BOOLEAN
    /\ emission \in 0 .. MaxRuns + MaxFaults
    /\ occTopic \subseteq Events
    /\ reqTopic \subseteq Requests
    /\ bronzeOcc \in [Events -> Nat]
    /\ bronzeReq \subseteq Requests
    /\ silverOcc \subseteq Events
    /\ silverReq \subseteq Requests
    /\ gold \in [Readings -> Nat]
    /\ index \in {"none", "empty", "full"}
    /\ validated \subseteq SUBSET Events

(***************************************************************************)
(* Nothing is published of a bronze table that no gate has passed: what    *)
(* silver holds and what gold counts is all of a table validate_bronze     *)
(* passed, in this run or, if this one stopped short, in an earlier one    *)
(* ("instead of running on unvalidated data").                             *)
(***************************************************************************)
PublishedIsValidated ==
    /\ silverOcc \in validated \cup {{}}
    /\ gold \in {CountsOf(S) : S \in validated \cup {{}}}

(***************************************************************************)
(* A run that ends in success has brought everything up to the bronze it   *)
(* leaves behind: silver and gold count each event of it, silver has all   *)
(* its requests, the index is whole.                                       *)
(***************************************************************************)
SuccessIsUpToDate ==
    run = "success" =>
        /\ silverOcc = EventsOf(bronzeOcc)
        /\ gold = CountsOf(silverOcc)
        /\ silverReq = bronzeReq
        /\ index = "full"

(***************************************************************************)
(* Gold and the index only change while both tables the gates look at meet *)
(* their suites, not merely after a gate passed some time ago              *)
(* ("re-indexing while the lakehouse is known-bad ...").                   *)
(***************************************************************************)
PublishOnlyWhileSound ==
    [][gold' # gold \/ index' # index => BronzeMeetsSuite /\ SilverMeetsSuite]_vars

(***************************************************************************)
(* Every run that is triggered ends, whatever is killed and whichever gate *)
(* fails.                                                                  *)
(***************************************************************************)
EveryRunEnds == run = "running" ~> run # "running"

-----------------------------------------------------------------------------
(***************************************************************************)
(* What the documents say.                                                 *)
(***************************************************************************)
(***************************************************************************)
(* silver.py: "Bronze can legitimately contain duplicates": the pipeline   *)
(* does not fail at the bronze gate when its distinct events are fine.     *)
(***************************************************************************)
DuplicatesAreLegitimate ==
    state["validate_bronze"] = "failed" =>
        Cardinality(EventsOf(bronzeOcc)) \notin BronzeMin .. MaxRows

=============================================================================
