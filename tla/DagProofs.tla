----------------------------- MODULE DagProofs -----------------------------
(***************************************************************************)
(* The DAG, for any number of runs, retries and faults, in two parts.      *)
(*                                                                         *)
(* With its data (Pipeline): only what the gates have passed is published, *)
(* and a run that succeeds leaves everything up to date.                   *)
(*                                                                         *)
(* With its lineage stream (Lineage): a lineage run has one end unless it  *)
(* was cut short, a stage starts after the COMPLETE of the stages it reads *)
(* from, and the callback reports only failures that are final.            *)
(***************************************************************************)
EXTENDS Pipeline, Lineage, FiniteSetTheorems, TLAPS

\* A task that has begun and not failed.
Live(t) == state[t] \in {"running", "success"}

\* A task all of whose effects have happened, in an attempt that has not failed.
Ran(t) == state[t] = "success" \/ (state[t] = "running" /\ step[t] = Effects(t))

Tables ==
    /\ state \in [Tasks -> {"none", "running", "up_for_retry"} \cup Finished]
    /\ step \in [Tasks -> Nat]

\* A task does not begin before the tasks above it have succeeded.
Begun == \A t \in Tasks : Live(t) => \A u \in Upstream(t) : state[u] = "success"

\* What holds from the effect of a task until the next run, as no task above it is at work.
BronzeChecked == Ran("validate_bronze") => BronzeMeetsSuite /\ EventsOf(bronzeOcc) \in validated
SilverBuilt   == Ran("build_silver_occupancy") => silverOcc = EventsOf(bronzeOcc)
SilverMerged  == Ran("build_silver_requests_merge") => silverReq = bronzeReq
SilverChecked == Ran("validate_silver") => SilverMeetsSuite
GoldBuilt     == Ran("build_gold_zone_hourly") => gold = CountsOf(silverOcc)
IndexBuilt    == Ran("refresh_rag_index") => index = "full"

PipelineInv ==
    /\ Tables
    /\ Begun
    /\ run = "success" => state["end"] = "success"
    /\ BronzeChecked
    /\ SilverBuilt
    /\ SilverMerged /\ silverReq \subseteq bronzeReq
    /\ SilverChecked
    /\ GoldBuilt
    /\ IndexBuilt
    /\ PublishedIsValidated

-----------------------------------------------------------------------------
\* The names of the tasks, and how many effects they have.
LEMMA Names ==
    /\ {"ingest_bronze_occupancy", "ingest_bronze_requests", "validate_bronze",
        "build_silver_occupancy", "build_silver_requests_merge", "validate_silver",
        "build_gold_zone_hourly", "refresh_rag_index", "smoke_test_rag", "end",
        "wait_for_sop_corpus", "produce_test_events"} \subseteq Tasks
    /\ Effects("validate_bronze") = 1 /\ Effects("build_silver_occupancy") = 1
    /\ Effects("build_silver_requests_merge") = 1 /\ Effects("validate_silver") = 1
    /\ Effects("build_gold_zone_hourly") = 1 /\ Effects("refresh_rag_index") = 2
    /\ \A t \in Tasks : Effects(t) \in Nat
BY DEF Tasks, Edges, Effects, EmptyTasks

\* The edges of the DAG that the argument follows.
LEMMA Chain ==
    ASSUME Begun
    PROVE  /\ Live("validate_bronze") => /\ state["ingest_bronze_occupancy"] = "success"
                                         /\ state["ingest_bronze_requests"] = "success"
           /\ Live("build_silver_occupancy") => state["validate_bronze"] = "success"
           /\ Live("build_silver_requests_merge") => state["validate_bronze"] = "success"
           /\ Live("validate_silver") => /\ state["build_silver_occupancy"] = "success"
                                         /\ state["build_silver_requests_merge"] = "success"
           /\ Live("build_gold_zone_hourly") => state["validate_silver"] = "success"
           /\ Live("refresh_rag_index") => state["build_gold_zone_hourly"] = "success"
           /\ Live("smoke_test_rag") => state["refresh_rag_index"] = "success"
           /\ Live("end") => state["smoke_test_rag"] = "success"
<1>1. /\ "ingest_bronze_occupancy" \in Upstream("validate_bronze")
      /\ "ingest_bronze_requests" \in Upstream("validate_bronze")
      /\ "validate_bronze" \in Upstream("build_silver_occupancy")
      /\ "validate_bronze" \in Upstream("build_silver_requests_merge")
      /\ "build_silver_occupancy" \in Upstream("validate_silver")
      /\ "build_silver_requests_merge" \in Upstream("validate_silver")
      /\ "validate_silver" \in Upstream("build_gold_zone_hourly")
      /\ "build_gold_zone_hourly" \in Upstream("refresh_rag_index")
      /\ "refresh_rag_index" \in Upstream("smoke_test_rag")
      /\ "smoke_test_rag" \in Upstream("end")
    BY Names DEF Upstream, Edges
<1> QED
    BY <1>1, Names DEF Begun

\* The invariant holds before the first run.
LEMMA InitHolds == Init => PipelineInv
<1> SUFFICES ASSUME Init
             PROVE  PipelineInv
    OBVIOUS
<1>1. Tables
    BY DEF Init, DagInit, Tables, Finished
<1>2. \A t \in Tasks : ~ Live(t) /\ ~ Ran(t)
    BY DEF Init, DagInit, Live, Ran
<1>3. gold = CountsOf({})
    <2>1. \A r \in Readings : Cardinality({e \in {} : e[1] = r}) = 0
        BY FS_EmptySet
    <2> QED
        BY <2>1 DEF Init, Nothing, CountsOf
<1>4. PublishedIsValidated
    BY <1>3 DEF Init, PublishedIsValidated
<1> QED
    BY <1>1, <1>2, <1>4, Names DEF Init, DagInit, PipelineInv, Begun, BronzeChecked, SilverBuilt, SilverMerged,
       SilverChecked, GoldBuilt, IndexBuilt

-----------------------------------------------------------------------------
\* The effect of a task x, and what a failed attempt of it, make of the tasks.
LEMMA DoneKeeps ==
    ASSUME Tables, Begun, NEW x \in Tasks, state[x] = "running", Done(x)
    PROVE  /\ Tables' /\ Begun' /\ run' = run /\ state' = state
           /\ \A t \in Tasks \ {x} : Ran(t)' <=> Ran(t)
BY DEF Tables, Begun, Live, Ran, Done

LEMMA FailKeeps ==
    ASSUME Tables, Begun, NEW x \in Tasks, state[x] = "running", AttemptFails(x) \/ FailForGood(x)
    PROVE  /\ Tables' /\ Begun' /\ run' = run /\ ~ Ran(x)'
           /\ \A t \in Tasks : state[t] = "success" => state'[t] = "success"
           /\ \A t \in Tasks \ {x} : Ran(t)' <=> Ran(t)
<1>1. Tables' /\ run' = run
    BY DEF Tables, AttemptFails, FailForGood, Finished
<1>2. /\ \A t \in Tasks \ {x} : state'[t] = state[t] /\ step'[t] = step[t]
      /\ state'[x] \in {"up_for_retry", "failed"}
    BY DEF Tables, AttemptFails, FailForGood
<1>3. \A t \in Tasks : state[t] = "success" => state'[t] = "success"
    BY <1>2
<1>4. Begun'
    <2> SUFFICES ASSUME NEW t \in Tasks, Live(t)', NEW u \in Upstream(t)
                 PROVE  state'[u] = "success"
        BY DEF Begun, Upstream
    <2>1. Live(t) /\ u \in Tasks
        BY <1>2 DEF Live, Upstream
    <2> QED
        BY <2>1, <1>3 DEF Begun
<1> QED
    BY <1>1, <1>2, <1>3, <1>4 DEF Ran

\* The end of a run is not taken back by what its tasks do.
LEMMA EndStays ==
    ASSUME run = "success" => state["end"] = "success", run' = run,
           \A t \in Tasks : state[t] = "success" => state'[t] = "success"
    PROVE  run' = "success" => state'["end"] = "success"
BY Names

\* Nothing below a task at work has run.
LEMMA NothingBelow ==
    ASSUME Begun
    PROVE  /\ state["ingest_bronze_occupancy"] = "running" =>
                  ~ Ran("validate_bronze") /\ ~ Ran("build_silver_occupancy")
           /\ state["ingest_bronze_requests"] = "running" => ~ Ran("build_silver_requests_merge")
           /\ state["build_silver_occupancy"] = "running" => ~ Ran("build_gold_zone_hourly")
           /\ state["build_silver_requests_merge"] = "running" => ~ Ran("validate_silver")
BY Chain DEF Live, Ran

-----------------------------------------------------------------------------
\* What is said of a task stays true while the tables it is about stay.
LEMMA Kept ==
    /\ BronzeChecked /\ bronzeOcc' = bronzeOcc /\ validated \subseteq validated'
       /\ (Ran("validate_bronze")' => Ran("validate_bronze")) => BronzeChecked'
    /\ SilverBuilt /\ bronzeOcc' = bronzeOcc /\ silverOcc' = silverOcc
       /\ (Ran("build_silver_occupancy")' => Ran("build_silver_occupancy")) => SilverBuilt'
    /\ SilverMerged /\ bronzeReq' = bronzeReq /\ silverReq' = silverReq
       /\ (Ran("build_silver_requests_merge")' => Ran("build_silver_requests_merge")) => SilverMerged'
    /\ SilverChecked /\ silverReq' = silverReq
       /\ (Ran("validate_silver")' => Ran("validate_silver")) => SilverChecked'
    /\ GoldBuilt /\ silverOcc' = silverOcc /\ gold' = gold
       /\ (Ran("build_gold_zone_hourly")' => Ran("build_gold_zone_hourly")) => GoldBuilt'
    /\ IndexBuilt /\ index' = index
       /\ (Ran("refresh_rag_index")' => Ran("refresh_rag_index")) => IndexBuilt'
    /\ PublishedIsValidated /\ silverOcc' = silverOcc /\ gold' = gold /\ validated \subseteq validated'
       => PublishedIsValidated'
<1>1. /\ bronzeOcc' = bronzeOcc => EventsOf(bronzeOcc)' = EventsOf(bronzeOcc)
      /\ bronzeOcc' = bronzeOcc => (BronzeMeetsSuite' <=> BronzeMeetsSuite)
    BY DEF EventsOf, BronzeMeetsSuite
<1>2. /\ silverReq' = silverReq => (SilverMeetsSuite' <=> SilverMeetsSuite)
      /\ silverOcc' = silverOcc => CountsOf(silverOcc)' = CountsOf(silverOcc)
    BY DEF SilverMeetsSuite, CountsOf
<1>3. PublishedIsValidated /\ silverOcc' = silverOcc /\ gold' = gold /\ validated \subseteq validated'
       => PublishedIsValidated'
    BY DEF PublishedIsValidated, CountsOf
<1> QED
    BY <1>1, <1>2, <1>3 DEF BronzeChecked, SilverBuilt, SilverMerged, SilverChecked, GoldBuilt, IndexBuilt

\* The tasks the invariant speaks of.
Watched == {"validate_bronze", "build_silver_occupancy", "build_silver_requests_merge",
            "validate_silver", "build_gold_zone_hourly", "refresh_rag_index"}

LEMMA WatchedTasks == Watched \subseteq Tasks /\ \A t \in Watched : Effects(t) # 0 /\ t \notin EmptyTasks
BY Names DEF Watched, EmptyTasks

\* A step that leaves the data alone, where no task has run that had not.
LEMMA DataKept ==
    ASSUME PipelineInv, UNCHANGED dataVars, Tables', Begun',
           run' = "success" => state'["end"] = "success",
           \A t \in Watched : Ran(t)' => Ran(t)
    PROVE  PipelineInv'
BY Kept DEF dataVars, tableVars, topicVars, PipelineInv, Watched

\* A run is triggered: no task of it has run.
LEMMA TriggerKeeps ==
    ASSUME PipelineInv, Trigger
    PROVE  PipelineInv'
<1>1. Tables' /\ run' = "running" /\ \A t \in Tasks : state'[t] = "none"
    BY DEF Trigger, Triggered, PipelineInv, Tables
<1>2. Begun' /\ \A t \in Watched : ~ Ran(t)'
    BY <1>1, WatchedTasks DEF Begun, Live, Ran
<1> QED
    BY <1>1, <1>2, Kept DEF Trigger, tableVars, topicVars, PipelineInv, Watched

\* Where successes stay and what comes to life may, no task begins too early.
LEMMA BegunKept ==
    ASSUME Begun, \A t \in Tasks : state[t] = "success" => state'[t] = "success",
           \A t \in Tasks : Live(t)' => Live(t) \/ \A u \in Upstream(t) : state[u] = "success"
    PROVE  Begun'
<1> SUFFICES ASSUME NEW t \in Tasks, Live(t)', NEW u \in Upstream(t)
             PROVE  state'[u] = "success"
    BY DEF Begun
<1>1. u \in Tasks /\ state[u] = "success"
    BY DEF Begun, Upstream
<1> QED
    BY <1>1

\* The scheduler moves on: what begins has not run, what succeeds had run.
LEMMA MoveKeeps ==
    ASSUME PipelineInv, Move
    PROVE  PipelineInv'
<1>1. Tables'
    <2>1. CASE RunEnds
        BY <2>1 DEF RunEnds, PipelineInv, Tables
    <2>2. ASSUME NEW t \in Tasks, Begin(t)
          PROVE  Tables'
        BY <2>2 DEF Begin, PipelineInv, Tables
    <2>3. ASSUME NEW t \in Tasks, PassEmpty(t) \/ Succeed(t) \/ FailFromUpstream(t)
          PROVE  Tables'
        BY <2>3 DEF PassEmpty, Succeed, FailFromUpstream, PipelineInv, Tables, Finished
    <2> QED
        BY <2>1, <2>2, <2>3 DEF Move, Schedule
<1>2. \A t \in Tasks : state[t] = "success" => state'[t] = "success"
    BY DEF Move, Schedule, Begin, PassEmpty, Succeed, FailFromUpstream, RunEnds, Ready, PipelineInv, Tables
<1>3. \A t \in Tasks : Live(t)' => Live(t) \/ \A u \in Upstream(t) : state[u] = "success"
    BY DEF Move, Schedule, Begin, PassEmpty, Succeed, FailFromUpstream, RunEnds, Ready, PipelineInv, Tables, Live
<1>4. run' = "success" => state'["end"] = "success"
    BY <1>2, Names DEF Move, Schedule, Begin, PassEmpty, Succeed, FailFromUpstream, RunEnds, Ready, PipelineInv
<1>5. \A t \in Watched : Ran(t)' => Ran(t)
    BY WatchedTasks DEF Move, Schedule, Begin, PassEmpty, Succeed, FailFromUpstream, RunEnds, Ready,
       PipelineInv, Tables, Ran
<1> QED
    BY <1>1, <1>2, <1>3, <1>4, <1>5, BegunKept, DataKept DEF Move, PipelineInv

\* An attempt is killed.
LEMMA KillKeeps ==
    ASSUME PipelineInv, Kill
    PROVE  PipelineInv'
<1>1. PICK x \in Tasks : Killed(x)
    BY DEF Kill
<1>2. state[x] = "running" /\ AttemptFails(x)
    BY <1>1 DEF Killed
<1>3. /\ Tables' /\ Begun' /\ run' = run /\ ~ Ran(x)'
      /\ \A t \in Tasks : state[t] = "success" => state'[t] = "success"
      /\ \A t \in Tasks \ {x} : Ran(t)' <=> Ran(t)
    BY <1>2, FailKeeps DEF PipelineInv
<1> QED
    BY <1>3, DataKept, EndStays, WatchedTasks DEF Kill, PipelineInv

-----------------------------------------------------------------------------
\* The sensor finds the corpus.
LEMMA SensorPokesKeeps ==
    ASSUME PipelineInv, SensorPokes
    PROVE  PipelineInv'
<1> DEFINE x == "wait_for_sop_corpus"
<1>1. x \in Tasks /\ state[x] = "running" /\ step[x] = 0
    BY Names DEF SensorPokes, At
<1>2. Tables /\ Begun /\ PublishedIsValidated
    BY DEF PipelineInv
<1>3. Done(x) \/ AttemptFails(x) \/ FailForGood(x)
    BY DEF SensorPokes, Delivering, Ingesting
<1>4. /\ Tables' /\ Begun' /\ run' = run /\ (Ran(x)' => Done(x))
      /\ \A t \in Tasks : state[t] = "success" => state'[t] = "success"
      /\ \A t \in Tasks \ {x} : Ran(t)' <=> Ran(t)
    <2> HIDE DEF x
    <2> QED
        BY <1>1, <1>2, <1>3, DoneKeeps, FailKeeps
<1>5. run' = "success" => state'["end"] = "success"
    BY <1>4, EndStays DEF PipelineInv
<1> QED
    BY <1>4, <1>5, WatchedTasks, Kept DEF SensorPokes, dataVars, tableVars, topicVars, PipelineInv, Watched

\* The sensor gives up.
LEMMA SensorTimesOutKeeps ==
    ASSUME PipelineInv, SensorTimesOut
    PROVE  PipelineInv'
<1> DEFINE x == "wait_for_sop_corpus"
<1>1. x \in Tasks /\ state[x] = "running" /\ step[x] = 0
    BY Names DEF SensorTimesOut, At
<1>2. Tables /\ Begun /\ PublishedIsValidated
    BY DEF PipelineInv
<1>3. Done(x) \/ AttemptFails(x) \/ FailForGood(x)
    BY DEF SensorTimesOut, Delivering, Ingesting
<1>4. /\ Tables' /\ Begun' /\ run' = run /\ (Ran(x)' => Done(x))
      /\ \A t \in Tasks : state[t] = "success" => state'[t] = "success"
      /\ \A t \in Tasks \ {x} : Ran(t)' <=> Ran(t)
    <2> HIDE DEF x
    <2> QED
        BY <1>1, <1>2, <1>3, DoneKeeps, FailKeeps
<1>5. run' = "success" => state'["end"] = "success"
    BY <1>4, EndStays DEF PipelineInv
<1> QED
    BY <1>4, <1>5, WatchedTasks, Kept DEF SensorTimesOut, dataVars, tableVars, topicVars, PipelineInv, Watched

\* The occupancy producer runs.
LEMMA EmitOccupancyKeeps ==
    ASSUME PipelineInv, EmitOccupancy
    PROVE  PipelineInv'
<1> DEFINE x == "produce_test_events"
<1>1. x \in Tasks /\ state[x] = "running" /\ step[x] = 0
    BY Names DEF EmitOccupancy, At
<1>2. Tables /\ Begun /\ PublishedIsValidated
    BY DEF PipelineInv
<1>3. Done(x) \/ AttemptFails(x) \/ FailForGood(x)
    BY DEF EmitOccupancy, Delivering, Ingesting
<1>4. /\ Tables' /\ Begun' /\ run' = run /\ (Ran(x)' => Done(x))
      /\ \A t \in Tasks : state[t] = "success" => state'[t] = "success"
      /\ \A t \in Tasks \ {x} : Ran(t)' <=> Ran(t)
    <2> HIDE DEF x
    <2> QED
        BY <1>1, <1>2, <1>3, DoneKeeps, FailKeeps
<1>5. run' = "success" => state'["end"] = "success"
    BY <1>4, EndStays DEF PipelineInv
<1> QED
    BY <1>4, <1>5, WatchedTasks, Kept DEF EmitOccupancy, dataVars, tableVars, topicVars, PipelineInv, Watched

\* The request producer runs.
LEMMA EmitRequestsKeeps ==
    ASSUME PipelineInv, EmitRequests
    PROVE  PipelineInv'
<1> DEFINE x == "produce_test_events"
<1>1. x \in Tasks /\ state[x] = "running" /\ step[x] = 1
    BY Names DEF EmitRequests, At
<1>2. Tables /\ Begun /\ PublishedIsValidated
    BY DEF PipelineInv
<1>3. Done(x) \/ AttemptFails(x) \/ FailForGood(x)
    BY DEF EmitRequests, Delivering, Ingesting
<1>4. /\ Tables' /\ Begun' /\ run' = run /\ (Ran(x)' => Done(x))
      /\ \A t \in Tasks : state[t] = "success" => state'[t] = "success"
      /\ \A t \in Tasks \ {x} : Ran(t)' <=> Ran(t)
    <2> HIDE DEF x
    <2> QED
        BY <1>1, <1>2, <1>3, DoneKeeps, FailKeeps
<1>5. run' = "success" => state'["end"] = "success"
    BY <1>4, EndStays DEF PipelineInv
<1> QED
    BY <1>4, <1>5, WatchedTasks, Kept DEF EmitRequests, dataVars, tableVars, topicVars, PipelineInv, Watched

\* The smoke test.
LEMMA SmokeTestKeeps ==
    ASSUME PipelineInv, SmokeTest
    PROVE  PipelineInv'
<1> DEFINE x == "smoke_test_rag"
<1>1. x \in Tasks /\ state[x] = "running" /\ step[x] = 0
    BY Names DEF SmokeTest, At
<1>2. Tables /\ Begun /\ PublishedIsValidated
    BY DEF PipelineInv
<1>3. Done(x) \/ AttemptFails(x) \/ FailForGood(x)
    BY DEF SmokeTest, Delivering, Ingesting
<1>4. /\ Tables' /\ Begun' /\ run' = run /\ (Ran(x)' => Done(x))
      /\ \A t \in Tasks : state[t] = "success" => state'[t] = "success"
      /\ \A t \in Tasks \ {x} : Ran(t)' <=> Ran(t)
    <2> HIDE DEF x
    <2> QED
        BY <1>1, <1>2, <1>3, DoneKeeps, FailKeeps
<1>5. run' = "success" => state'["end"] = "success"
    BY <1>4, EndStays DEF PipelineInv
<1> QED
    BY <1>4, <1>5, WatchedTasks, Kept DEF SmokeTest, dataVars, tableVars, topicVars, PipelineInv, Watched

\* Bronze grows while nothing below its ingestion has run.
LEMMA IngestOccupancyKeeps ==
    ASSUME PipelineInv, IngestOccupancy
    PROVE  PipelineInv'
<1> DEFINE x == "ingest_bronze_occupancy"
<1>1. x \in Tasks /\ state[x] = "running" /\ step[x] = 0
    BY Names DEF IngestOccupancy, At
<1>2. Tables /\ Begun /\ PublishedIsValidated
    BY DEF PipelineInv
<1>3. Done(x) \/ AttemptFails(x) \/ FailForGood(x)
    BY DEF IngestOccupancy, Delivering, Ingesting
<1>4. /\ Tables' /\ Begun' /\ run' = run /\ (Ran(x)' => Done(x))
      /\ \A t \in Tasks : state[t] = "success" => state'[t] = "success"
      /\ \A t \in Tasks \ {x} : Ran(t)' <=> Ran(t)
    <2> HIDE DEF x
    <2> QED
        BY <1>1, <1>2, <1>3, DoneKeeps, FailKeeps
<1>5. run' = "success" => state'["end"] = "success"
    BY <1>4, EndStays DEF PipelineInv
<1>6. ~ Ran("validate_bronze")' /\ ~ Ran("build_silver_occupancy")'
    BY <1>1, <1>2, <1>4, NothingBelow, Names
<1>7. BronzeChecked' /\ SilverBuilt'
    BY <1>6 DEF BronzeChecked, SilverBuilt
<1> QED
    BY <1>4, <1>5, <1>7, WatchedTasks, Kept DEF IngestOccupancy, PipelineInv, Watched

\* The bronze of the requests grows while nothing below its ingestion has run.
LEMMA IngestRequestsKeeps ==
    ASSUME PipelineInv, IngestRequests
    PROVE  PipelineInv'
<1> DEFINE x == "ingest_bronze_requests"
<1>1. x \in Tasks /\ state[x] = "running" /\ step[x] = 0
    BY Names DEF IngestRequests, At
<1>2. Tables /\ Begun /\ PublishedIsValidated
    BY DEF PipelineInv
<1>3. Done(x) \/ AttemptFails(x) \/ FailForGood(x)
    BY DEF IngestRequests, Delivering, Ingesting
<1>4. /\ Tables' /\ Begun' /\ run' = run /\ (Ran(x)' => Done(x))
      /\ \A t \in Tasks : state[t] = "success" => state'[t] = "success"
      /\ \A t \in Tasks \ {x} : Ran(t)' <=> Ran(t)
    <2> HIDE DEF x
    <2> QED
        BY <1>1, <1>2, <1>3, DoneKeeps, FailKeeps
<1>5. run' = "success" => state'["end"] = "success"
    BY <1>4, EndStays DEF PipelineInv
<1>6. ~ Ran("build_silver_requests_merge")'
    BY <1>1, <1>2, <1>4, NothingBelow, Names
<1>7. SilverMerged' /\ silverReq' \subseteq bronzeReq'
    BY <1>6 DEF SilverMerged, PipelineInv, IngestRequests
<1> QED
    BY <1>4, <1>5, <1>7, WatchedTasks, Kept DEF IngestRequests, PipelineInv, Watched

\* The gate passes the table as it is, or the attempt fails.
LEMMA ValidateBronzeKeeps ==
    ASSUME PipelineInv, ValidateBronze
    PROVE  PipelineInv'
<1> DEFINE x == "validate_bronze"
<1>1. x \in Tasks /\ state[x] = "running" /\ step[x] = 0
    BY Names DEF ValidateBronze, At
<1>2. Tables /\ Begun /\ PublishedIsValidated
    BY DEF PipelineInv
<1>3. Done(x) \/ AttemptFails(x) \/ FailForGood(x)
    BY DEF ValidateBronze, Delivering, Ingesting
<1>4. /\ Tables' /\ Begun' /\ run' = run /\ (Ran(x)' => Done(x))
      /\ \A t \in Tasks : state[t] = "success" => state'[t] = "success"
      /\ \A t \in Tasks \ {x} : Ran(t)' <=> Ran(t)
    <2> HIDE DEF x
    <2> QED
        BY <1>1, <1>2, <1>3, DoneKeeps, FailKeeps
<1>5. run' = "success" => state'["end"] = "success"
    BY <1>4, EndStays DEF PipelineInv
<1>6. BronzeChecked'
    <2>1. CASE Done(x)
        <3>1. BronzeMeetsSuite /\ validated' = validated \cup {EventsOf(bronzeOcc)} /\ bronzeOcc' = bronzeOcc
            BY <1>1, <1>2, <2>1 DEF ValidateBronze, tableVars, topicVars, Done, AttemptFails, FailForGood, Tables
        <3> QED
            BY <3>1 DEF BronzeChecked, BronzeMeetsSuite, EventsOf
    <2>2. CASE ~ Done(x)
        BY <1>4, <2>2 DEF BronzeChecked
    <2> QED
        BY <2>1, <2>2
<1> QED
    BY <1>4, <1>5, <1>6, WatchedTasks, Kept DEF ValidateBronze, tableVars, topicVars, PipelineInv, Watched

\* The second gate passes the table as it is, or the attempt fails.
LEMMA ValidateSilverKeeps ==
    ASSUME PipelineInv, ValidateSilver
    PROVE  PipelineInv'
<1> DEFINE x == "validate_silver"
<1>1. x \in Tasks /\ state[x] = "running" /\ step[x] = 0
    BY Names DEF ValidateSilver, At
<1>2. Tables /\ Begun /\ PublishedIsValidated
    BY DEF PipelineInv
<1>3. Done(x) \/ AttemptFails(x) \/ FailForGood(x)
    BY DEF ValidateSilver, Delivering, Ingesting
<1>4. /\ Tables' /\ Begun' /\ run' = run /\ (Ran(x)' => Done(x))
      /\ \A t \in Tasks : state[t] = "success" => state'[t] = "success"
      /\ \A t \in Tasks \ {x} : Ran(t)' <=> Ran(t)
    <2> HIDE DEF x
    <2> QED
        BY <1>1, <1>2, <1>3, DoneKeeps, FailKeeps
<1>5. run' = "success" => state'["end"] = "success"
    BY <1>4, EndStays DEF PipelineInv
<1>6. SilverChecked'
    <2>1. CASE Done(x)
        <3>1. SilverMeetsSuite /\ silverReq' = silverReq
            BY <1>1, <1>2, <2>1 DEF ValidateSilver, dataVars, tableVars, topicVars, Done, AttemptFails, FailForGood, Tables
        <3> QED
            BY <3>1 DEF SilverChecked, SilverMeetsSuite
    <2>2. CASE ~ Done(x)
        BY <1>4, <2>2 DEF SilverChecked
    <2> QED
        BY <2>1, <2>2
<1> QED
    BY <1>4, <1>5, <1>6, WatchedTasks, Kept DEF ValidateSilver, dataVars, tableVars, topicVars, PipelineInv, Watched

\* Silver is built over a bronze the gate has passed, and gold is not yet.
LEMMA BuildSilverOccupancyKeeps ==
    ASSUME PipelineInv, BuildSilverOccupancy
    PROVE  PipelineInv'
<1> DEFINE x == "build_silver_occupancy"
<1>1. x \in Tasks /\ state[x] = "running" /\ step[x] = 0
    BY Names DEF BuildSilverOccupancy, At
<1>2. Tables /\ Begun /\ PublishedIsValidated
    BY DEF PipelineInv
<1>3. Done(x) \/ AttemptFails(x) \/ FailForGood(x)
    BY DEF BuildSilverOccupancy, Delivering, Ingesting
<1>4. /\ Tables' /\ Begun' /\ run' = run /\ (Ran(x)' => Done(x))
      /\ \A t \in Tasks : state[t] = "success" => state'[t] = "success"
      /\ \A t \in Tasks \ {x} : Ran(t)' <=> Ran(t)
    <2> HIDE DEF x
    <2> QED
        BY <1>1, <1>2, <1>3, DoneKeeps, FailKeeps
<1>5. run' = "success" => state'["end"] = "success"
    BY <1>4, EndStays DEF PipelineInv
<1>6. Ran("validate_bronze") /\ ~ Ran("build_gold_zone_hourly")'
    BY <1>1, <1>2, <1>4, Chain, NothingBelow, Names DEF Live, Ran
<1>7. silverOcc' = EventsOf(bronzeOcc) /\ EventsOf(bronzeOcc) \in validated
    BY <1>6 DEF BuildSilverOccupancy, PipelineInv, BronzeChecked
<1>8. SilverBuilt' /\ GoldBuilt'
    BY <1>6, <1>7 DEF SilverBuilt, GoldBuilt, BuildSilverOccupancy, EventsOf
<1>9. PublishedIsValidated'
    BY <1>2, <1>7 DEF PublishedIsValidated, BuildSilverOccupancy, CountsOf
<1> QED
    BY <1>4, <1>5, <1>8, <1>9, WatchedTasks, Kept DEF BuildSilverOccupancy, tableVars, topicVars, PipelineInv, Watched

\* The merge leaves all of bronze in silver, and its gate has not looked yet.
LEMMA BuildSilverRequestsKeeps ==
    ASSUME PipelineInv, BuildSilverRequests
    PROVE  PipelineInv'
<1> DEFINE x == "build_silver_requests_merge"
<1>1. x \in Tasks /\ state[x] = "running" /\ step[x] = 0
    BY Names DEF BuildSilverRequests, At
<1>2. Tables /\ Begun /\ PublishedIsValidated
    BY DEF PipelineInv
<1>3. Done(x) \/ AttemptFails(x) \/ FailForGood(x)
    BY DEF BuildSilverRequests, Delivering, Ingesting
<1>4. /\ Tables' /\ Begun' /\ run' = run /\ (Ran(x)' => Done(x))
      /\ \A t \in Tasks : state[t] = "success" => state'[t] = "success"
      /\ \A t \in Tasks \ {x} : Ran(t)' <=> Ran(t)
    <2> HIDE DEF x
    <2> QED
        BY <1>1, <1>2, <1>3, DoneKeeps, FailKeeps
<1>5. run' = "success" => state'["end"] = "success"
    BY <1>4, EndStays DEF PipelineInv
<1>6. ~ Ran("validate_silver")'
    BY <1>1, <1>2, <1>4, NothingBelow, Names
<1>7. SilverMerged' /\ silverReq' \subseteq bronzeReq' /\ SilverChecked'
    BY <1>6 DEF SilverMerged, SilverChecked, PipelineInv, BuildSilverRequests
<1> QED
    BY <1>4, <1>5, <1>7, WatchedTasks, Kept DEF BuildSilverRequests, tableVars, topicVars, PipelineInv, Watched

\* Gold counts what silver holds.
LEMMA BuildGoldKeeps ==
    ASSUME PipelineInv, BuildGold
    PROVE  PipelineInv'
<1> DEFINE x == "build_gold_zone_hourly"
<1>1. x \in Tasks /\ state[x] = "running" /\ step[x] = 0
    BY Names DEF BuildGold, At
<1>2. Tables /\ Begun /\ PublishedIsValidated
    BY DEF PipelineInv
<1>3. Done(x) \/ AttemptFails(x) \/ FailForGood(x)
    BY DEF BuildGold, Delivering, Ingesting
<1>4. /\ Tables' /\ Begun' /\ run' = run /\ (Ran(x)' => Done(x))
      /\ \A t \in Tasks : state[t] = "success" => state'[t] = "success"
      /\ \A t \in Tasks \ {x} : Ran(t)' <=> Ran(t)
    <2> HIDE DEF x
    <2> QED
        BY <1>1, <1>2, <1>3, DoneKeeps, FailKeeps
<1>5. run' = "success" => state'["end"] = "success"
    BY <1>4, EndStays DEF PipelineInv
<1>6. gold' = CountsOf(silverOcc) /\ silverOcc' = silverOcc
    BY DEF BuildGold
<1>7. GoldBuilt' /\ PublishedIsValidated'
    BY <1>2, <1>6 DEF GoldBuilt, PublishedIsValidated, BuildGold, tableVars, topicVars, CountsOf
<1> QED
    BY <1>4, <1>5, <1>7, WatchedTasks, Kept DEF BuildGold, tableVars, topicVars, PipelineInv, Watched

\* The collection is emptied, and the refresh has not run.
LEMMA RecreateCollectionKeeps ==
    ASSUME PipelineInv, RecreateCollection
    PROVE  PipelineInv'
<1> DEFINE x == "refresh_rag_index"
<1>1. x \in Tasks /\ state[x] = "running" /\ step[x] = 0
    BY Names DEF RecreateCollection, At
<1>2. Tables /\ Begun /\ PublishedIsValidated
    BY DEF PipelineInv
<1>3. Done(x) \/ AttemptFails(x) \/ FailForGood(x)
    BY DEF RecreateCollection, Delivering, Ingesting
<1>4. /\ Tables' /\ Begun' /\ run' = run /\ (Ran(x)' => Done(x))
      /\ \A t \in Tasks : state[t] = "success" => state'[t] = "success"
      /\ \A t \in Tasks \ {x} : Ran(t)' <=> Ran(t)
    <2> HIDE DEF x
    <2> QED
        BY <1>1, <1>2, <1>3, DoneKeeps, FailKeeps
<1>5. run' = "success" => state'["end"] = "success"
    BY <1>4, EndStays DEF PipelineInv
<1>6. ~ Ran(x)'
    BY <1>1, <1>2, Names DEF Ran, RecreateCollection, Done, Tables
<1>7. IndexBuilt'
    BY <1>6 DEF IndexBuilt
<1> QED
    BY <1>4, <1>5, <1>7, WatchedTasks, Kept DEF RecreateCollection, tableVars, topicVars, PipelineInv, Watched

\* The collection is filled.
LEMMA UpsertChunksKeeps ==
    ASSUME PipelineInv, UpsertChunks
    PROVE  PipelineInv'
<1> DEFINE x == "refresh_rag_index"
<1>1. x \in Tasks /\ state[x] = "running" /\ step[x] = 1
    BY Names DEF UpsertChunks, At
<1>2. Tables /\ Begun /\ PublishedIsValidated
    BY DEF PipelineInv
<1>3. Done(x) \/ AttemptFails(x) \/ FailForGood(x)
    BY DEF UpsertChunks, Delivering, Ingesting
<1>4. /\ Tables' /\ Begun' /\ run' = run /\ (Ran(x)' => Done(x))
      /\ \A t \in Tasks : state[t] = "success" => state'[t] = "success"
      /\ \A t \in Tasks \ {x} : Ran(t)' <=> Ran(t)
    <2> HIDE DEF x
    <2> QED
        BY <1>1, <1>2, <1>3, DoneKeeps, FailKeeps
<1>5. run' = "success" => state'["end"] = "success"
    BY <1>4, EndStays DEF PipelineInv
<1>6. IndexBuilt'
    BY DEF IndexBuilt, UpsertChunks
<1> QED
    BY <1>4, <1>5, <1>6, WatchedTasks, Kept DEF UpsertChunks, tableVars, topicVars, PipelineInv, Watched

-----------------------------------------------------------------------------
\* Every step keeps the invariant.
LEMMA StepHolds == PipelineInv /\ [Next]_vars => PipelineInv'
<1> SUFFICES ASSUME PipelineInv, [Next]_vars
             PROVE  PipelineInv'
    OBVIOUS
<1>1. CASE Work
    BY <1>1, SensorPokesKeeps, SensorTimesOutKeeps, EmitOccupancyKeeps, EmitRequestsKeeps,
       IngestOccupancyKeeps, IngestRequestsKeeps, ValidateBronzeKeeps, ValidateSilverKeeps,
       BuildSilverOccupancyKeeps, BuildSilverRequestsKeeps, BuildGoldKeeps,
       RecreateCollectionKeeps, UpsertChunksKeeps, SmokeTestKeeps
    DEF Work
<1>2. CASE SopArrives
    BY <1>2, Kept DEF SopArrives, dagVars, topicVars, tableVars, PipelineInv, Tables, Begun, Live, Ran
<1>3. CASE UNCHANGED vars
    BY <1>3, Kept DEF vars, dagVars, dataVars, topicVars, tableVars, PipelineInv, Tables, Begun, Live, Ran
<1> QED
    BY <1>1, <1>2, <1>3, TriggerKeeps, MoveKeeps, KillKeeps DEF Next

\* What a task has done lasts until the next run of the DAG.
THEOREM PipelineInvariant == Spec => []PipelineInv
<1>1. Init => PipelineInv
    BY InitHolds
<1>2. PipelineInv /\ [Next]_vars => PipelineInv'
    BY StepHolds
<1> QED
    BY <1>1, <1>2, PTL DEF Spec

\* Silver holds and gold counts only tables that validate_bronze has passed.
THEOREM OnlyValidatedIsPublished == Spec => []PublishedIsValidated
<1>1. PipelineInv => PublishedIsValidated
    BY DEF PipelineInv
<1> QED
    BY PipelineInvariant, <1>1, PTL

\* A run that has succeeded leaves silver, gold and the index up to date.
THEOREM SuccessLeavesAllUpToDate == Spec => []SuccessIsUpToDate
<1>1. ASSUME PipelineInv, run = "success"
      PROVE  /\ silverOcc = EventsOf(bronzeOcc) /\ gold = CountsOf(silverOcc)
             /\ silverReq = bronzeReq /\ index = "full"
    <2>1. Begun /\ state["end"] = "success"
        BY <1>1 DEF PipelineInv
    <2>2. state["refresh_rag_index"] = "success" /\ state["build_gold_zone_hourly"] = "success"
        BY <2>1, Chain DEF Live
    <2>3. state["build_silver_occupancy"] = "success" /\ state["build_silver_requests_merge"] = "success"
        BY <2>1, <2>2, Chain DEF Live
    <2> QED
        BY <1>1, <2>2, <2>3 DEF PipelineInv, Ran, SilverBuilt, SilverMerged, GoldBuilt, IndexBuilt
<1>2. PipelineInv => SuccessIsUpToDate
    BY <1>1 DEF SuccessIsUpToDate
<1> QED
    BY PipelineInvariant, <1>2, PTL

\* Gold and the index change only while both tables the gates look at meet their suites.
THEOREM PublishesOnlyWhileSound == Spec => PublishOnlyWhileSound
<1>1. ASSUME PipelineInv, [Next]_vars, gold' # gold \/ index' # index
      PROVE  BronzeMeetsSuite /\ SilverMeetsSuite
    <2>1. Begun
        BY <1>1 DEF PipelineInv
    <2>2. BuildGold \/ RecreateCollection \/ UpsertChunks
        BY <1>1 DEF Next, Work, Trigger, Move, Kill, SopArrives, vars, dataVars, tableVars, topicVars,
           SensorPokes, SensorTimesOut, EmitOccupancy, EmitRequests, IngestOccupancy, IngestRequests,
           ValidateBronze, ValidateSilver, BuildSilverOccupancy, BuildSilverRequests, SmokeTest
    <2>3. Live("build_gold_zone_hourly") \/ Live("refresh_rag_index")
        BY <2>2 DEF BuildGold, RecreateCollection, UpsertChunks, At, Live
    <2>4. Live("build_gold_zone_hourly")
        BY <2>1, <2>3, Chain DEF Live
    <2>5. state["validate_silver"] = "success"
        BY <2>1, <2>4, Chain
    <2>6. state["build_silver_occupancy"] = "success"
        BY <2>1, <2>5, Chain DEF Live
    <2>7. state["validate_bronze"] = "success"
        BY <2>1, <2>6, Chain DEF Live
    <2> QED
        BY <1>1, <2>5, <2>7 DEF PipelineInv, Ran, BronzeChecked, SilverChecked
<1>2. PipelineInv /\ [Next]_vars =>
          [gold' # gold \/ index' # index => BronzeMeetsSuite /\ SilverMeetsSuite]_vars
    BY <1>1
<1> QED
    BY PipelineInvariant, <1>2, PTL DEF Spec, PublishOnlyWhileSound

-----------------------------------------------------------------------------
(***************************************************************************)
(* The lineage stream.                                                     *)
(***************************************************************************)
AllRuns    == Nat \X Tasks \X Nat
EventTypes == {"START", "COMPLETE", "FAIL"}
Places     == {"start", "body", "fail", "over"}

Types ==
    /\ runs \in Nat
    /\ state \in [Tasks -> {"none", "running", "up_for_retry"} \cup Finished]
    /\ tries \in [Tasks -> Nat]
    /\ reported \subseteq Nat \X Tasks
    /\ place \in [Instrumented -> Places]
    /\ events \subseteq AllRuns \X EventTypes
    /\ cut \subseteq AllRuns

\* Only the present run of the DAG has tasks at work, in their first attempt or a later one.
AtWork == \A t \in Tasks : state[t] = "running" => run = "running" /\ tries[t] # 0

\* A task is not begun before the tasks above it have succeeded.
BegunInOrder ==
    \A t \in Tasks : tries[t] # 0 => \A u \in Upstream(t) : state[u] = "success"

\* Events are of attempts of stages that have begun, or of callbacks that were due; a callback
\* has no COMPLETE.
NotAhead(r) ==
    \A type \in EventTypes : Emitted(r, type) =>
        /\ r[3] # 0 => /\ r[2] \in Instrumented
                       /\ r[1] <= runs /\ (r[1] = runs => r[3] <= tries[r[2]])
        /\ r[3] = 0 => <<r[1], r[2]>> \in reported /\ type # "COMPLETE"

\* How much of its lineage the present attempt of a stage has written.
Written(t) ==
    LET S == Emitted(AttemptOf(t), "START")
        C == Emitted(AttemptOf(t), "COMPLETE")
        F == Emitted(AttemptOf(t), "FAIL")
    IN  /\ state[t] # "running" => place[t] = "start"
        /\ AtPlace(t, "start") => ~ S /\ ~ C /\ ~ F
        /\ AtPlace(t, "body") \/ AtPlace(t, "fail") => S /\ ~ C /\ ~ F
        /\ AtPlace(t, "over") => S /\ C /\ ~ F
        /\ state[t] = "success" => C

Closed(r) ==
    /\ Emitted(r, "COMPLETE") \/ Emitted(r, "FAIL") => Emitted(r, "START")
    /\ ~ (Emitted(r, "COMPLETE") /\ Emitted(r, "FAIL"))
    /\ Emitted(r, "START") /\ ~ Emitted(r, "COMPLETE") /\ ~ Emitted(r, "FAIL") =>
          InProgress(r) \/ r \in cut

LineageInv ==
    /\ Types
    /\ AtWork
    /\ BegunInOrder
    /\ \A r \in AllRuns : NotAhead(r)
    /\ \A t \in Instrumented : Written(t)
    /\ \A r \in AllRuns : Closed(r)

-----------------------------------------------------------------------------
\* The stages are tasks of the DAG, and none is an EmptyOperator.
LEMMA StagesAreTasks == Instrumented \subseteq Tasks /\ Instrumented \cap EmptyTasks = {}
BY DEF Instrumented, Tasks, Edges, EmptyTasks

\* What a task reads from are tasks.
LEMMA UpstreamAreTasks == \A t \in Tasks : Upstream(t) \subseteq Tasks
BY DEF Upstream

\* The invariant holds before the first DAG run.
LEMMA LineageInitHolds == LineageInit => LineageInv
BY StagesAreTasks DEF LineageInit, DagInit, LineageInv, Types, AtWork, BegunInOrder, NotAhead,
   Written, Closed,
   Emitted, AtPlace, Places, AllRuns, Finished

\* A lineage run is a DAG run, a task and an attempt.
LEMMA Parts ==
    ASSUME NEW r \in AllRuns
    PROVE  r[1] \in Nat /\ r[2] \in Tasks /\ r[3] \in Nat
BY DEF AllRuns

\* Two lineage runs of the same DAG run, task and attempt are one.
LEMMA Told ==
    ASSUME NEW r \in AllRuns, NEW n, NEW t, NEW k
    PROVE  r = <<n, t, k>> <=> r[1] = n /\ r[2] = t /\ r[3] = k
BY DEF AllRuns

\* Where no event is written, and numbers only rise.
LEMMA NotAheadKept ==
    ASSUME Types, Types', events' = events, reported \subseteq reported', runs <= runs',
           runs' = runs => \A t \in Tasks : tries[t] <= tries'[t],
           NEW r \in AllRuns, NotAhead(r)
    PROVE  NotAhead(r)'
<1>1. /\ r[1] \in Nat /\ r[2] \in Tasks /\ r[3] \in Nat
      /\ tries[r[2]] \in Nat /\ tries'[r[2]] \in Nat /\ runs \in Nat /\ runs' \in Nat
    BY Parts DEF Types
<1> SUFFICES ASSUME NEW type \in EventTypes, Emitted(r, type)'
             PROVE  /\ r[3] # 0 => /\ r[2] \in Instrumented
                                   /\ r[1] <= runs' /\ (r[1] = runs' => r[3] <= tries'[r[2]])
                    /\ r[3] = 0 => <<r[1], r[2]>> \in reported' /\ type # "COMPLETE"
    BY DEF NotAhead
<1>2. /\ r[3] # 0 => /\ r[2] \in Instrumented
                     /\ r[1] <= runs /\ (r[1] = runs => r[3] <= tries[r[2]])
      /\ r[3] = 0 => <<r[1], r[2]>> \in reported /\ type # "COMPLETE"
    BY DEF NotAhead, Emitted
<1> HIDE DEF NotAhead, Types
<1>3. CASE runs' = runs
    BY <1>1, <1>2, <1>3
<1>4. CASE runs' # runs
    BY <1>1, <1>2, <1>4
<1> QED
    BY <1>3, <1>4

\* An attempt that has not begun has no event.
LEMMA Fresh ==
    ASSUME LineageInv, NEW t \in Tasks, NEW k \in Nat, k > tries[t], NEW type \in EventTypes
    PROVE  ~ Emitted(<<runs, t, k>>, type)
<1>1. <<runs, t, k>> \in AllRuns /\ runs \in Nat /\ tries[t] \in Nat
    BY DEF LineageInv, Types, AllRuns
<1>2. NotAhead(<<runs, t, k>>)
    BY <1>1 DEF LineageInv
<1> QED
    BY <1>1, <1>2 DEF NotAhead

\* The attempt that a stage is at.
LEMMA Present ==
    ASSUME LineageInv, NEW t \in Instrumented, state[t] = "running"
    PROVE  /\ t \in Tasks /\ tries[t] \in Nat /\ tries[t] # 0 /\ runs \in Nat
           /\ AttemptOf(t) \in AllRuns /\ AttemptOf(t) = <<runs, t, tries[t]>>
BY StagesAreTasks DEF LineageInv, Types, AtWork, AttemptOf, AllRuns

\* A lineage run stays closed where its events stay and its process goes on or is cut short.
LEMMA ClosedKept ==
    ASSUME NEW r \in AllRuns, Closed(r), \A type \in EventTypes : Emitted(r,
       type)' <=> Emitted(r, type),
           r \in cut => r \in cut', InProgress(r) => InProgress(r)' \/ r \in cut'
    PROVE  Closed(r)'
BY DEF Closed, EventTypes

\* What happens to a task disturbs no lineage run but that of its present attempt.
LEMMA OthersGoOn ==
    ASSUME Types, NEW t \in Tasks, \A u \in Tasks \ {t} : state'[u] = state[u],
           tries' = tries, runs' = runs, reported \subseteq reported',
           NEW r \in AllRuns, r # <<runs, t, tries[t]>>, InProgress(r)
    PROVE  InProgress(r)'
BY Parts, Told DEF InProgress

-----------------------------------------------------------------------------
\* A DAG run is triggered: none of its attempts has an event yet.
LEMMA LineageTriggerKeeps ==
    ASSUME LineageInv, TriggerRun
    PROVE  LineageInv'
<1> USE DEF LineageInv, TriggerRun, Triggered, emitVars
<1>1. Types'
    BY StagesAreTasks, UpstreamAreTasks DEF Types, AllRuns, EventTypes, Places, Finished
<1>2. AtWork'
    BY StagesAreTasks, UpstreamAreTasks DEF AtWork, Types
<1>3. BegunInOrder'
    BY StagesAreTasks, UpstreamAreTasks DEF BegunInOrder, AtWork, Types
<1>4. ASSUME NEW r \in AllRuns
      PROVE  NotAhead(r)'
    BY <1>1, NotAheadKept DEF Types
<1>5. ASSUME NEW u \in Instrumented
      PROVE  Written(u)'
    BY StagesAreTasks DEF Written, Emitted, AtPlace, AttemptOf, NotAhead, AtWork, Types,
       AllRuns, EventTypes, Places
<1>6. ASSUME NEW r \in AllRuns
      PROVE  Closed(r)'
    BY StagesAreTasks, Parts, Told DEF Closed, Emitted, InProgress, Written, AtPlace,
       AttemptOf, NotAhead, AtWork, Types, EventTypes, Places
<1> QED
    BY <1>1, <1>2, <1>3, <1>4, <1>5, <1>6

\* An attempt begins: its number is new.
LEMMA BeginKeeps ==
    ASSUME LineageInv, NEW t \in Tasks, BeginTask(t)
    PROVE  LineageInv'
<1> USE DEF LineageInv, BeginTask, Begin, Ready, emitVars
<1>1. Types'
    BY StagesAreTasks, UpstreamAreTasks DEF Types, AllRuns, EventTypes, Places, Finished
<1>2. AtWork'
    BY StagesAreTasks, UpstreamAreTasks DEF AtWork, Types
<1>3. BegunInOrder'
    BY StagesAreTasks, UpstreamAreTasks DEF BegunInOrder, AtWork, Types
<1>4. ASSUME NEW r \in AllRuns
      PROVE  NotAhead(r)'
    BY <1>1, NotAheadKept DEF Types
<1>5. ASSUME NEW u \in Instrumented
      PROVE  Written(u)'
    <2>1. u \in Tasks /\ Written(u) /\ tries[u] \in Nat
        BY StagesAreTasks DEF Types
    <2>2. CASE u # t
        BY <2>1, <2>2 DEF Written, Emitted, AtPlace, AttemptOf, Types
    <2>3. CASE u = t
        <3>1. place'[u] = "start" /\ state'[u] = "running" /\ AttemptOf(u)' = <<runs, t,
           tries[t] + 1>>
            BY <2>1, <2>3 DEF Written, AttemptOf, Types
        <3>2. \A type \in EventTypes : ~ Emitted(<<runs, t, tries[t] + 1>>, type)
            BY <2>1, <2>3, Fresh DEF Types
        <3> QED
            BY <3>1, <3>2 DEF Written, AtPlace, Emitted, EventTypes
    <2> QED
        BY <2>2, <2>3
<1>6. ASSUME NEW r \in AllRuns
      PROVE  Closed(r)'
    BY StagesAreTasks, Parts, Told DEF Closed, Emitted, InProgress, Written, AtPlace,
       AttemptOf, NotAhead, AtWork, Types, EventTypes, Places
<1> QED
    BY <1>1, <1>2, <1>3, <1>4, <1>5, <1>6

\* A command exits with 0.
LEMMA ExitsWellKeeps ==
    ASSUME LineageInv, NEW t \in Tasks, ExitsWell(t)
    PROVE  LineageInv'
<1> USE DEF LineageInv, ExitsWell, Succeed, Rewound
<1>1. Types'
    BY StagesAreTasks, UpstreamAreTasks DEF Types, AllRuns, EventTypes, Places, Finished
<1>2. AtWork'
    BY StagesAreTasks, UpstreamAreTasks DEF AtWork, Types
<1>3. BegunInOrder'
    BY StagesAreTasks, UpstreamAreTasks DEF BegunInOrder, AtWork, Types
<1>4. ASSUME NEW r \in AllRuns
      PROVE  NotAhead(r)'
    BY <1>1, NotAheadKept DEF Types
<1>5. ASSUME NEW u \in Instrumented
      PROVE  Written(u)'
    BY StagesAreTasks DEF Written, Emitted, AtPlace, AttemptOf, NotAhead, AtWork, Types,
       AllRuns, EventTypes, Places
<1>6. ASSUME NEW r \in AllRuns
      PROVE  Closed(r)'
    <2>1. CASE r # <<runs, t, tries[t]>>
        BY <2>1, OthersGoOn, ClosedKept DEF Types, Emitted
    <2>2. CASE r = <<runs, t, tries[t]>> /\ t \in Instrumented
        BY <2>2 DEF Written, AtPlace, AttemptOf, Closed, Emitted
    <2>3. CASE r = <<runs, t, tries[t]>> /\ t \notin Instrumented
        <3>1. \A type \in EventTypes : ~ Emitted(r, type)
            BY <2>3, Parts, Told DEF NotAhead, AtWork
        <3> QED
            BY <3>1 DEF Closed, Emitted, EventTypes
    <2> QED
        BY <2>1, <2>2, <2>3
<1> QED
    BY <1>1, <1>2, <1>3, <1>4, <1>5, <1>6

\* An EmptyOperator passes.
LEMMA PassEmptyKeeps ==
    ASSUME LineageInv, NEW t \in Tasks, PassEmpty(t), UNCHANGED emitVars
    PROVE  LineageInv'
<1> USE DEF LineageInv, PassEmpty, Ready, emitVars
<1>1. Types'
    BY StagesAreTasks, UpstreamAreTasks DEF Types, AllRuns, EventTypes, Places, Finished
<1>2. AtWork'
    BY StagesAreTasks, UpstreamAreTasks DEF AtWork, Types
<1>3. BegunInOrder'
    BY StagesAreTasks, UpstreamAreTasks DEF BegunInOrder, AtWork, Types
<1>4. ASSUME NEW r \in AllRuns
      PROVE  NotAhead(r)'
    BY <1>1, NotAheadKept DEF Types
<1>5. ASSUME NEW u \in Instrumented
      PROVE  Written(u)'
    BY StagesAreTasks DEF Written, Emitted, AtPlace, AttemptOf, NotAhead, AtWork, Types,
       AllRuns, EventTypes, Places
<1>6. ASSUME NEW r \in AllRuns
      PROVE  Closed(r)'
    BY StagesAreTasks, Parts, Told DEF Closed, Emitted, InProgress, Written, AtPlace,
       AttemptOf, NotAhead, AtWork, Types, EventTypes, Places
<1> QED
    BY <1>1, <1>2, <1>3, <1>4, <1>5, <1>6

\* A task fails with one above it.
LEMMA FailFromUpstreamKeeps ==
    ASSUME LineageInv, NEW t \in Tasks, FailFromUpstream(t), UNCHANGED emitVars
    PROVE  LineageInv'
<1> USE DEF LineageInv, FailFromUpstream, emitVars
<1>1. Types'
    BY StagesAreTasks, UpstreamAreTasks DEF Types, AllRuns, EventTypes, Places, Finished
<1>2. AtWork'
    BY StagesAreTasks, UpstreamAreTasks DEF AtWork, Types
<1>3. BegunInOrder'
    BY StagesAreTasks, UpstreamAreTasks DEF BegunInOrder, AtWork, Types
<1>4. ASSUME NEW r \in AllRuns
      PROVE  NotAhead(r)'
    BY <1>1, NotAheadKept DEF Types
<1>5. ASSUME NEW u \in Instrumented
      PROVE  Written(u)'
    BY StagesAreTasks DEF Written, Emitted, AtPlace, AttemptOf, NotAhead, AtWork, Types,
       AllRuns, EventTypes, Places
<1>6. ASSUME NEW r \in AllRuns
      PROVE  Closed(r)'
    BY StagesAreTasks, Parts, Told DEF Closed, Emitted, InProgress, Written, AtPlace,
       AttemptOf, NotAhead, AtWork, Types, EventTypes, Places
<1> QED
    BY <1>1, <1>2, <1>3, <1>4, <1>5, <1>6

\* A DAG run ends: nothing is at work.
LEMMA RunEndsKeeps ==
    ASSUME LineageInv, RunEnds, UNCHANGED emitVars
    PROVE  LineageInv'
<1> USE DEF LineageInv, RunEnds, emitVars, Finished
<1>1. Types'
    BY StagesAreTasks, UpstreamAreTasks DEF Types, AllRuns, EventTypes, Places, Finished
<1>2. AtWork'
    BY StagesAreTasks, UpstreamAreTasks DEF AtWork, Types
<1>3. BegunInOrder'
    BY StagesAreTasks, UpstreamAreTasks DEF BegunInOrder, AtWork, Types
<1>4. ASSUME NEW r \in AllRuns
      PROVE  NotAhead(r)'
    BY <1>1, NotAheadKept DEF Types
<1>5. ASSUME NEW u \in Instrumented
      PROVE  Written(u)'
    BY StagesAreTasks DEF Written, Emitted, AtPlace, AttemptOf, NotAhead, AtWork, Types,
       AllRuns, EventTypes, Places
<1>6. ASSUME NEW r \in AllRuns
      PROVE  Closed(r)'
    BY StagesAreTasks, Parts, Told DEF Closed, Emitted, InProgress, Written, AtPlace,
       AttemptOf, NotAhead, AtWork, Types, EventTypes, Places
<1> QED
    BY <1>1, <1>2, <1>3, <1>4, <1>5, <1>6

\* An effect of a task on the data.
LEMMA EffectKeeps ==
    ASSUME LineageInv, NEW t \in Tasks,
       PlainEffect(t) \/ (t \in Instrumented /\ StageEffect(t))
    PROVE  LineageInv'
<1> USE DEF LineageInv, PlainEffect, StageEffect, Done, emitVars
<1>1. Types'
    BY StagesAreTasks, UpstreamAreTasks DEF Types, AllRuns, EventTypes, Places, Finished
<1>2. AtWork'
    BY StagesAreTasks, UpstreamAreTasks DEF AtWork, Types
<1>3. BegunInOrder'
    BY StagesAreTasks, UpstreamAreTasks DEF BegunInOrder, AtWork, Types
<1>4. ASSUME NEW r \in AllRuns
      PROVE  NotAhead(r)'
    BY <1>1, NotAheadKept DEF Types
<1>5. ASSUME NEW u \in Instrumented
      PROVE  Written(u)'
    BY StagesAreTasks DEF Written, Emitted, AtPlace, AttemptOf, NotAhead, AtWork, Types,
       AllRuns, EventTypes, Places
<1>6. ASSUME NEW r \in AllRuns
      PROVE  Closed(r)'
    BY StagesAreTasks, Parts, Told DEF Closed, Emitted, InProgress, Written, AtPlace,
       AttemptOf, NotAhead, AtWork, Types, EventTypes, Places
<1> QED
    BY <1>1, <1>2, <1>3, <1>4, <1>5, <1>6

\* START is written.
LEMMA EmitStartKeeps ==
    ASSUME LineageInv, NEW t \in Instrumented, EmitStart(t)
    PROVE  LineageInv'
<1> USE DEF LineageInv, EmitStart, Emits, AttemptOf, dagVars
<1>1. Types'
    BY StagesAreTasks, UpstreamAreTasks DEF Types, AllRuns, EventTypes, Places, Finished
<1>2. AtWork'
    BY StagesAreTasks, UpstreamAreTasks DEF AtWork, Types
<1>3. BegunInOrder'
    BY StagesAreTasks, UpstreamAreTasks DEF BegunInOrder, AtWork, Types
<1>4. ASSUME NEW r \in AllRuns
      PROVE  NotAhead(r)'
    <2>1. CASE r # AttemptOf(t)
        BY <2>1 DEF NotAhead, Emitted
    <2>2. CASE r = AttemptOf(t)
        <3>1. /\ r[1] = runs /\ r[2] = t /\ r[3] = tries[t]
              /\ tries[t] # 0 /\ tries[t] \in Nat /\ runs \in Nat
            BY <2>2, Present, Told DEF AtPlace
        <3> QED
            BY <3>1 DEF NotAhead
    <2> QED
        BY <2>1, <2>2
<1>5. ASSUME NEW u \in Instrumented
      PROVE  Written(u)'
    BY StagesAreTasks DEF Written, Emitted, AtPlace, AttemptOf, NotAhead, AtWork, Types,
       AllRuns, EventTypes, Places
<1>6. ASSUME NEW r \in AllRuns
      PROVE  Closed(r)'
    BY StagesAreTasks, Parts, Told DEF Closed, Emitted, InProgress, Written, AtPlace,
       AttemptOf, NotAhead, AtWork, Types, EventTypes, Places
<1> QED
    BY <1>1, <1>2, <1>3, <1>4, <1>5, <1>6

\* The stage raises.
LEMMA BodyRaisesKeeps ==
    ASSUME LineageInv, NEW t \in Instrumented, BodyRaises(t)
    PROVE  LineageInv'
<1> USE DEF LineageInv, BodyRaises
<1>1. Types'
    BY StagesAreTasks, UpstreamAreTasks DEF Types, AllRuns, EventTypes, Places, Finished
<1>2. AtWork'
    BY StagesAreTasks, UpstreamAreTasks DEF AtWork, Types
<1>3. BegunInOrder'
    BY StagesAreTasks, UpstreamAreTasks DEF BegunInOrder, AtWork, Types
<1>4. ASSUME NEW r \in AllRuns
      PROVE  NotAhead(r)'
    BY <1>1, NotAheadKept DEF Types
<1>5. ASSUME NEW u \in Instrumented
      PROVE  Written(u)'
    BY StagesAreTasks DEF Written, Emitted, AtPlace, AttemptOf, NotAhead, AtWork, Types,
       AllRuns, EventTypes, Places
<1>6. ASSUME NEW r \in AllRuns
      PROVE  Closed(r)'
    BY StagesAreTasks, Parts, Told DEF Closed, Emitted, InProgress, Written, AtPlace,
       AttemptOf, NotAhead, AtWork, Types, EventTypes, Places
<1> QED
    BY <1>1, <1>2, <1>3, <1>4, <1>5, <1>6

\* COMPLETE is written.
LEMMA EmitCompleteKeeps ==
    ASSUME LineageInv, NEW t \in Instrumented, EmitComplete(t)
    PROVE  LineageInv'
<1> USE DEF LineageInv, EmitComplete, Emits, AttemptOf, dagVars
<1>1. Types'
    BY StagesAreTasks, UpstreamAreTasks DEF Types, AllRuns, EventTypes, Places, Finished
<1>2. AtWork'
    BY StagesAreTasks, UpstreamAreTasks DEF AtWork, Types
<1>3. BegunInOrder'
    BY StagesAreTasks, UpstreamAreTasks DEF BegunInOrder, AtWork, Types
<1>4. ASSUME NEW r \in AllRuns
      PROVE  NotAhead(r)'
    <2>1. CASE r # AttemptOf(t)
        BY <2>1 DEF NotAhead, Emitted
    <2>2. CASE r = AttemptOf(t)
        <3>1. /\ r[1] = runs /\ r[2] = t /\ r[3] = tries[t]
              /\ tries[t] # 0 /\ tries[t] \in Nat /\ runs \in Nat
            BY <2>2, Present, Told DEF AtPlace
        <3> QED
            BY <3>1 DEF NotAhead
    <2> QED
        BY <2>1, <2>2
<1>5. ASSUME NEW u \in Instrumented
      PROVE  Written(u)'
    BY StagesAreTasks DEF Written, Emitted, AtPlace, AttemptOf, NotAhead, AtWork, Types,
       AllRuns, EventTypes, Places
<1>6. ASSUME NEW r \in AllRuns
      PROVE  Closed(r)'
    BY StagesAreTasks, Parts, Told DEF Closed, Emitted, InProgress, Written, AtPlace,
       AttemptOf, NotAhead, AtWork, Types, EventTypes, Places
<1> QED
    BY <1>1, <1>2, <1>3, <1>4, <1>5, <1>6

\* FAIL is written, and the attempt has failed.
LEMMA EmitFailKeeps ==
    ASSUME LineageInv, NEW t \in Instrumented, EmitFail(t)
    PROVE  LineageInv'
<1> USE DEF LineageInv, EmitFail, Emits, AttemptOf, AttemptFails, FailForGood, Rewound
<1>1. Types'
    BY StagesAreTasks, UpstreamAreTasks DEF Types, AllRuns, EventTypes, Places, Finished
<1>2. AtWork'
    BY StagesAreTasks, UpstreamAreTasks DEF AtWork, Types
<1>3. BegunInOrder'
    <2>1. \A u \in Tasks : state[u] = "success" => state'[u] = "success"
        BY StagesAreTasks DEF Types, AtPlace
    <2> QED
        BY <2>1, UpstreamAreTasks DEF BegunInOrder
<1>4. ASSUME NEW r \in AllRuns
      PROVE  NotAhead(r)'
    <2>1. CASE r # AttemptOf(t)
        BY <2>1 DEF NotAhead, Emitted
    <2>2. CASE r = AttemptOf(t)
        <3>1. /\ r[1] = runs /\ r[2] = t /\ r[3] = tries[t]
              /\ tries[t] # 0 /\ tries[t] \in Nat /\ runs \in Nat
            BY <2>2, Present, Told DEF AtPlace
        <3> QED
            BY <3>1 DEF NotAhead
    <2> QED
        BY <2>1, <2>2
<1>5. ASSUME NEW u \in Instrumented
      PROVE  Written(u)'
    BY StagesAreTasks DEF Written, Emitted, AtPlace, AttemptOf, NotAhead, AtWork, Types,
       AllRuns, EventTypes, Places
<1>6. ASSUME NEW r \in AllRuns
      PROVE  Closed(r)'
    <2>1. CASE r # <<runs, t, tries[t]>>
        BY <2>1, StagesAreTasks, OthersGoOn, ClosedKept DEF Types, Emitted
    <2>2. CASE r = <<runs, t, tries[t]>>
        BY <2>2 DEF Written, AtPlace, AttemptOf, Closed, Emitted
    <2> QED
        BY <2>1, <2>2
<1> QED
    BY <1>1, <1>2, <1>3, <1>4, <1>5, <1>6

\* An event is refused, and the attempt has failed.
LEMMA EmitRefusedKeeps ==
    ASSUME LineageInv, NEW t \in Instrumented, EmitRefused(t)
    PROVE  LineageInv'
<1> USE DEF LineageInv, EmitRefused, AttemptOf, AttemptFails, FailForGood, Rewound
<1>1. Types'
    BY StagesAreTasks, UpstreamAreTasks DEF Types, AllRuns, EventTypes, Places, Finished
<1>2. AtWork'
    BY StagesAreTasks, UpstreamAreTasks DEF AtWork, Types
<1>3. BegunInOrder'
    BY StagesAreTasks, UpstreamAreTasks DEF BegunInOrder, AtWork, Types
<1>4. ASSUME NEW r \in AllRuns
      PROVE  NotAhead(r)'
    BY <1>1, NotAheadKept DEF Types
<1>5. ASSUME NEW u \in Instrumented
      PROVE  Written(u)'
    BY StagesAreTasks DEF Written, Emitted, AtPlace, AttemptOf, NotAhead, AtWork, Types,
       AllRuns, EventTypes, Places
<1>6. ASSUME NEW r \in AllRuns
      PROVE  Closed(r)'
    <2>1. CASE r # <<runs, t, tries[t]>>
        BY <2>1, StagesAreTasks, OthersGoOn, ClosedKept DEF Types, Emitted
    <2>2. CASE r = <<runs, t, tries[t]>>
        BY <2>2, ClosedKept DEF Emitted
    <2> QED
        BY <2>1, <2>2
<1> QED
    BY <1>1, <1>2, <1>3, <1>4, <1>5, <1>6

\* A command is killed, and the attempt has failed.
LEMMA KillCommandKeeps ==
    ASSUME LineageInv, NEW t \in Tasks, KillCommand(t)
    PROVE  LineageInv'
<1> USE DEF LineageInv, KillCommand, AttemptOf, Killed, AttemptFails, FailForGood,
   Rewound
<1>1. Types'
    BY StagesAreTasks, UpstreamAreTasks DEF Types, AllRuns, EventTypes, Places, Finished
<1>2. AtWork'
    BY StagesAreTasks, UpstreamAreTasks DEF AtWork, Types
<1>3. BegunInOrder'
    BY StagesAreTasks, UpstreamAreTasks DEF BegunInOrder, AtWork, Types
<1>4. ASSUME NEW r \in AllRuns
      PROVE  NotAhead(r)'
    BY <1>1, NotAheadKept DEF Types
<1>5. ASSUME NEW u \in Instrumented
      PROVE  Written(u)'
    BY StagesAreTasks DEF Written, Emitted, AtPlace, AttemptOf, NotAhead, AtWork, Types,
       AllRuns, EventTypes, Places
<1>6. ASSUME NEW r \in AllRuns
      PROVE  Closed(r)'
    <2>1. CASE r # <<runs, t, tries[t]>>
        BY <2>1, StagesAreTasks, OthersGoOn, ClosedKept DEF Types, Emitted
    <2>2. CASE r = <<runs, t, tries[t]>>
        BY <2>2, ClosedKept DEF Emitted
    <2> QED
        BY <2>1, <2>2
<1> QED
    BY <1>1, <1>2, <1>3, <1>4, <1>5, <1>6

\* The callback writes its START.
LEMMA CallbackStartKeeps ==
    ASSUME LineageInv, NEW f \in reported, CallbackStart(f)
    PROVE  LineageInv'
<1> USE DEF LineageInv, CallbackStart, CallbackOf, Emits, Emitted, dagVars
<1>1. Types'
    BY StagesAreTasks, UpstreamAreTasks DEF Types, AllRuns, EventTypes, Places, Finished
<1>2. AtWork'
    BY StagesAreTasks, UpstreamAreTasks DEF AtWork, Types
<1>3. BegunInOrder'
    BY StagesAreTasks, UpstreamAreTasks DEF BegunInOrder, AtWork, Types
<1>4. ASSUME NEW r \in AllRuns
      PROVE  NotAhead(r)'
    <2>1. CASE r # CallbackOf(f)
        BY <2>1 DEF NotAhead, Emitted
    <2>2. CASE r = CallbackOf(f)
        <3>1. r[3] = 0 /\ <<r[1], r[2]>> \in reported
            BY <2>2 DEF Types
        <3> QED
            BY <3>1, <2>2 DEF NotAhead, Emitted
    <2> QED
        BY <2>1, <2>2
<1>5. ASSUME NEW u \in Instrumented
      PROVE  Written(u)'
    BY StagesAreTasks DEF Written, Emitted, AtPlace, AttemptOf, NotAhead, AtWork, Types,
       AllRuns, EventTypes, Places
<1>6. ASSUME NEW r \in AllRuns
      PROVE  Closed(r)'
    <2>1. CASE r # CallbackOf(f)
        BY <2>1, ClosedKept DEF Emitted, InProgress
    <2>2. CASE r = CallbackOf(f)
        <3>1. r[3] = 0 /\ <<r[1], r[2]>> \in reported /\ NotAhead(r) /\ Closed(r)
            BY <2>2 DEF Types
        <3> QED
            BY <3>1, <2>2 DEF NotAhead, Closed, Emitted, InProgress, EventTypes
    <2> QED
        BY <2>1, <2>2
<1> QED
    BY <1>1, <1>2, <1>3, <1>4, <1>5, <1>6

\* The callback writes its FAIL.
LEMMA CallbackFailKeeps ==
    ASSUME LineageInv, NEW f \in reported, CallbackFail(f)
    PROVE  LineageInv'
<1> USE DEF LineageInv, CallbackFail, CallbackOf, Emits, Emitted, dagVars
<1>1. Types'
    BY StagesAreTasks, UpstreamAreTasks DEF Types, AllRuns, EventTypes, Places, Finished
<1>2. AtWork'
    BY StagesAreTasks, UpstreamAreTasks DEF AtWork, Types
<1>3. BegunInOrder'
    BY StagesAreTasks, UpstreamAreTasks DEF BegunInOrder, AtWork, Types
<1>4. ASSUME NEW r \in AllRuns
      PROVE  NotAhead(r)'
    <2>1. CASE r # CallbackOf(f)
        BY <2>1 DEF NotAhead, Emitted
    <2>2. CASE r = CallbackOf(f)
        <3>1. r[3] = 0 /\ <<r[1], r[2]>> \in reported
            BY <2>2 DEF Types
        <3> QED
            BY <3>1, <2>2 DEF NotAhead, Emitted
    <2> QED
        BY <2>1, <2>2
<1>5. ASSUME NEW u \in Instrumented
      PROVE  Written(u)'
    BY StagesAreTasks DEF Written, Emitted, AtPlace, AttemptOf, NotAhead, AtWork, Types,
       AllRuns, EventTypes, Places
<1>6. ASSUME NEW r \in AllRuns
      PROVE  Closed(r)'
    <2>1. CASE r # CallbackOf(f)
        BY <2>1, ClosedKept DEF Emitted, InProgress
    <2>2. CASE r = CallbackOf(f)
        <3>1. r[3] = 0 /\ <<r[1], r[2]>> \in reported /\ NotAhead(r) /\ Closed(r)
            BY <2>2 DEF Types
        <3> QED
            BY <3>1, <2>2 DEF NotAhead, Closed, Emitted, InProgress, EventTypes
    <2> QED
        BY <2>1, <2>2
<1> QED
    BY <1>1, <1>2, <1>3, <1>4, <1>5, <1>6

\* The callback is lost.
LEMMA CallbackLostKeeps ==
    ASSUME LineageInv, NEW f \in reported, CallbackLost(f)
    PROVE  LineageInv'
<1> USE DEF LineageInv, CallbackLost, CallbackOf, dagVars
<1>1. Types'
    BY StagesAreTasks, UpstreamAreTasks DEF Types, AllRuns, EventTypes, Places, Finished
<1>2. AtWork'
    BY StagesAreTasks, UpstreamAreTasks DEF AtWork, Types
<1>3. BegunInOrder'
    BY StagesAreTasks, UpstreamAreTasks DEF BegunInOrder, AtWork, Types
<1>4. ASSUME NEW r \in AllRuns
      PROVE  NotAhead(r)'
    BY <1>1, NotAheadKept DEF Types
<1>5. ASSUME NEW u \in Instrumented
      PROVE  Written(u)'
    BY StagesAreTasks DEF Written, Emitted, AtPlace, AttemptOf, NotAhead, AtWork, Types,
       AllRuns, EventTypes, Places
<1>6. ASSUME NEW r \in AllRuns
      PROVE  Closed(r)'
    BY StagesAreTasks, Parts, Told DEF Closed, Emitted, InProgress, Written, AtPlace,
       AttemptOf, NotAhead, AtWork, Types, EventTypes, Places
<1> QED
    BY <1>1, <1>2, <1>3, <1>4, <1>5, <1>6

-----------------------------------------------------------------------------
\* Every step keeps the invariant.
LEMMA LineageStepHolds == LineageInv /\ [LineageNext]_lineageVars => LineageInv'
<1> SUFFICES ASSUME LineageInv, [LineageNext]_lineageVars
             PROVE  LineageInv'
    OBVIOUS
<1>1. CASE TriggerRun
    BY <1>1, LineageTriggerKeeps
<1>2. CASE \E t \in Tasks : BeginTask(t) \/ ExitsWell(t) \/ PlainEffect(t)
    BY <1>2, BeginKeeps, ExitsWellKeeps, EffectKeeps
<1>3. CASE Settle
    BY <1>3, PassEmptyKeeps, FailFromUpstreamKeeps, RunEndsKeeps DEF Settle
<1>4. ASSUME NEW t \in Instrumented, Stage(t)
      PROVE  LineageInv'
    BY <1>4, StagesAreTasks, EmitStartKeeps, EffectKeeps, EmitCompleteKeeps,
       EmitFailKeeps DEF Stage
<1>5. CASE Callback
    BY <1>5, CallbackStartKeeps, CallbackFailKeeps DEF Callback
<1>6. ASSUME NEW t \in Instrumented, BodyRaises(t) \/ EmitRefused(t)
      PROVE  LineageInv'
    BY <1>6, BodyRaisesKeeps, EmitRefusedKeeps
<1>7. ASSUME NEW t \in Tasks, KillCommand(t)
      PROVE  LineageInv'
    BY <1>7, KillCommandKeeps
<1>8. ASSUME NEW f \in reported, CallbackLost(f)
      PROVE  LineageInv'
    BY <1>8, CallbackLostKeeps
<1>9. CASE UNCHANGED lineageVars
    BY <1>9 DEF lineageVars, dagVars, emitVars, LineageInv, Types, AtWork, BegunInOrder,
       NotAhead, Written, Closed,
       Emitted, AtPlace, AttemptOf, InProgress
<1> QED
    BY <1>1, <1>2, <1>3, <1>4, <1>5, <1>6, <1>7, <1>8, <1>9 DEF LineageNext, Advance

\* Whatever is killed, refused or tried again, the events file says how far each stage has come.
THEOREM LineageInvariant == LineageSpec => []LineageInv
<1>1. LineageInit => LineageInv
    BY LineageInitHolds
<1>2. LineageInv /\ [LineageNext]_lineageVars => LineageInv'
    BY LineageStepHolds
<1> QED
    BY <1>1, <1>2, PTL DEF LineageSpec

\* A lineage run has its START, never both ends, and lacks an end only at work or cut short.
THEOREM LineageRunsAreClosed == LineageSpec => []RunsAreClosed
<1>1. LineageRuns \subseteq AllRuns
    BY DagAssumption DEF LineageRuns, AllRuns
<1>2. LineageInv => RunsAreClosed
    BY <1>1 DEF LineageInv, Closed, RunsAreClosed
<1> QED
    BY LineageInvariant, <1>2, PTL

\* A stage that has started reads from stages whose last attempt has written its COMPLETE.
THEOREM StagesStartAfterInputs == LineageSpec => []StartsAfterInputs
<1>1. ASSUME LineageInv, NEW t \in Instrumented, NEW k \in 1 .. Retries + 1,
             Emitted(<<runs, t, k>>, "START"), NEW u \in Upstream(t) \cap Instrumented
      PROVE  Emitted(<<runs, u, tries[u]>>, "COMPLETE")
    <2>1. t \in Tasks /\ u \in Tasks /\ tries[t] \in Nat /\ k \in Nat /\ k # 0 /\ runs \in Nat
        BY <1>1, StagesAreTasks, DagAssumption DEF LineageInv, Types
    <2>2. ~ (k > tries[t])
        BY <1>1, <2>1, Fresh DEF EventTypes
    <2>3. state[u] = "success"
        BY <1>1, <2>1, <2>2 DEF LineageInv, BegunInOrder
    <2> QED
        BY <1>1, <2>3 DEF LineageInv, Written, AttemptOf
<1>2. LineageInv => StartsAfterInputs
    BY <1>1 DEF StartsAfterInputs
<1> QED
    BY LineageInvariant, <1>2, PTL

-----------------------------------------------------------------------------
\* The callback is due for the present failures that are final, and for no other.
DueWhenFailed ==
    /\ \A f \in reported : f[1] <= runs
    /\ \A t \in Tasks : <<runs, t>> \in reported <=> state[t] = "failed"

\* An attempt that fails is tried again or reported.
LEMMA AttemptFailsReports ==
    ASSUME LineageInv, DueWhenFailed, NEW t \in Tasks, state[t] = "running", AttemptFails(t)
    PROVE  DueWhenFailed'
<1>1. /\ state \in [Tasks -> {"none", "running", "up_for_retry"} \cup Finished]
      /\ runs \in Nat /\ runs' = runs
    BY DEF LineageInv, Types, AttemptFails, FailForGood
<1>2. CASE UNCHANGED reported
    <2>1. state' = [state EXCEPT ![t] = "up_for_retry"]
        <3>1. ~ (reported' = reported \cup {<<runs, t>>})
            BY <1>2 DEF DueWhenFailed
        <3> QED
            BY <3>1 DEF AttemptFails, FailForGood
    <2> QED
        BY <1>1, <1>2, <2>1 DEF DueWhenFailed
<1>3. CASE FailForGood(t)
    <2>1. state' = [state EXCEPT ![t] = "failed"] /\ reported' = reported \cup {<<runs, t>>}
        BY <1>3 DEF FailForGood
    <2>2. \A f \in reported' : f[1] <= runs
        BY <1>1, <2>1 DEF DueWhenFailed
    <2>3. ASSUME NEW u \in Tasks
          PROVE  <<runs, u>> \in reported' <=> state'[u] = "failed"
        <3>1. CASE u = t
            BY <1>1, <2>1, <3>1
        <3>2. CASE u # t
            BY <1>1, <2>1, <3>2 DEF DueWhenFailed
        <3> QED
            BY <3>1, <3>2
    <2> QED
        BY <1>1, <2>2, <2>3 DEF DueWhenFailed
<1> QED
    BY <1>2, <1>3 DEF AttemptFails

\* A state that is neither entered nor left as "failed" needs no report.
LEMMA NoFailureNoReport ==
    ASSUME LineageInv, DueWhenFailed, NEW t \in Tasks, state[t] # "failed",
           NEW s, s # "failed", state' = [state EXCEPT ![t] = s], UNCHANGED <<runs, reported>>
    PROVE  DueWhenFailed'
<1>1. state \in [Tasks -> {"none", "running", "up_for_retry"} \cup Finished]
    BY DEF LineageInv, Types
<1> QED
    BY <1>1 DEF DueWhenFailed

LEMMA DueStepHolds == LineageInv /\ DueWhenFailed /\ [LineageNext]_lineageVars => DueWhenFailed'
<1> SUFFICES ASSUME LineageInv, DueWhenFailed, [LineageNext]_lineageVars
             PROVE  DueWhenFailed'
    OBVIOUS
<1>1. CASE TriggerRun
    <2>1. runs \in Nat /\ runs' = runs + 1 /\ reported' = reported /\ reported \subseteq Nat \X Tasks
        BY <1>1 DEF TriggerRun, Triggered, LineageInv, Types
    <2>2. \A t \in Tasks : state'[t] = "none"
        BY <1>1 DEF TriggerRun, Triggered
    <2>3. \A t \in Tasks : <<runs + 1, t>> \notin reported
        <3> SUFFICES ASSUME NEW t \in Tasks, <<runs + 1, t>> \in reported PROVE FALSE
            OBVIOUS
        <3>1. <<runs + 1, t>>[1] <= runs
            BY DEF DueWhenFailed
        <3> QED
            BY <2>1, <3>1
    <2>4. \A f \in reported : f[1] <= runs + 1
        BY <2>1 DEF DueWhenFailed
    <2> QED
        BY <2>1, <2>2, <2>3, <2>4 DEF DueWhenFailed
<1>2. ASSUME NEW t \in Tasks, BeginTask(t)
      PROVE  DueWhenFailed'
    <2>1. state[t] # "failed" /\ state' = [state EXCEPT ![t] = "running"] /\ UNCHANGED <<runs, reported>>
        BY <1>2 DEF BeginTask, Begin, Ready
    <2> QED
        BY <2>1, NoFailureNoReport
<1>3. ASSUME NEW t \in Tasks, ExitsWell(t)
      PROVE  DueWhenFailed'
    <2>1. state[t] # "failed" /\ state' = [state EXCEPT ![t] = "success"] /\ UNCHANGED <<runs, reported>>
        BY <1>3 DEF ExitsWell, Succeed
    <2> QED
        BY <2>1, NoFailureNoReport
<1>4. ASSUME NEW t \in Tasks, PassEmpty(t)
      PROVE  DueWhenFailed'
    <2>1. state[t] # "failed" /\ state' = [state EXCEPT ![t] = "success"] /\ UNCHANGED <<runs, reported>>
        BY <1>4 DEF PassEmpty, Ready
    <2> QED
        BY <2>1, NoFailureNoReport
<1>5. ASSUME NEW t \in Tasks, FailFromUpstream(t)
      PROVE  DueWhenFailed'
    <2>1. state[t] # "failed" /\ state' = [state EXCEPT ![t] = "upstream_failed"]
          /\ UNCHANGED <<runs, reported>>
        BY <1>5 DEF FailFromUpstream
    <2> QED
        BY <2>1, NoFailureNoReport
<1>6. ASSUME NEW t \in Instrumented,
             EmitFail(t) \/ EmitRefused(t)
      PROVE  DueWhenFailed'
    <2>1. t \in Tasks /\ state[t] = "running" /\ AttemptFails(t)
        BY <1>6, StagesAreTasks DEF EmitFail, EmitRefused, AtPlace
    <2> QED
        BY <2>1, AttemptFailsReports
<1>7. ASSUME NEW t \in Tasks, KillCommand(t)
      PROVE  DueWhenFailed'
    BY <1>7, AttemptFailsReports DEF KillCommand, Killed
<1>8. ASSUME UNCHANGED <<runs, state, reported>>
      PROVE  DueWhenFailed'
    BY <1>8 DEF DueWhenFailed
<1>9. CASE Advance
    BY <1>2, <1>3, <1>4, <1>5, <1>6, <1>8, <1>9
       DEF Advance, Settle, Stage, RunEnds, PlainEffect, StageEffect, Done,
           EmitStart, EmitComplete, dagVars
<1>10. CASE Callback \/ \E f \in reported : CallbackLost(f)
    BY <1>8, <1>10 DEF Callback, CallbackStart, CallbackFail, CallbackLost, dagVars
<1>11. CASE \E t \in Instrumented : BodyRaises(t) \/ EmitRefused(t)
    BY <1>6, <1>8, <1>11 DEF BodyRaises
<1>12. CASE UNCHANGED lineageVars
    BY <1>8, <1>12 DEF lineageVars, dagVars
<1> QED
    BY <1>1, <1>7, <1>9, <1>10, <1>11, <1>12 DEF LineageNext

\* The safety half of FailuresAppear: the callback reports only tasks that failed for good.
OnlyFailuresAppear == \A t \in Tasks \ FailedForGood : ~ Emitted(ReportOf(t), "START")

(***************************************************************************)
(* No failure that is tried again, and no task that did not fail, has an   *)
(* event of the callback (hajj_ops_pipeline.py: on_failure_callback), for  *)
(* any number of DAG runs, retries and kills.                              *)
(***************************************************************************)
THEOREM OnlyFinalFailuresAppear == LineageSpec => []OnlyFailuresAppear
<1>1. LineageInit => DueWhenFailed
    BY DEF LineageInit, DagInit, DueWhenFailed
<1>2. LineageInv /\ DueWhenFailed => OnlyFailuresAppear
    <2> SUFFICES ASSUME LineageInv, DueWhenFailed, NEW t \in Tasks, state[t] # "failed",
                        Emitted(<<runs, t, 0>>, "START")
                 PROVE  FALSE
        BY DEF OnlyFailuresAppear, FailedForGood, ReportOf
    <2>1. <<runs, t, 0>> \in AllRuns
        BY DEF LineageInv, Types, AllRuns
    <2>2. NotAhead(<<runs, t, 0>>)
        BY <2>1 DEF LineageInv
    <2>3. <<runs, t>> \in reported
        BY <2>2 DEF NotAhead, EventTypes
    <2> QED
        BY <2>3 DEF DueWhenFailed
<1> QED
    BY LineageInvariant, <1>1, <1>2, DueStepHolds, PTL DEF LineageSpec

-----------------------------------------------------------------------------
(***************************************************************************)
(* Counters.                                                               *)
(***************************************************************************)
\* A task that is to be begun again has a retry left, and one that was never begun has all of
\* them.  Tasks only work in a run, and a run that is over has none left to do.
DagCounts ==
    /\ DagTypeOK
    /\ step \in [Tasks -> Nat]
    /\ \A t \in Tasks : state[t] = "none" => tries[t] = 0
    /\ \A t \in Tasks : state[t] = "up_for_retry" => tries[t] <= Retries
    /\ \A t \in Tasks : state[t] = "running" => tries[t] >= 1
    /\ run = "running" \/ (\E t \in Tasks : state[t] # "none") => runs >= 1
    /\ run # "running" => runs = 0 \/ \A t \in Tasks : state[t] \in Finished

LEMMA CountsInitially == DagInit => DagCounts
<1> SUFFICES ASSUME DagInit PROVE DagCounts
    OBVIOUS
<1>1. \A t \in Tasks : 0 \in 0 .. Effects(t) /\ 0 \in 0 .. Retries + 1
    BY DagAssumption, Names
<1>2. 0 \in 0 .. MaxRuns /\ 0 \in 0 .. MaxFaults
    BY DagAssumption
<1> QED
    BY <1>1, <1>2 DEF DagInit, DagCounts, DagTypeOK, Finished

\* The scheduler, but for the beginning of an attempt.
LEMMA SchedulingCounts ==
    ASSUME DagCounts
    PROVE  /\ Triggered => DagCounts'
           /\ RunEnds => DagCounts'
           /\ \A t \in Tasks : PassEmpty(t) \/ Succeed(t) \/ FailFromUpstream(t) => DagCounts'
<1>1. ASSUME Triggered PROVE DagCounts'
    <2>1. \A t \in Tasks : 0 \in 0 .. Effects(t) /\ 0 \in 0 .. Retries + 1
        BY DagAssumption, Names
    <2>2. runs + 1 \in 0 .. MaxRuns /\ runs + 1 >= 1
        BY <1>1, DagAssumption DEF Triggered, DagCounts, DagTypeOK
    <2> QED
        BY <1>1, <2>1, <2>2 DEF Triggered, DagCounts, DagTypeOK, Finished
<1>2. ASSUME RunEnds PROVE DagCounts'
    BY <1>2 DEF RunEnds, DagCounts, DagTypeOK, Finished
<1>3. ASSUME NEW t \in Tasks, PassEmpty(t) \/ Succeed(t) \/ FailFromUpstream(t)
      PROVE  DagCounts'
    <2>1. /\ run' = run /\ runs' = runs /\ tries' = tries /\ step' = step
          /\ reported' = reported /\ faults' = faults
          /\ \E s \in Finished : state' = [state EXCEPT ![t] = s]
          /\ state[t] \notin Finished
        BY <1>3 DEF PassEmpty, Succeed, FailFromUpstream, Ready, Finished
    <2>2. PICK s \in Finished : state' = [state EXCEPT ![t] = s]
        BY <2>1
    <2>3. runs >= 1
        BY <1>3 DEF DagCounts, PassEmpty, Succeed, FailFromUpstream, Ready
    <2> QED
        BY <2>1, <2>2, <2>3 DEF DagCounts, DagTypeOK, Finished
<1> QED
    BY <1>1, <1>2, <1>3

\* An attempt begins: its number is at most Retries + 1.
LEMMA BeginCounts ==
    ASSUME DagCounts, NEW t \in Tasks, Begin(t)
    PROVE  DagCounts'
<1>1. /\ state[t] \in {"none", "up_for_retry"} /\ run = "running"
      /\ state' = [state EXCEPT ![t] = "running"]
      /\ tries' = [tries EXCEPT ![t] = @ + 1]
      /\ step' = [step EXCEPT ![t] = 0]
      /\ UNCHANGED <<runs, run, reported, faults>>
    BY DEF Begin, Ready
<1>2. tries[t] \in 0 .. Retries /\ Retries \in Nat
    BY <1>1, DagAssumption DEF DagCounts, DagTypeOK
<1>3. tries[t] + 1 \in 0 .. Retries + 1 /\ tries[t] + 1 >= 1
    BY <1>2
<1>4. 0 \in 0 .. Effects(t)
    BY Names
<1> QED
    BY <1>1, <1>3, <1>4 DEF DagCounts, DagTypeOK, Finished

\* An effect of an attempt is done.
LEMMA DoneCounts ==
    ASSUME DagCounts, NEW t \in Tasks, state[t] = "running", step[t] < Effects(t), Done(t),
           faults' \in 0 .. MaxFaults
    PROVE  DagCounts'
<1>1. step[t] \in Nat /\ Effects(t) \in Nat
    BY Names DEF DagCounts
<1>2. step[t] + 1 \in 0 .. Effects(t) /\ step[t] + 1 \in Nat
    BY <1>1
<1> QED
    BY <1>2 DEF Done, DagCounts, DagTypeOK

\* An attempt fails.
LEMMA FailCounts ==
    ASSUME DagCounts, NEW t \in Tasks, state[t] = "running", AttemptFails(t) \/ FailForGood(t),
           faults' \in 0 .. MaxFaults
    PROVE  DagCounts'
<1>1. runs >= 1 /\ runs \in 1 .. MaxRuns /\ <<runs, t>> \in (1 .. MaxRuns) \X Tasks
    BY DagAssumption DEF DagCounts, DagTypeOK
<1>2. /\ UNCHANGED <<runs, run, tries, step>>
      /\ reported' \subseteq reported \cup {<<runs, t>>}
      /\ \/ state' = [state EXCEPT ![t] = "up_for_retry"] /\ tries[t] <= Retries
         \/ state' = [state EXCEPT ![t] = "failed"]
    BY DEF AttemptFails, FailForGood
<1>3. run = "running"
    BY DEF DagCounts, Finished
<1> QED
    BY <1>1, <1>2, <1>3 DEF DagCounts, DagTypeOK, Finished

\* Faults stay within their bound.
LEMMA FaultCounts == DagCounts /\ (Fault \/ NoFault) => faults' \in 0 .. MaxFaults
BY DagAssumption DEF DagCounts, DagTypeOK, Fault, NoFault

-----------------------------------------------------------------------------
\* The present run may still emit without a further fault.
Due ==
    /\ runs >= 1
    /\ state["produce_test_events"] \in {"none", "up_for_retry"} \/ At("produce_test_events", 0)

\* Each run pays for one emission, and each fault for one more.
EmissionsArePaid ==
    /\ emission \in Nat
    /\ emission <= runs + faults
    /\ Due => emission < runs + faults

Data ==
    /\ conf \in Confs
    /\ sop \in BOOLEAN
    /\ occTopic \subseteq Events
    /\ reqTopic \subseteq Requests
    /\ bronzeOcc \in [Events -> Nat]
    /\ bronzeReq \subseteq Requests
    /\ silverOcc \subseteq Events
    /\ silverReq \subseteq Requests
    /\ gold \in [Readings -> Nat]
    /\ index \in {"none", "empty", "full"}
    /\ validated \subseteq SUBSET Events

CountInv == DagCounts /\ EmissionsArePaid /\ Data

LEMMA CountInvTypes == CountInv => TypeOK
<1> SUFFICES ASSUME CountInv PROVE TypeOK
    OBVIOUS
<1>1. emission \in 0 .. MaxRuns + MaxFaults
    BY DagAssumption DEF CountInv, DagCounts, DagTypeOK, EmissionsArePaid
<1> QED
    BY <1>1 DEF CountInv, DagCounts, Data, TypeOK

\* There are finitely many events of one reading.
LEMMA EventsOfReading ==
    ASSUME NEW S \in SUBSET Events, NEW r \in Readings
    PROVE  Cardinality({e \in S : e[1] = r}) \in Nat
<1>1. IsFiniteSet(Emissions)
    BY DagAssumption, FS_Interval DEF Emissions
<1>2. IsFiniteSet({r} \X Emissions)
    BY <1>1, FS_Singleton, FS_Product
<1>3. {e \in S : e[1] = r} \subseteq {r} \X Emissions
    BY DEF Events
<1> QED
    BY <1>2, <1>3, FS_Subset, FS_CardinalityType

\* What is due depends on produce_test_events alone.
LEMMA DueOfOthers ==
    ASSUME runs' = runs, state'["produce_test_events"] = state["produce_test_events"],
           step'["produce_test_events"] = step["produce_test_events"]
    PROVE  Due' <=> Due
BY DEF Due, At

\* No further emission becomes due but by a new run.
LEMMA SchedulingPays ==
    ASSUME DagCounts, EmissionsArePaid, emission' = emission,
           Triggered \/ RunEnds \/ \E t \in Tasks :
               Begin(t) \/ PassEmpty(t) \/ Succeed(t) \/ FailFromUpstream(t)
    PROVE  EmissionsArePaid'
<1> DEFINE P == "produce_test_events"
<1>0. P \in Tasks /\ runs \in Nat /\ faults \in Nat
    BY Names, DagAssumption DEF DagCounts, DagTypeOK
<1>1. CASE Triggered
    BY <1>0, <1>1 DEF Triggered, EmissionsArePaid
<1>2. CASE RunEnds
    BY <1>0, <1>2 DEF RunEnds, EmissionsArePaid, Due, At
<1>3. ASSUME NEW t \in Tasks, Begin(t)
      PROVE  EmissionsArePaid'
    <2>1. /\ state[t] \in {"none", "up_for_retry"} /\ run = "running"
          /\ state' = [state EXCEPT ![t] = "running"] /\ step' = [step EXCEPT ![t] = 0]
          /\ runs' = runs /\ faults' = faults
        BY <1>3 DEF Begin, Ready
    <2>2. Due' => Due
        <3>1. CASE t = P
            BY <2>1, <3>1 DEF Due, DagCounts
        <3>2. CASE t # P
            BY <1>0, <2>1, <3>2, DueOfOthers DEF DagCounts, DagTypeOK
        <3> QED
            BY <3>1, <3>2
    <2> QED
        BY <2>1, <2>2 DEF EmissionsArePaid
<1>4. ASSUME NEW t \in Tasks, PassEmpty(t) \/ Succeed(t) \/ FailFromUpstream(t)
      PROVE  EmissionsArePaid'
    <2>1. /\ runs' = runs /\ step' = step /\ faults' = faults
          /\ \E s \in Finished : state' = [state EXCEPT ![t] = s]
        BY <1>4 DEF PassEmpty, Succeed, FailFromUpstream, Finished
    <2>2. PICK s \in Finished : state' = [state EXCEPT ![t] = s]
        BY <2>1
    <2>3. Due' => Due
        <3>1. CASE t = P
            BY <1>0, <2>2, <3>1 DEF Due, At, DagCounts, DagTypeOK, Finished
        <3>2. CASE t # P
            BY <1>0, <2>1, <2>2, <3>2, DueOfOthers DEF DagCounts, DagTypeOK
        <3> QED
            BY <3>1, <3>2
    <2> QED
        BY <2>1, <2>3 DEF EmissionsArePaid
<1> QED
    BY <1>1, <1>2, <1>3, <1>4

\* An effect, and an attempt that fails, of produce_test_events by a fault.
LEMMA WorkPays ==
    ASSUME DagCounts, EmissionsArePaid, emission' = emission, NEW t \in Tasks, state[t] = "running",
           faults' \in Nat, faults' >= faults,
           \/ Done(t)
           \/ (AttemptFails(t) \/ FailForGood(t)) /\ (t # "produce_test_events" \/ faults' > faults)
    PROVE  EmissionsArePaid'
<1> DEFINE P == "produce_test_events"
<1>0. P \in Tasks /\ runs \in Nat /\ faults \in Nat
    BY Names, DagAssumption DEF DagCounts, DagTypeOK
<1>1. runs' = runs
    BY DEF Done, AttemptFails, FailForGood
<1>2. \A e, r, f, g \in Nat :
          /\ g >= f => (e <= r + f => e <= r + g) /\ (e < r + f => e < r + g)
          /\ g > f => (e <= r + f => e < r + g)
    OBVIOUS
<1>3. CASE t # P
    <2>1. state'[P] = state[P] /\ step'[P] = step[P]
        BY <1>0, <1>3 DEF Done, AttemptFails, FailForGood, DagCounts, DagTypeOK
    <2>2. Due' <=> Due
        BY <1>1, <2>1, DueOfOthers
    <2> QED
        BY <1>0, <1>1, <1>2, <2>2 DEF EmissionsArePaid
<1>4. CASE t = P /\ Done(t)
    <2>1. state' = state /\ step'[P] = step[P] + 1 /\ step[P] \in Nat
        BY <1>0, <1>4 DEF Done, DagCounts
    <2>2. ~ Due'
        BY <1>4, <2>1 DEF Due, At
    <2> QED
        BY <1>0, <1>1, <1>2, <2>2 DEF EmissionsArePaid
<1>5. CASE t = P /\ ~ Done(t)
    <2>1. faults' > faults
        BY <1>0, <1>5
    <2> QED
        BY <1>0, <1>1, <1>2, <2>1 DEF EmissionsArePaid
<1> QED
    BY <1>3, <1>4, <1>5

\* The tasks that Pipeline names are at work on an effect they have.
LEMMA AtWorkOn ==
    ASSUME DagCounts, NEW t \in Tasks, NEW k \in 0 .. 1, At(t, k),
           k = 0 \/ t \in {"produce_test_events", "refresh_rag_index"},
           t \notin EmptyTasks
    PROVE  state[t] = "running" /\ step[t] < Effects(t)
BY DEF At, Effects, EmptyTasks

\* An action that has an effect, or fails, and leaves the emissions alone.
LEMMA WorkCounts ==
    ASSUME DagCounts, EmissionsArePaid, emission' = emission, NEW t \in Tasks,
           state[t] = "running", step[t] < Effects(t), Fault \/ NoFault,
           \/ Done(t)
           \/ AttemptFails(t) /\ (t # "produce_test_events" \/ Fault)
           \/ FailForGood(t) /\ t # "produce_test_events"
    PROVE  DagCounts' /\ EmissionsArePaid'
<1>1. faults \in Nat /\ faults' \in 0 .. MaxFaults
    BY FaultCounts DEF DagCounts, DagTypeOK
<1>2. faults' \in Nat /\ faults' >= faults /\ (Fault => faults' > faults)
    BY <1>1 DEF Fault, NoFault
<1> QED
    BY <1>1, <1>2, DoneCounts, FailCounts, WorkPays

\* The work that leaves the emissions alone.
LEMMA OtherWork ==
    ASSUME DagCounts, EmissionsArePaid, Work, ~ EmitOccupancy
    PROVE  DagCounts' /\ EmissionsArePaid'
<1>1. CASE SensorPokes \/ SensorTimesOut
    <2>1. emission' = emission
        BY <1>1 DEF SensorPokes, SensorTimesOut, dataVars, topicVars
    <2> QED
        BY <1>1, <2>1, Names, AtWorkOn, WorkCounts DEF SensorPokes, SensorTimesOut, EmptyTasks
<1>2. CASE EmitRequests
    BY <1>2, Names, AtWorkOn, WorkCounts DEF EmitRequests, Delivering, EmptyTasks
<1>3. CASE IngestOccupancy \/ IngestRequests
    BY <1>3, Names, AtWorkOn, WorkCounts DEF IngestOccupancy, IngestRequests, Ingesting, EmptyTasks
<1>4. CASE ValidateBronze \/ ValidateSilver
    <2>1. emission' = emission
        BY <1>4 DEF ValidateBronze, ValidateSilver, dataVars, topicVars
    <2> QED
        BY <1>4, <2>1, Names, AtWorkOn, WorkCounts DEF ValidateBronze, ValidateSilver, EmptyTasks
<1>5. CASE BuildSilverOccupancy \/ BuildSilverRequests \/ BuildGold
    <2>1. emission' = emission
        BY <1>5 DEF BuildSilverOccupancy, BuildSilverRequests, BuildGold, topicVars
    <2> QED
        BY <1>5, <2>1, Names, AtWorkOn, WorkCounts
        DEF BuildSilverOccupancy, BuildSilverRequests, BuildGold, EmptyTasks
<1>6. CASE RecreateCollection \/ UpsertChunks \/ SmokeTest
    <2>1. emission' = emission
        BY <1>6 DEF RecreateCollection, UpsertChunks, SmokeTest, dataVars, topicVars
    <2> QED
        BY <1>6, <2>1, Names, AtWorkOn, WorkCounts
        DEF RecreateCollection, UpsertChunks, SmokeTest, EmptyTasks
<1> QED
    BY <1>1, <1>2, <1>3, <1>4, <1>5, <1>6 DEF Work

\* An emission is the one that was due, and another is due only by a fault.
LEMMA EmissionCounts ==
    ASSUME DagCounts, EmissionsArePaid, EmitOccupancy
    PROVE  DagCounts' /\ EmissionsArePaid'
<1> DEFINE P == "produce_test_events"
<1>1. /\ P \in Tasks /\ At(P, 0) /\ state[P] = "running" /\ step[P] < Effects(P)
      /\ emission' = emission + 1
      /\ \/ Done(P) /\ (Fault \/ NoFault)
         \/ AttemptFails(P) /\ Fault
    BY Names, AtWorkOn DEF EmitOccupancy, Delivering, EmptyTasks
<1>2. faults \in Nat /\ faults' \in 0 .. MaxFaults /\ runs \in Nat /\ emission \in Nat
    BY <1>1, FaultCounts DEF DagCounts, DagTypeOK, EmissionsArePaid
<1>3. DagCounts'
    BY <1>1, <1>2, DoneCounts, FailCounts
<1>4. Due /\ emission < runs + faults
    BY <1>1 DEF Due, DagCounts, EmissionsArePaid
<1>5. runs' = runs
    BY <1>1 DEF Done, AttemptFails, FailForGood
<1>6. emission' \in Nat /\ emission' <= runs + faults
    <2>1. \A e, s \in Nat : e < s => e + 1 \in Nat /\ e + 1 <= s
        OBVIOUS
    <2>2. runs + faults \in Nat
        BY <1>2
    <2> QED
        BY <1>1, <1>2, <1>4, <2>1, <2>2
<1>7. ASSUME faults' = faults + 1
      PROVE  emission' < runs + faults'
    <2>1. \A e, r, f \in Nat : e <= r + f => e < r + (f + 1)
        OBVIOUS
    <2> QED
        BY <1>2, <1>6, <1>7, <2>1
<1>8. ASSUME faults' = faults \/ faults' = faults + 1
      PROVE  emission' <= runs + faults'
    <2>1. CASE faults' = faults
        BY <1>6, <2>1
    <2>2. CASE faults' = faults + 1
        <3>1. \A e, r, f \in Nat : e <= r + f => e <= r + (f + 1)
            OBVIOUS
        <3> QED
            BY <1>2, <1>6, <2>2, <3>1
    <2> QED
        BY <1>8, <2>1, <2>2
<1>9. CASE Done(P)
    <2>1. ~ Due'
        BY <1>1, <1>2, <1>3, <1>9 DEF Due, At, Done, DagCounts
    <2>2. faults' = faults \/ faults' = faults + 1
        BY <1>1 DEF Fault, NoFault
    <2>3. emission' <= runs' + faults'
        BY <1>5, <1>8, <2>2
    <2> QED
        BY <1>3, <1>6, <2>1, <2>3 DEF EmissionsArePaid
<1>10. CASE AttemptFails(P) /\ Fault
    <2>1. faults' = faults + 1
        BY <1>10 DEF Fault
    <2>2. emission' <= runs' + faults' /\ emission' < runs' + faults'
        BY <1>5, <1>7, <1>8, <2>1
    <2> QED
        BY <1>3, <1>6, <2>2 DEF EmissionsArePaid
<1> QED
    BY <1>1, <1>3, <1>9, <1>10

\* What an action leaves in the topics and tables has its type.
LEMMA DataKeepsType ==
    ASSUME Data, EmissionsArePaid, DagCounts', EmissionsArePaid', Next
    PROVE  Data'
<1>1. CASE Trigger
    BY <1>1 DEF Trigger, Data, topicVars, tableVars
<1>2. CASE Move \/ Kill \/ SensorPokes \/ SensorTimesOut \/ ValidateSilver \/ SmokeTest
    BY <1>2 DEF Move, Kill, SensorPokes, SensorTimesOut, ValidateSilver, SmokeTest, Data,
                dataVars, topicVars, tableVars
<1>3. CASE SopArrives
    BY <1>3 DEF SopArrives, Data, topicVars, tableVars
<1>4. CASE EmitOccupancy
    <2>1. PICK S \in SUBSET conf.readings : occTopic' = occTopic \cup (S \X {emission'})
        BY <1>4 DEF EmitOccupancy
    <2>2. emission' \in Emissions
        <3>1. emission' = emission + 1 /\ emission \in Nat
            BY <1>4 DEF EmitOccupancy, EmissionsArePaid
        <3>2. emission' <= runs' + faults' /\ runs' \in 0 .. MaxRuns /\ faults' \in 0 .. MaxFaults
            BY DEF EmissionsArePaid, DagCounts, DagTypeOK
        <3>3. \A e, a, b \in Nat : \A r \in 0 .. a, f \in 0 .. b :
                  e + 1 <= r + f => e + 1 \in 1 .. a + b
            OBVIOUS
        <3> QED
            BY <3>1, <3>2, <3>3, DagAssumption DEF Emissions
    <2>3. S \subseteq Readings
        BY <2>1, PipelineAssumption DEF Data
    <2>4. occTopic' \subseteq Events
        BY <2>1, <2>2, <2>3 DEF Data, Events
    <2> QED
        BY <1>4, <2>4 DEF EmitOccupancy, Data, tableVars
<1>5. CASE EmitRequests
    <2>1. conf.requests \subseteq Requests
        BY PipelineAssumption DEF Data
    <2> QED
        BY <1>5, <2>1 DEF EmitRequests, Data, tableVars
<1>6. CASE IngestOccupancy
    <2>1. bronzeOcc' \in [Events -> Nat]
        BY <1>6 DEF IngestOccupancy, Data
    <2>2. occTopic' \subseteq Events
        BY <1>6 DEF IngestOccupancy, Data
    <2> QED
        BY <1>6, <2>1, <2>2 DEF IngestOccupancy, Data
<1>7. CASE IngestRequests
    BY <1>7 DEF IngestRequests, Data
<1>8. CASE ValidateBronze
    <2>1. EventsOf(bronzeOcc) \subseteq Events
        BY DEF EventsOf
    <2>2. validated' \subseteq SUBSET Events
        BY <1>8, <2>1 DEF ValidateBronze, Data
    <2> QED
        BY <1>8, <2>2 DEF ValidateBronze, Data, topicVars, tableVars
<1>9. CASE BuildSilverOccupancy
    <2>1. silverOcc' \subseteq Events
        BY <1>9 DEF BuildSilverOccupancy, EventsOf
    <2> QED
        BY <1>9, <2>1 DEF BuildSilverOccupancy, Data, topicVars
<1>10. CASE BuildSilverRequests
    BY <1>10 DEF BuildSilverRequests, Data, topicVars
<1>11. CASE BuildGold
    <2>1. gold' \in [Readings -> Nat]
        BY <1>11, EventsOfReading DEF BuildGold, CountsOf, Data
    <2> QED
        BY <1>11, <2>1 DEF BuildGold, Data, topicVars
<1>12. CASE RecreateCollection \/ UpsertChunks
    BY <1>12 DEF RecreateCollection, UpsertChunks, Data, topicVars, tableVars
<1> QED
    BY <1>1, <1>2, <1>3, <1>4, <1>5, <1>6, <1>7, <1>8, <1>9, <1>10, <1>11, <1>12 DEF Next, Work

LEMMA CountsStep == CountInv /\ [Next]_vars => CountInv'
<1> SUFFICES ASSUME CountInv, [Next]_vars PROVE CountInv'
    OBVIOUS
<1> USE DEF CountInv
<1>1. CASE UNCHANGED vars
    BY <1>1 DEF DagCounts, DagTypeOK, EmissionsArePaid, Due, At, Data,
                vars, dagVars, dataVars, topicVars, tableVars
<1>2. ASSUME Trigger \/ Move
      PROVE  DagCounts' /\ EmissionsArePaid'
    <2>1. emission' = emission
        BY <1>2 DEF Trigger, Move, dataVars, topicVars
    <2> QED
        BY <1>2, <2>1, SchedulingCounts, BeginCounts, SchedulingPays DEF Trigger, Move, Schedule
<1>3. ASSUME Kill
      PROVE  DagCounts' /\ EmissionsArePaid'
    <2>1. PICK t \in Tasks : state[t] = "running" /\ Fault /\ AttemptFails(t)
        BY <1>3 DEF Kill, Killed
    <2>2. emission' = emission
        BY <1>3 DEF Kill, dataVars, topicVars
    <2>3. faults' \in 0 .. MaxFaults /\ faults \in Nat
        BY <2>1, FaultCounts DEF DagCounts, DagTypeOK
    <2>4. faults' \in Nat /\ faults' >= faults /\ faults' > faults
        BY <2>1, <2>3 DEF Fault
    <2> QED
        BY <2>1, <2>2, <2>3, <2>4, FailCounts, WorkPays
<1>4. ASSUME SopArrives
      PROVE  DagCounts' /\ EmissionsArePaid'
    BY <1>4 DEF SopArrives, DagCounts, DagTypeOK, EmissionsArePaid, Due, At, dagVars, topicVars
<1>5. CASE Next
    <2>1. DagCounts' /\ EmissionsArePaid'
        BY <1>2, <1>3, <1>4, <1>5, OtherWork, EmissionCounts DEF Next
    <2> QED
        BY <1>5, <2>1, DataKeepsType
<1> QED
    BY <1>1, <1>5

(***************************************************************************)
(* Type correctness of the DAG with its data.  The bound on the emissions  *)
(* is more than a type: each repeats the readings under new event_ids, so  *)
(* that a run delivers them more often than once only after a fault.       *)
(***************************************************************************)
THEOREM PipelineTypeCorrect == Spec => []TypeOK
<1>1. Init => CountInv
    <2> SUFFICES ASSUME Init PROVE CountInv
        OBVIOUS
    <2>1. DagCounts
        BY CountsInitially DEF Init
    <2>2. EmissionsArePaid
        BY DEF Init, DagInit, EmissionsArePaid, Due
    <2>3. Data
        BY DEF Init, Data, EmptyTable, Nothing
    <2> QED
        BY <2>1, <2>2, <2>3 DEF CountInv
<1> QED
    BY <1>1, CountsStep, CountInvTypes, PTL DEF Spec

-----------------------------------------------------------------------------
\* Every event is of an attempt, or a callback, that there can be.
EventsAreOfRuns == events \subseteq LineageRuns \X EventTypes

\* The counters go on the same with lineage.
LEMMA LineageCounts == LineageInv /\ DagCounts /\ [LineageNext]_lineageVars => DagCounts'
<1> SUFFICES ASSUME LineageInv, DagCounts, [LineageNext]_lineageVars PROVE DagCounts'
    OBVIOUS
<1>1. CASE TriggerRun \/ Settle \/ \E t \in Tasks : BeginTask(t) \/ ExitsWell(t)
    BY <1>1, SchedulingCounts, BeginCounts DEF TriggerRun, Settle, BeginTask, ExitsWell
<1>2. ASSUME NEW t \in Tasks, PlainEffect(t) \/ (t \in Instrumented /\ StageEffect(t))
      PROVE  DagCounts'
    BY <1>2, DoneCounts, FaultCounts DEF PlainEffect, StageEffect, AtPlace
<1>3. ASSUME NEW t \in Tasks, state[t] = "running", AttemptFails(t), Fault \/ NoFault
      PROVE  DagCounts'
    BY <1>3, FailCounts, FaultCounts
<1>4. ASSUME NEW t \in Instrumented, EmitFail(t) \/ EmitRefused(t)
      PROVE  DagCounts'
    BY <1>3, <1>4, StagesAreTasks DEF EmitFail, EmitRefused, AtPlace
<1>5. ASSUME NEW t \in Tasks, KillCommand(t)
      PROVE  DagCounts'
    BY <1>3, <1>5 DEF KillCommand, Killed
<1>6. ASSUME NEW t \in Instrumented, BodyRaises(t)
      PROVE  DagCounts'
    <2>1. faults' \in 0 .. MaxFaults
        BY <1>6, FaultCounts DEF BodyRaises
    <2> QED
        BY <1>6, <2>1 DEF BodyRaises, DagCounts, DagTypeOK
<1>7. ASSUME UNCHANGED dagVars
      PROVE  DagCounts'
    BY <1>7 DEF dagVars, DagCounts, DagTypeOK
<1>8. CASE \E t \in Instrumented : EmitStart(t) \/ EmitComplete(t)
    BY <1>7, <1>8 DEF EmitStart, EmitComplete
<1>9. CASE Callback \/ \E f \in reported : CallbackLost(f)
    BY <1>7, <1>9 DEF Callback, CallbackStart, CallbackFail, CallbackLost
<1>10. CASE UNCHANGED lineageVars
    BY <1>7, <1>10 DEF lineageVars
<1> QED
    BY <1>1, <1>2, <1>4, <1>5, <1>6, <1>8, <1>9, <1>10, StagesAreTasks
    DEF LineageNext, Advance, Stage

LEMMA EventsStep ==
    LineageInv /\ DagCounts /\ EventsAreOfRuns /\ [LineageNext]_lineageVars => EventsAreOfRuns'
<1> SUFFICES ASSUME LineageInv, DagCounts, EventsAreOfRuns, [LineageNext]_lineageVars
             PROVE  EventsAreOfRuns'
    OBVIOUS
<1>1. ASSUME NEW r \in LineageRuns, NEW type \in EventTypes, Emits(r, type)
      PROVE  EventsAreOfRuns'
    BY <1>1 DEF Emits, EventsAreOfRuns
<1>2. ASSUME NEW t \in Tasks, state[t] = "running"
      PROVE  AttemptOf(t) \in LineageRuns
    <2>1. runs \in 1 .. MaxRuns /\ tries[t] \in 0 .. Retries + 1
        BY <1>2, DagAssumption DEF DagCounts, DagTypeOK
    <2> QED
        BY <2>1 DEF AttemptOf, LineageRuns
<1>3. ASSUME NEW f \in reported
      PROVE  CallbackOf(f) \in LineageRuns
    <2>1. f[1] \in 1 .. MaxRuns /\ f[2] \in Tasks
        BY DEF DagCounts, DagTypeOK
    <2>2. 0 \in 0 .. Retries + 1
        BY DagAssumption
    <2> QED
        BY <2>1, <2>2 DEF CallbackOf, LineageRuns
<1>4. CASE \E t \in Instrumented : EmitStart(t) \/ EmitComplete(t) \/ EmitFail(t)
    BY <1>1, <1>2, <1>4, StagesAreTasks DEF EmitStart, EmitComplete, EmitFail, AtPlace, EventTypes
<1>5. CASE Callback
    BY <1>1, <1>3, <1>5 DEF Callback, CallbackStart, CallbackFail, EventTypes
<1>6. ASSUME UNCHANGED events
      PROVE  EventsAreOfRuns'
    BY <1>6 DEF EventsAreOfRuns
<1>7. CASE TriggerRun \/ Settle \/ \E t \in Tasks : BeginTask(t) \/ ExitsWell(t) \/ PlainEffect(t)
    BY <1>6, <1>7 DEF TriggerRun, Settle, BeginTask, ExitsWell, PlainEffect, emitVars
<1>8. CASE \E t \in Instrumented : StageEffect(t) \/ BodyRaises(t) \/ EmitRefused(t)
    BY <1>6, <1>8 DEF StageEffect, BodyRaises, EmitRefused, emitVars
<1>9. CASE (\E t \in Tasks : KillCommand(t)) \/ (\E f \in reported : CallbackLost(f))
    BY <1>6, <1>9 DEF KillCommand, CallbackLost
<1>10. CASE UNCHANGED lineageVars
    BY <1>6, <1>10 DEF lineageVars, emitVars
<1> QED
    BY <1>4, <1>5, <1>7, <1>8, <1>9, <1>10 DEF LineageNext, Advance, Stage

(***************************************************************************)
(* The events file holds nothing but events of the attempts there can be   *)
(* and of the callbacks of this DAG's tasks (emitter.py:                   *)
(* lineage_run), which is all that RunsAreClosed speaks of.                *)
(***************************************************************************)
THEOREM AllEventsAreOfRuns == LineageSpec => [](DagTypeOK /\ EventsAreOfRuns)
<1>1. LineageInit => DagCounts /\ EventsAreOfRuns
    BY CountsInitially DEF LineageInit, EventsAreOfRuns
<1>2. DagCounts => DagTypeOK
    BY DEF DagCounts
<1> QED
    BY LineageInvariant, <1>1, <1>2, LineageCounts, EventsStep, PTL DEF LineageSpec

=============================================================================
