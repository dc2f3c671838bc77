------------------------------- MODULE DagRun -------------------------------
(***************************************************************************)
(* The Airflow DAG of dags/hajj_ops_pipeline.py: its tasks, their edges,   *)
(* and what the scheduler does with them (external): a task starts when    *)
(* all tasks above it succeeded (the default trigger rule), an attempt     *)
(* that fails is tried again `retries` times, and only the last failure    *)
(* runs on_failure_callback and takes everything below the task with it.   *)
(*                                                                         *)
(* A task's callable is a sequence of effects on the lakehouse, the topics *)
(* and the index; `step` counts those the present attempt has had.  The    *)
(* effects themselves are the subject of Pipeline.                         *)
(***************************************************************************)
EXTENDS Integers, FiniteSets

CONSTANTS
    Retries,        \* default_args["retries"]
    Parallelism,    \* tasks the executor runs at once (1: SequentialExecutor)
    MaxRuns,        \* bound: runs of the DAG
    MaxFaults       \* bound: attempts that are killed or lose the broker

ASSUME DagAssumption ==
    /\ Retries \in Nat
    /\ Parallelism \in Nat \ {0}
    /\ MaxRuns \in Nat
    /\ MaxFaults \in Nat

Edges ==
    {<<"start", "wait_for_sop_corpus">>,
     <<"wait_for_sop_corpus", "produce_test_events">>,
     <<"produce_test_events", "ingest_bronze_occupancy">>,
     <<"produce_test_events", "ingest_bronze_requests">>,
     <<"ingest_bronze_occupancy", "validate_bronze">>,
     <<"ingest_bronze_requests", "validate_bronze">>,
     <<"validate_bronze", "build_silver_occupancy">>,
     <<"validate_bronze", "build_silver_requests_merge">>,
     <<"build_silver_occupancy", "validate_silver">>,
     <<"build_silver_requests_merge", "validate_silver">>,
     <<"validate_silver", "build_gold_zone_hourly">>,
     <<"build_gold_zone_hourly", "refresh_rag_index">>,
     <<"refresh_rag_index", "smoke_test_rag">>,
     <<"smoke_test_rag", "end">>}

Tasks       == UNION {{edge[1], edge[2]} : edge \in Edges}
EmptyTasks  == {"start", "end"}
Upstream(t) == {u \in Tasks : <<u, t>> \in Edges}

\* Two commands: the two producers; drop the collection, then upsert into it.
Effects(t) ==
    CASE t \in EmptyTasks -> 0
      [] t \in {"produce_test_events", "refresh_rag_index"} -> 2
      [] OTHER -> 1

VARIABLES
    runs,       \* runs triggered so far
    run,        \* the present run: "none", "running", "success" or "failed"
    state,      \* task -> its state in the present run
    tries,      \* task -> attempts begun
    step,       \* task -> effects of the present attempt that are done
    reported,   \* <<run number, task>> with a FAIL event from the callback
    faults      \* faults so far (bounded by MaxFaults)

dagVars == <<runs, run, state, tries, step, reported, faults>>

Finished == {"success", "failed", "upstream_failed"}

DagInit ==
    /\ runs = 0
    /\ run = "none"
    /\ state = [t \in Tasks |-> "none"]
    /\ tries = [t \in Tasks |-> 0]
    /\ step = [t \in Tasks |-> 0]
    /\ reported = {}
    /\ faults = 0

-----------------------------------------------------------------------------
(***************************************************************************)
(* The scheduler.                                                          *)
(***************************************************************************)
\* "Trigger DAG": max_active_runs=1 keeps a second run out of the first.
Triggered ==
    /\ run # "running"
    /\ runs < MaxRuns
    /\ runs' = runs + 1
    /\ run' = "running"
    /\ state' = [t \in Tasks |-> "none"]
    /\ tries' = [t \in Tasks |-> 0]
    /\ step' = [t \in Tasks |-> 0]
    /\ UNCHANGED <<reported, faults>>

\* Mutant of Ready: trigger_rule="all_done".
ReadyWhenAllDone(t) ==
    /\ run = "running"
    /\ state[t] \in {"none", "up_for_retry"}
    /\ \A u \in Upstream(t) : state[u] \in Finished

Ready(t) ==
    /\ run = "running"
    /\ state[t] \in {"none", "up_for_retry"}
    /\ \A u \in Upstream(t) : state[u] = "success"

\* An attempt begins, in a free slot of the executor.
Begin(t) ==
    /\ Ready(t)
    /\ t \notin EmptyTasks
    /\ Cardinality({u \in Tasks : state[u] = "running"}) < Parallelism
    /\ state' = [state EXCEPT ![t] = "running"]
    /\ tries' = [tries EXCEPT ![t] = @ + 1]
    /\ step' = [step EXCEPT ![t] = 0]
    /\ UNCHANGED <<runs, run, reported, faults>>

\* An EmptyOperator is marked successful without being run.
PassEmpty(t) ==
    /\ Ready(t)
    /\ t \in EmptyTasks
    /\ state' = [state EXCEPT ![t] = "success"]
    /\ UNCHANGED <<runs, run, tries, step, reported, faults>>

\* The callable returns: every command of it exited with 0.
Succeed(t) ==
    /\ state[t] = "running"
    /\ step[t] = Effects(t)
    /\ state' = [state EXCEPT ![t] = "success"]
    /\ UNCHANGED <<runs, run, tries, step, reported, faults>>

\* Mutant of FailFromUpstream: only a failed task is looked for.
FailBelowFailed(t) ==
    /\ run = "running"
    /\ state[t] = "none"
    /\ \E u \in Upstream(t) : state[u] = "failed"
    /\ state' = [state EXCEPT ![t] = "upstream_failed"]
    /\ UNCHANGED <<runs, run, tries, step, reported, faults>>

\* A task above t will never succeed.
FailFromUpstream(t) ==
    /\ run = "running"
    /\ state[t] = "none"
    /\ \E u \in Upstream(t) : state[u] \in {"failed", "upstream_failed"}
    /\ state' = [state EXCEPT ![t] = "upstream_failed"]
    /\ UNCHANGED <<runs, run, tries, step, reported, faults>>

\* Nothing is left to do: the run is what its last task is.
RunEnds ==
    /\ run = "running"
    /\ \A t \in Tasks : state[t] \in Finished
    /\ run' = IF state["end"] = "success" THEN "success" ELSE "failed"
    /\ UNCHANGED <<runs, state, tries, step, reported, faults>>

-----------------------------------------------------------------------------
(***************************************************************************)
(* What the effect of a task does to the task: its parts are conjuncts of  *)
(* the actions of Pipeline.                                                *)
(***************************************************************************)
At(t, k) == state[t] = "running" /\ step[t] = k

Done(t) ==
    /\ step' = [step EXCEPT ![t] = @ + 1]
    /\ UNCHANGED <<runs, run, state, tries, reported>>

\* A failure that is not retried: on_failure_callback emits the FAIL event.
FailForGood(t) ==
    /\ state' = [state EXCEPT ![t] = "failed"]
    /\ reported' = reported \cup {<<runs, t>>}
    /\ UNCHANGED <<runs, run, tries, step>>

\* Mutant of AttemptFails: the callback on every failure.
AttemptFailsReported(t) ==
    /\ state' = [state EXCEPT ![t] = IF tries[t] <= Retries THEN "up_for_retry" ELSE "failed"]
    /\ reported' = reported \cup {<<runs, t>>}
    /\ UNCHANGED <<runs, run, tries, step>>

\* A command exited with an error, or the attempt was killed.
AttemptFails(t) ==
    \/ /\ tries[t] <= Retries
       /\ state' = [state EXCEPT ![t] = "up_for_retry"]
       /\ UNCHANGED <<runs, run, tries, step, reported>>
    \/ /\ tries[t] > Retries
       /\ FailForGood(t)

NoFault == UNCHANGED faults

Fault ==
    /\ faults < MaxFaults
    /\ faults' = faults + 1

\* The attempt dies, before, between or after its effects.
Killed(t) ==
    /\ state[t] = "running"
    /\ Fault
    /\ AttemptFails(t)

Schedule ==
    \E t \in Tasks : Begin(t) \/ PassEmpty(t) \/ Succeed(t) \/ FailFromUpstream(t)

DagTypeOK ==
    /\ runs \in 0 .. MaxRuns
    /\ run \in {"none", "running", "success", "failed"}
    /\ state \in [Tasks -> {"none", "running", "up_for_retry"} \cup Finished]
    /\ tries \in [Tasks -> 0 .. Retries + 1]
    /\ \A t \in Tasks : step[t] \in 0 .. Effects(t)
    /\ reported \subseteq (1 .. MaxRuns) \X Tasks
    /\ faults \in 0 .. MaxFaults

=============================================================================
