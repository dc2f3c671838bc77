------------------------------ MODULE Lineage ------------------------------
(***************************************************************************)
(* The OpenLineage stream of a DAG run: src/lineage/emitter.py around each *)
(* instrumented stage, emit_fail.py behind on_failure_callback, next to    *)
(* the tasks of DagRun whose commands the stages are.                      *)
(*                                                                         *)
(* A lineage run is <<DAG run, task, attempt>>, since each attempt draws a *)
(* fresh uuid4; the callback's own is <<DAG run, task, 0>>.  An event is a *)
(* lineage run and a type; emit appends it to the events file, or raises.  *)
(***************************************************************************)
EXTENDS DagRun

\* The tasks whose command is a lineage_run; the producers, the sensor and
\* the smoke test are none.
Instrumented ==
    {"ingest_bronze_occupancy", "ingest_bronze_requests", "validate_bronze",
     "build_silver_occupancy", "build_silver_requests_merge", "validate_silver",
     "build_gold_zone_hourly", "refresh_rag_index"}

LineageRuns == (1 .. MaxRuns) \X Tasks \X (0 .. Retries + 1)

VARIABLES
    place,      \* stage -> where its command is: before "start", in the "body", before "fail",
                \* or "over" with its lineage_run
    events,     \* the events file
    cut         \* history: lineage runs whose process died or whose event was refused

emitVars == <<place, events, cut>>
lineageVars == <<dagVars, emitVars>>

LineageInit ==
    /\ DagInit
    /\ place = [t \in Instrumented |-> "start"]
    /\ events = {}
    /\ cut = {}

AttemptOf(t)  == <<runs, t, tries[t]>>
CallbackOf(f) == <<f[1], f[2], 0>>

AtPlace(t, p) == state[t] = "running" /\ place[t] = p

Emits(r, type) == events' = events \cup {<<r, type>>}

-----------------------------------------------------------------------------
(***************************************************************************)
(* The scheduler, and commands without lineage.                            *)
(***************************************************************************)
TriggerRun == Triggered /\ UNCHANGED emitVars

BeginTask(t) == Begin(t) /\ UNCHANGED emitVars

\* The next attempt starts the command anew.
Rewound(t) == IF t \in Instrumented THEN [place EXCEPT ![t] = "start"] ELSE place

\* The command exits with 0: its lineage_run, if it has one, is over.
ExitsWell(t) ==
    /\ t \in Instrumented => place[t] = "over"
    /\ Succeed(t)
    /\ place' = Rewound(t)
    /\ UNCHANGED <<events, cut>>

Settle ==
    /\ (\E t \in Tasks : PassEmpty(t) \/ FailFromUpstream(t)) \/ RunEnds
    /\ UNCHANGED emitVars

PlainEffect(t) ==
    /\ t \notin Instrumented
    /\ state[t] = "running"
    /\ step[t] < Effects(t)
    /\ Done(t) /\ NoFault
    /\ UNCHANGED emitVars

-----------------------------------------------------------------------------
(***************************************************************************)
(* lineage_run.                                                            *)
(***************************************************************************)
EmitStart(t) ==
    /\ AtPlace(t, "start")
    /\ Emits(AttemptOf(t), "START")
    /\ place' = [place EXCEPT ![t] = "body"]
    /\ UNCHANGED <<dagVars, cut>>

StageEffect(t) ==
    /\ AtPlace(t, "body")
    /\ step[t] < Effects(t)
    /\ Done(t) /\ NoFault
    /\ UNCHANGED emitVars

\* Mutant of BodyRaises: the exception passes by the handler, as one that is
\* no Exception would pass by `except Exception`.
BodyRaisesPast(t) ==
    /\ AtPlace(t, "body")
    /\ Fault /\ AttemptFails(t)
    /\ place' = Rewound(t)
    /\ UNCHANGED <<events, cut>>

\* The stage raises, before, between or after its effects.
BodyRaises(t) ==
    /\ AtPlace(t, "body")
    /\ Fault
    /\ place' = [place EXCEPT ![t] = "fail"]
    /\ UNCHANGED <<runs, run, state, tries, step, reported, events, cut>>

EmitComplete(t) ==
    /\ AtPlace(t, "body")
    /\ step[t] = Effects(t)
    /\ Emits(AttemptOf(t), "COMPLETE")
    /\ place' = [place EXCEPT ![t] = "over"]
    /\ UNCHANGED <<dagVars, cut>>

\* The FAIL event, and the exception goes on to the end of the command.
EmitFail(t) ==
    /\ AtPlace(t, "fail")
    /\ Emits(AttemptOf(t), "FAIL")
    /\ AttemptFails(t) /\ NoFault
    /\ place' = Rewound(t)
    /\ UNCHANGED cut

\* Mutant of EmitRefused: what emit raises is ignored.
EmitRefusedSilently(t) ==
    /\ AtPlace(t, "body")
    /\ step[t] = Effects(t)
    /\ Fault
    /\ place' = [place EXCEPT ![t] = "over"]
    /\ cut' = cut \cup {AttemptOf(t)}
    /\ UNCHANGED <<runs, run, state, tries, step, reported, events>>

\* The events file cannot be written: emit raises, whatever the stage has done,
\* and nothing catches it.
EmitRefused(t) ==
    /\ state[t] = "running"
    /\ place[t] = "body" => step[t] = Effects(t)
    /\ place[t] # "over"
    /\ Fault /\ AttemptFails(t)
    /\ place' = Rewound(t)
    /\ cut' = cut \cup {AttemptOf(t)}
    /\ UNCHANGED events

\* The command is killed.
KillCommand(t) ==
    /\ Killed(t)
    /\ place' = Rewound(t)
    /\ cut' = cut \cup {AttemptOf(t)}
    /\ UNCHANGED events

-----------------------------------------------------------------------------
(***************************************************************************)
(* on_failure_callback runs emit_fail once a task has failed for good,     *)
(* while the scheduler goes on.                                            *)
(***************************************************************************)
Emitted(r, type) == <<r, type>> \in events

CallbackStart(f) ==
    /\ CallbackOf(f) \notin cut
    /\ ~ Emitted(CallbackOf(f), "START")
    /\ Emits(CallbackOf(f), "START")
    /\ UNCHANGED <<dagVars, place, cut>>

CallbackFail(f) ==
    /\ CallbackOf(f) \notin cut
    /\ Emitted(CallbackOf(f), "START") /\ ~ Emitted(CallbackOf(f), "FAIL")
    /\ Emits(CallbackOf(f), "FAIL")
    /\ UNCHANGED <<dagVars, place, cut>>

\* check=False: nobody notices that emit_fail died or could not write.
CallbackLost(f) ==
    /\ CallbackOf(f) \notin cut
    /\ ~ Emitted(CallbackOf(f), "FAIL")
    /\ cut' = cut \cup {CallbackOf(f)}
    /\ UNCHANGED <<dagVars, place, events>>

-----------------------------------------------------------------------------
Stage(t) == EmitStart(t) \/ StageEffect(t) \/ EmitComplete(t) \/ EmitFail(t)

Advance ==
    \/ \E t \in Tasks : BeginTask(t) \/ ExitsWell(t) \/ PlainEffect(t)
    \/ Settle
    \/ \E t \in Instrumented : Stage(t)

Callback == \E f \in reported : CallbackStart(f) \/ CallbackFail(f)

LineageNext ==
    \/ TriggerRun
    \/ Advance
    \/ Callback
    \/ \E t \in Instrumented : BodyRaises(t) \/ EmitRefused(t)
    \/ \E t \in Tasks : KillCommand(t)
    \/ \E f \in reported : CallbackLost(f)

LineageSpec == LineageInit /\ [][LineageNext]_lineageVars

\* The scheduler goes on, commands come to an end, and so do callbacks.
FairLineageSpec == LineageSpec /\ WF_lineageVars(Advance) /\ WF_lineageVars(Callback)

-----------------------------------------------------------------------------
\* A lineage run whose process is still at work.
InProgress(r) ==
    \/ r[1] = runs /\ state[r[2]] = "running" /\ tries[r[2]] = r[3]
    \/ r[3] = 0 /\ <<r[1], r[2]>> \in reported

(***************************************************************************)
(* "emits START before it reads, COMPLETE after it writes": a lineage run  *)
(* has a START if it has any event, it never has both ends, and it lacks   *)
(* an end only while its process is at work or if that was cut short.      *)
(***************************************************************************)
RunsAreClosed ==
    \A r \in LineageRuns :
        /\ Emitted(r, "COMPLETE") \/ Emitted(r, "FAIL") => Emitted(r, "START")
        /\ ~ (Emitted(r, "COMPLETE") /\ Emitted(r, "FAIL"))
        /\ Emitted(r, "START") /\ ~ Emitted(r, "COMPLETE") /\ ~ Emitted(r, "FAIL") =>
              InProgress(r) \/ r \in cut

(***************************************************************************)
(* The stream is in the order of the data: where a stage of this DAG run   *)
(* has started, the last attempt of each stage it reads from has its       *)
(* COMPLETE, whatever was killed after it and tried again.                 *)
(***************************************************************************)
StartsAfterInputs ==
    \A t \in Instrumented, k \in 1 .. Retries + 1 :
        Emitted(<<runs, t, k>>, "START") =>
            \A u \in Upstream(t) \cap Instrumented : Emitted(<<runs, u, tries[u]>>, "COMPLETE")

(***************************************************************************)
(* "a task-level failure appears in the lineage stream even when the       *)
(* failure happened outside an instrumented stage": the callback reports   *)
(* each task that fails for good, unless emit_fail was cut short itself,   *)
(* and no failure that is tried again.                                     *)
(***************************************************************************)
FailedForGood == {t \in Tasks : state[t] = "failed"}
ReportOf(t)   == <<runs, t, 0>>
FailuresAppear ==
    /\ [](\A t \in Tasks \ FailedForGood : ~ Emitted(ReportOf(t), "START"))
    /\ []<>(\A t \in FailedForGood : Emitted(ReportOf(t), "FAIL") \/ ReportOf(t) \in cut)

=============================================================================
