---------------------------- MODULE RequestObject ----------------------------
(***************************************************************************)
(* The Request class of src/ingestion/producers/service_request_producer.py*)
(* and the corruptions the producer applies to its events.                 *)
(*                                                                         *)
(* The seeded random numbers are `draws`: the times of a request's states  *)
(* and the transition, if any, that cancels it.  Time is counted from      *)
(* reported_at.                                                            *)
(***************************************************************************)
EXTENDS ServiceRequestContract, Sequences

CONSTANT Minutes    \* bound: the durations a draw can have, all positive

ASSUME MinutesAssumption == Minutes \subseteq Nat \ {0}

LIFECYCLE == <<"REPORTED", "ACKNOWLEDGED", "DISPATCHED", "ON_SITE", "RESOLVED">>
LastStep  == Len(LIFECYCLE) - 1

\* What one seed makes of one request: the two SLA durations drawn by the
\* constructor, the delay of each `advance`, and the step a cancellation
\* falls on (0 when there is none).
Draws == [response : Minutes, resolution : Minutes, delay : Minutes, cancel : 0 .. LastStep]

CORRUPTION_TYPES ==
    {"resolved_before_reported", "resolved_without_crew", "bad_priority",
     "missing_request_id", "updated_before_reported", "unknown_zone",
     "bad_category", "bad_language", "extra_field", "malformed_json"}

MaxOf(a, b) == IF a >= b THEN a ELSE b

-----------------------------------------------------------------------------
\* Request.__init__
NewRequest ==
    [status_index |-> 0, cancelled |-> FALSE, updated_at |-> 0,
     resolved_at |-> None, crew_id |-> None]

StatusOf(q) == IF q.cancelled THEN "CANCELLED" ELSE LIFECYCLE[q.status_index + 1]
Terminal(q) == q.cancelled \/ q.status_index >= LastStep

\* Request.advance
Cancelled(q, d) == [q EXCEPT !.cancelled = TRUE, !.updated_at = @ + d.delay]

\* Mutant of Progressed: the resolution is not kept after the arrival on site.
ProgressedToTarget(q, d) ==
    LET step   == q.status_index + 1
        status == LIFECYCLE[step + 1]
    IN  [q EXCEPT
            !.status_index = step,
            !.crew_id = IF status = "DISPATCHED" THEN {"crew"} ELSE @,
            !.resolved_at = IF status = "RESOLVED" THEN {d.resolution} ELSE @,
            !.updated_at = CASE status = "ACKNOWLEDGED" -> d.response
                             [] status = "RESOLVED"     -> d.resolution
                             [] OTHER                   -> @ + d.delay]

Progressed(q, d) ==
    LET step   == q.status_index + 1
        status == LIFECYCLE[step + 1]
        solved == MaxOf(d.resolution, q.updated_at + 1)
    IN  [q EXCEPT
            !.status_index = step,
            !.crew_id = IF status = "DISPATCHED" THEN {"crew"} ELSE @,
            !.resolved_at = IF status = "RESOLVED" THEN {solved} ELSE @,
            !.updated_at = CASE status = "ACKNOWLEDGED" -> d.response
                             [] status = "RESOLVED"     -> solved
                             [] OTHER                   -> @ + d.delay]

Advanced(q, d) ==
    IF d.cancel = q.status_index + 1 THEN Cancelled(q, d) ELSE Progressed(q, d)

\* The request after k advances: what every run with these draws makes of it.
State(d, k) ==
    LET after[i \in 0 .. k] == IF i = 0 THEN NewRequest ELSE Advanced(after[i - 1], d)
    IN  after[k]

\* Request.to_event
ToEvent(q) ==
    [json |-> "ok", zoneKnown |-> TRUE, categoryKnown |-> TRUE,
     priorityKnown |-> TRUE, languageKnown |-> TRUE, status |-> StatusOf(q),
     reported_at |-> 0, updated_at |-> q.updated_at,
     resolved_at |-> q.resolved_at, crew_id |-> q.crew_id]

\* corrupt: one of the kinds of damage, two hours or half an hour being two
\* or one units before reported_at.
Corrupted(e, type) ==
    CASE type = "resolved_before_reported" ->
            [e EXCEPT !.status = "RESOLVED", !.resolved_at = {-2}, !.crew_id = {"crew"}]
      [] type = "resolved_without_crew" ->
            [e EXCEPT !.status = "RESOLVED", !.crew_id = None, !.resolved_at = {e.updated_at}]
      [] type = "updated_before_reported" -> [e EXCEPT !.updated_at = -1]
      [] type = "bad_priority" -> [e EXCEPT !.priorityKnown = FALSE]
      [] type = "unknown_zone" -> [e EXCEPT !.zoneKnown = FALSE]
      [] type = "bad_category" -> [e EXCEPT !.categoryKnown = FALSE]
      [] type = "bad_language" -> [e EXCEPT !.languageKnown = FALSE]
      [] OTHER -> [e EXCEPT !.json = type]

=============================================================================
