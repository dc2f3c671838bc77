----------------------- MODULE ServiceRequestContract -----------------------
(***************************************************************************)
(* The contract of Stream B, src/contracts/service_request.py: which       *)
(* messages of the service request stream are accepted into bronze.        *)
(*                                                                         *)
(* A message is a record.  The fields whose rule is membership in a fixed  *)
(* set (zone, category, priority, language) carry only whether the value   *)
(* is a member; `json` is "ok", "malformed", or which key is wrong.        *)
(***************************************************************************)
EXTENDS Integers

Statuses == {"REPORTED", "ACKNOWLEDGED", "DISPATCHED", "ON_SITE", "RESOLVED", "CANCELLED"}

CREW_REQUIRED_STATUSES == {"DISPATCHED", "ON_SITE", "RESOLVED"}

\* A field that may be null is a set of at most one value.
None == {}

\* strict types and extra="forbid": the JSON has exactly the declared fields,
\* each in its value set.
WellFormed(m) ==
    /\ m.json = "ok"
    /\ m.zoneKnown /\ m.categoryKnown /\ m.priorityKnown /\ m.languageKnown
    /\ m.status \in Statuses

\* Mutant of LifecycleConsistent: no rule about the crew.
ConsistentWithoutCrew(m, now, tolerance) ==
    /\ m.updated_at >= m.reported_at
    /\ m.updated_at <= now + tolerance
    /\ m.status = "RESOLVED" =>
          m.resolved_at # None /\ \A t \in m.resolved_at : t >= m.reported_at

\* check_lifecycle_consistency, against the clock `now`.
LifecycleConsistent(m, now, tolerance) ==
    /\ m.updated_at >= m.reported_at
    /\ m.updated_at <= now + tolerance
    /\ m.status = "RESOLVED" =>
          m.resolved_at # None /\ \A t \in m.resolved_at : t >= m.reported_at
    /\ m.status \in CREW_REQUIRED_STATUSES => m.crew_id # None

Accepts(m, now, tolerance) ==
    WellFormed(m) /\ LifecycleConsistent(m, now, tolerance)

=============================================================================
