------------------------- MODULE OccupancyContract -------------------------
(***************************************************************************)
(* Stream A's contract (src/contracts/occupancy.py) against the zone       *)
(* reference set (zones.py), and what the bronze and gold suites expect of *)
(* the rows it lets through (src/quality/checkpoints.py).                  *)
(*                                                                         *)
(* A payload is truncated bytes or a JSON object: a function from field    *)
(* names to tagged values.  Times are minutes.                             *)
(***************************************************************************)
EXTENDS Integers

CONSTANTS
    Zones,          \* the zone_ids of zones.csv
    Capacity        \* zone -> its rated capacity

ASSUME ZonesAssumption == Capacity \in [Zones -> Nat \ {0}]

Num(n)  == [type |-> "number", val |-> n]
Text(s) == [type |-> "string", val |-> s]
Null    == [type |-> "null", val |-> 0]

Object(e) == [json |-> TRUE, fields |-> e]
Truncated == [json |-> FALSE, fields |-> <<>>]

-----------------------------------------------------------------------------
Texts    == {"event_id", "zone_id", "gate_id", "schema_version"}
Counts   == {"entries", "exits", "occupancy_estimate"}
Fields   == Texts \cup Counts \cup {"event_time", "sensor_status"}
Required == Fields \ {"schema_version"}
SensorStatuses == {"OK", "DEGRADED", "OFFLINE"}
FUTURE_TOLERANCE == 5

\* int(capacity * MAX_CAPACITY_MULTIPLE)
Ceiling(z) == (Capacity[z] * 3) \div 2

\* event_time_not_in_future
Ahead(minute, now) == minute > now + FUTURE_TOLERANCE

IsA(type, e, f) == f \in DOMAIN e /\ e[f].type = type

\* What a field can be rejected for, by the error type pydantic reports.
Rules(e) ==
    (Required \X {"missing"}) \cup ((DOMAIN e \ Fields) \X {"extra_forbidden"})
        \cup (Texts \X {"string_type"}) \cup (Counts \X {"int_type", "greater_than_equal"})
        \cup {<<"event_time", "datetime_type">>, <<"sensor_status", "literal_error">>,
              <<"zone_id", "value_error">>, <<"event_time", "value_error">>}

\* Mutant of WrongType: without strict=True a quoted number is a number.
WrongTypeUnlessNull(e, f, type) ==
    \/ type = "string_type" /\ f \in DOMAIN e /\ ~ IsA("string", e, f)
    \/ type \in {"int_type", "datetime_type"} /\ IsA("null", e, f)

\* strict=True: a value is of its field's type as it stands.
WrongType(e, f, type) ==
    \/ type \in {"string_type", "datetime_type"} /\ f \in DOMAIN e /\ ~ IsA("string", e, f)
    \/ type = "int_type" /\ f \in DOMAIN e /\ ~ IsA("number", e, f)

\* Mutant of WrongValue: entries and exits are not bounded below.
WrongValueUnbounded(e, f, type, now) ==
    \/ type = "literal_error" /\ f \in DOMAIN e
         /\ ~ (IsA("string", e, f) /\ e[f].val \in SensorStatuses)
    \/ type = "value_error" /\ IsA("string", e, f)
         /\ IF f = "zone_id" THEN e[f].val \notin Zones
                             ELSE Ahead(e[f].val, now)

\* Field(ge=0), the Literal, zone_must_be_known and event_time_not_in_future.
WrongValue(e, f, type, now) ==
    \/ type = "greater_than_equal" /\ IsA("number", e, f) /\ e[f].val < 0
    \/ type = "literal_error" /\ f \in DOMAIN e
         /\ ~ (IsA("string", e, f) /\ e[f].val \in SensorStatuses)
    \/ type = "value_error" /\ IsA("string", e, f)
         /\ IF f = "zone_id" THEN e[f].val \notin Zones
                             ELSE Ahead(e[f].val, now)

FieldErrors(e, now) ==
    {r \in Rules(e) :
        \/ r[2] = "missing" /\ r[1] \notin DOMAIN e
        \/ r[2] = "extra_forbidden"
        \/ WrongType(e, r[1], r[2])
        \/ WrongValue(e, r[1], r[2], now)}

OverCapacity(e) == e["occupancy_estimate"].val > Ceiling(e["zone_id"].val)

\* model_validate_json: the rule across fields is only tried on sound fields.
\* What it returns is what describe_validation_error lists.
Violations(p, now) ==
    IF ~ p.json THEN {<<"root", "json_invalid">>}
    ELSE LET errors == FieldErrors(p.fields, now)
         IN  IF errors = {} /\ OverCapacity(p.fields)
             THEN {<<"root", "value_error">>}
             ELSE errors

Accepts(p, now) == Violations(p, now) = {}

-----------------------------------------------------------------------------
MaxFlow        == 50000     \* entries, exits
MaxOccupancy   == 90000     \* occupancy_estimate
MaxUtilization == 20000     \* peak_utilization_pct, in hundredths of a percent

\* bronze_suite_expectations of one row; bronze columns have fixed types.
MeetsBronzeSuite(e) ==
    /\ e["zone_id"].val \in Zones
    /\ e["sensor_status"].val \in SensorStatuses
    /\ e["entries"].val \in 0 .. MaxFlow
    /\ e["exits"].val \in 0 .. MaxFlow
    /\ e["occupancy_estimate"].val \in 0 .. MaxOccupancy

\* n / d to the nearest whole number, a half rounded up.
Rounded(n, d) == (2 * n + d) \div (2 * d)

\* utilization_pct, in hundredths of a percent (build_silver_occupancy).
Utilization(e) == Rounded(e["occupancy_estimate"].val * 10000, Capacity[e["zone_id"].val])

\* gold_suite_expectations: no reading may put a peak above 200 %.
MeetsGoldSuite(e) == Utilization(e) \in 0 .. MaxUtilization
=============================================================================
