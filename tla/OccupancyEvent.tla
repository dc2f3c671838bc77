-------------------------- MODULE OccupancyEvent --------------------------
(***************************************************************************)
(* One event of src/ingestion/producers/occupancy_producer.py: the curve   *)
(* its occupancy follows, the flow behind it, and the corruptions.         *)
(*                                                                         *)
(* Fractions are per mille.  A local hour is given in tenths of an hour,   *)
(* so that prayer times and their bumps are exact; the cosine between two  *)
(* whole hours lies between its values there, and a uniform random factor  *)
(* is taken at its ends, where what depends on it is extreme.              *)
(***************************************************************************)
EXTENDS OccupancyContract

CONSTANTS
    ZoneType,       \* zone -> its zone_type
    Wall            \* the producer's clock; --sim-start is minute 0

ASSUME EventAssumption ==
    /\ ZoneType \in [Zones -> STRING]
    /\ Wall \in Nat

\* zones.csv: the zone `corrupt` names is not there, the largest holds 60,000.
ASSUME ReferenceAssumption ==
    /\ "MATAF_99" \notin Zones
    /\ \A z \in Zones : Capacity[z] <= 60000

MaxOf(a, b) == IF a >= b THEN a ELSE b
MinOf(a, b) == IF a <= b THEN a ELSE b
Abs(n)      == MaxOf(n, -n)

ARAFAT_DAY   == 2
NAHR_DAY     == 3
JAMARAT_DAYS == {3, 4, 5}

CORRUPTION_TYPES ==
    {"over_capacity", "negative_entries", "unknown_zone", "future_timestamp",
     "string_for_int", "bad_sensor_status", "missing_event_id",
     "malformed_json", "extra_field", "null_zone_id"}

-----------------------------------------------------------------------------
\* Distance on the dial of a day.
Apart(h, p) == MinOf(Abs(h - p), 240 - Abs(h - p))

\* Mutant of Bump: the bump is not limited to an hour and a half.
BumpAllDay(h, p) == 300 - Apart(h, p)

Bump(h, p) == IF Apart(h, p) < 15 THEN 300 - 20 * Apart(h, p) ELSE 0

\* _prayer_boost: one bump around each of PRAYER_HOURS.
PrayerBoost(h) == Bump(h, 45) + Bump(h, 123) + Bump(h, 157) + Bump(h, 191) + Bump(h, 206)

\* _daynight at 15:00 and 1, 2, ... 12 hours from it.
Daynight == <<1000, 983, 933, 854, 750, 629, 500, 371, 250, 146, 67, 17, 0>>

\* The values the cosine is between at h.
DaynightRange(h) ==
    LET d == Apart(h, 150) \div 10 IN {Daynight[d + 1], Daynight[MinOf(d + 2, 13)]}

\* occupancy_factor before its random factor; `dn` is _daynight at h.
Curve(type, h, day, dn) ==
    CASE type \in {"TAWAF", "SAI", "ENTRANCE"} ->
            LET factor == 400 + (180 * dn) \div 1000 + PrayerBoost(h)
            IN  IF day = ARAFAT_DAY THEN (factor * 55) \div 100
                ELSE IF day = NAHR_DAY /\ h > 140 THEN (factor * 115) \div 100
                ELSE factor
      [] type = "RITUAL" ->
            IF day \notin JAMARAT_DAYS THEN 20
            ELSE IF h \in 80 .. 160 THEN 300 + (650 * MaxOf(0, 45 - Abs(h - 120))) \div 45
            ELSE 100
      [] type = "ACCOMMODATION" ->
            IF day = ARAFAT_DAY THEN 100 ELSE 750 - (450 * dn) \div 1000
      [] type = "GATHERING" ->
            IF day = ARAFAT_DAY /\ h \in 50 .. 190 THEN 850 ELSE 10
      [] type = "OVERNIGHT" ->
            IF (day = ARAFAT_DAY /\ h >= 190) \/ (day = NAHR_DAY /\ h <= 50) THEN 900 ELSE 10
      [] type = "TOURISM" -> IF h \in 90 .. 170 THEN 550 ELSE 30
      [] OTHER -> 300

\* Makkah is three hours ahead of UTC.
LocalHour(minute) == ((minute + 180) % 1440) \div 6

Share(n, permille) == (n * permille) \div 1000

\* occupancy_factor at a simulated minute.
Factors(type, minute, day) ==
    LET h == LocalHour(minute)
    IN  {Share(Curve(type, h, day, dn), swing) : dn \in DaynightRange(h), swing \in {900, 1100}}

\* entries and exits: the flow behind an occupancy.
Flow(occupancy, rate, most) ==
    LET churn == MaxOf(1, Share(occupancy, rate))
    IN  [entries |-> churn + (IF most THEN churn \div 2 ELSE 0),
         exits   |-> MaxOf(0, churn - (IF most THEN churn \div 3 ELSE 0))]

Event(z, minute, factor, rate, most, status) ==
    LET occupancy == Share(Capacity[z], factor)
        flow == Flow(occupancy, rate, most)
    IN  [event_id |-> Text("uuid4"), zone_id |-> Text(z), gate_id |-> Text("G"),
         event_time |-> Text(minute), entries |-> Num(flow.entries),
         exits |-> Num(flow.exits), occupancy_estimate |-> Num(occupancy),
         sensor_status |-> Text(status), schema_version |-> Text("1.0")]

\* build_event.  The status OFFLINE is tested after a weaker condition: never drawn.
BuildEvent(z, minute, day) ==
    {Event(z, minute, f, rate, most, status) :
        f \in Factors(ZoneType[z], minute, day), rate \in {10, 40}, most \in BOOLEAN,
        status \in {"OK", "DEGRADED"}}

\* corrupt
Corrupted(e, kind) ==
    CASE kind = "over_capacity"     -> Object([e EXCEPT !.occupancy_estimate = Num(999999)])
      [] kind = "negative_entries"  -> Object([e EXCEPT !.entries = Num(-42)])
      [] kind = "unknown_zone"      -> Object([e EXCEPT !.zone_id = Text("MATAF_99")])
      [] kind = "future_timestamp"  -> Object([e EXCEPT !.event_time = Text(Wall + 3 * 1440)])
      [] kind = "string_for_int"    -> Object([e EXCEPT !.entries = Text("1500")])
      [] kind = "bad_sensor_status" -> Object([e EXCEPT !.sensor_status = Text("BROKEN")])
      [] kind = "missing_event_id"  -> Object([f \in DOMAIN e \ {"event_id"} |-> e[f]])
      [] kind = "extra_field"       ->
            Object([f \in DOMAIN e \cup {"undeclared_column"} |->
                        IF f \in DOMAIN e THEN e[f] ELSE Text("surprise")])
      [] kind = "null_zone_id"      -> Object([e EXCEPT !.zone_id = Null])
      [] kind = "malformed_json"    -> Truncated
=============================================================================
