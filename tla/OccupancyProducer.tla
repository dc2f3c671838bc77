------------------------- MODULE OccupancyProducer -------------------------
(***************************************************************************)
(* The main loop of src/ingestion/producers/occupancy_producer.py: one     *)
(* reading of each zone per tick, spread over the simulated days, until    *)
(* the budget of events is spent.                                          *)
(***************************************************************************)
EXTENDS OccupancyEvent, Sequences

CONSTANTS
    zone_ids,       \* sorted(zones.keys())
    SimDays,        \* --sim-days
    Budgets,        \* bound: the values --events takes
    Clocks          \* bound: the consumer's clocks that messages are held against

ASSUME ProducerAssumption ==
    /\ zone_ids \in Seq(Zones) /\ zone_ids # <<>>
    /\ SimDays \in Nat \ {0}
    /\ Budgets \subseteq Nat \ {0}
    /\ Clocks \subseteq Nat

VARIABLES
    events,     \* --events
    at,         \* "loop", "produce" (a message is ready) or "done"
    tick, place, sent,
    event,      \* the event as built
    kind        \* its corruption, or "none"

producerVars == <<events, at, tick, place, sent, event, kind>>

NoEvent == <<>>
ticks   == MaxOf(1, events \div Len(zone_ids))

\* sim_dt, counted from sim_start.
Minute == (tick * SimDays * 1440) \div ticks

ProducerInit ==
    /\ events \in Budgets
    /\ at = "loop"
    /\ tick = 0 /\ place = 1 /\ sent = 0
    /\ event = NoEvent /\ kind = "none"

\* Mutant of Build: the budget is looked at between the rounds only.
BuildWholeRounds ==
    /\ at = "loop"
    /\ place <= Len(zone_ids)
    /\ event' \in BuildEvent(zone_ids[place], Minute, Minute \div 1440)
    /\ kind' \in CORRUPTION_TYPES \cup {"none"}
    /\ at' = "produce"
    /\ UNCHANGED <<events, tick, place, sent>>

\* The next zone's event is built, and corrupted or not (--corrupt-rate, --scenario).
Build ==
    /\ at = "loop"
    /\ place <= Len(zone_ids)
    /\ sent < events
    /\ event' \in BuildEvent(zone_ids[place], Minute, Minute \div 1440)
    /\ kind' \in CORRUPTION_TYPES \cup {"none"}
    /\ at' = "produce"
    /\ UNCHANGED <<events, tick, place, sent>>

\* produce(); a full local queue only makes it wait.
Produce ==
    /\ at = "produce"
    /\ sent' = sent + 1
    /\ place' = place + 1
    /\ at' = "loop"
    /\ event' = NoEvent /\ kind' = "none"
    /\ UNCHANGED <<events, tick>>

\* All zones have reported, or the budget is spent; after the last tick,
\* flush(60), whose result is not looked at.
EndTick ==
    /\ at = "loop"
    /\ place > Len(zone_ids) \/ sent >= events
    /\ IF sent >= events \/ tick + 1 >= ticks
       THEN at' = "done" /\ UNCHANGED <<tick, place>>
       ELSE tick' = tick + 1 /\ place' = 1 /\ UNCHANGED at
    /\ UNCHANGED <<events, sent, event, kind>>

ProducerNext == Build \/ Produce \/ EndTick

ProducerSpec == ProducerInit /\ [][ProducerNext]_producerVars

-----------------------------------------------------------------------------
Payload == IF kind = "none" THEN Object(event) ELSE Corrupted(event, kind)

\* The reading's own time has come, by the clock `now`.
Due(now) == Minute <= now + FUTURE_TOLERANCE

(***************************************************************************)
(* No event that is not corrupted is refused, whatever the zone, the day   *)
(* and the hour, except by a clock that its simulated time is ahead of:    *)
(* the curve never crosses the plausibility rule, a flow is never          *)
(* negative.                                                               *)
(***************************************************************************)
GeneratedIsAccepted ==
    at = "produce" /\ kind = "none" =>
        \A now \in Clocks :
            Violations(Payload, now) =
                IF Due(now) THEN {} ELSE {<<"event_time", "value_error">>}

\* The rule meant for each corruption.
RuleOf(k) ==
    CASE k = "over_capacity"     -> <<"root", "value_error">>
      [] k = "negative_entries"  -> <<"entries", "greater_than_equal">>
      [] k = "unknown_zone"      -> <<"zone_id", "value_error">>
      [] k = "future_timestamp"  -> <<"event_time", "value_error">>
      [] k = "string_for_int"    -> <<"entries", "int_type">>
      [] k = "bad_sensor_status" -> <<"sensor_status", "literal_error">>
      [] k = "missing_event_id"  -> <<"event_id", "missing">>
      [] k = "extra_field"       -> <<"undeclared_column", "extra_forbidden">>
      [] k = "null_zone_id"      -> <<"zone_id", "string_type">>
      [] k = "malformed_json"    -> <<"root", "json_invalid">>

(***************************************************************************)
(* "Each corruption violates exactly one contract rule": read within three *)
(* days by a clock past the event, a corrupted message is refused for the  *)
(* rule meant and for no other.                                            *)
(***************************************************************************)
OneRulePerCorruption ==
    at = "produce" /\ kind # "none" =>
        \A now \in {n \in Clocks : Due(n) /\ n + FUTURE_TOLERANCE < Wall + 3 * 1440} :
            Violations(Payload, now) = {RuleOf(kind)}

(***************************************************************************)
(* Whatever the contract lets through of this stream meets the gate in     *)
(* front of silver and the suite kept for gold, row by row: the gates see  *)
(* "a VOLUME shortfall" and never a bad value.  (The contract alone does   *)
(* not promise it: it bounds entries and exits from below only.)           *)
(***************************************************************************)
AcceptedMeetsEverySuite ==
    at = "produce" =>
        \A now \in Clocks : Accepts(Payload, now) =>
            MeetsBronzeSuite(Payload.fields) /\ MeetsGoldSuite(Payload.fields)
=============================================================================
