---------------------------- MODULE ProduceProofs ---------------------------
(***************************************************************************)
(* Proofs about the two producers and their contracts: for all zone tables,*)
(* budgets, clocks and numbers of simulated days, and for all numbers of   *)
(* requests and whatever the seed makes of them.                           *)
(***************************************************************************)
EXTENDS ProduceTestEvents, TLAPS

-----------------------------------------------------------------------------
\* Tenths of an hour of a day, and the ranges the occupancy goes through.
Tenths  == 0 .. 239
Weights == 0 .. 1000
Levels  == 0 .. 1012
Swung   == 0 .. 1500

(***************************************************************************)
(* The curve.                                                              *)
(***************************************************************************)
\* By day a bump is a triangle: the dial's other side is too far.
LEMMA BumpIsTriangle ==
    ASSUME NEW h \in Nat, h <= 239, NEW p \in Nat, 30 <= p, p <= 210
    PROVE  Bump(h, p) = IF h < p
                        THEN IF p - h < 15 THEN 300 - 20 * (p - h) ELSE 0
                        ELSE IF h - p < 15 THEN 300 - 20 * (h - p) ELSE 0
<1>1. CASE h < p
  BY <1>1 DEF Bump, Apart, MinOf, MaxOf, Abs
<1>2. CASE ~ h < p
  BY <1>2 DEF Bump, Apart, MinOf, MaxOf, Abs
<1>3. QED
  BY <1>1, <1>2

\* No bump reaches another by more than their sum allows.
LEMMA PrayerBoostBounded ==
    ASSUME NEW h \in Nat, h <= 239
    PROVE  PrayerBoost(h) \in Nat /\ PrayerBoost(h) <= 300
<1> DEFINE Triangle(p) == IF h < p
                          THEN IF p - h < 15 THEN 300 - 20 * (p - h) ELSE 0
                          ELSE IF h - p < 15 THEN 300 - 20 * (h - p) ELSE 0
<1>1. /\ Bump(h, 45) = Triangle(45) /\ Bump(h, 123) = Triangle(123) /\ Bump(h, 157) = Triangle(157)
      /\ Bump(h, 191) = Triangle(191) /\ Bump(h, 206) = Triangle(206)
  BY BumpIsTriangle
<1>2. CASE h <= 175
  BY <1>1, <1>2 DEF PrayerBoost
<1>3. CASE h > 175
  BY <1>1, <1>3 DEF PrayerBoost
<1>4. QED
  BY <1>2, <1>3

\* The day and night weight is a share.
LEMMA DaynightBounded ==
    ASSUME NEW h \in Tenths
    PROVE  DaynightRange(h) \subseteq Weights
<1>1. Apart(h, 150) \in 0 .. 120
  BY DEF Apart, MinOf, MaxOf, Abs, Tenths
<1> DEFINE d == Apart(h, 150) \div 10
<1>2. d \in 0 .. 12
  BY <1>1
<1>3. d + 1 \in 1 .. 13 /\ MinOf(d + 2, 13) \in 1 .. 13
  BY <1>2 DEF MinOf
<1>4. \A i \in 1 .. 13 : Daynight[i] \in 0 .. 1000
  BY DEF Daynight
<1>5. QED
  BY <1>3, <1>4 DEF DaynightRange, Weights

\* No zone is filled much beyond its capacity, on any day at any hour.
LEMMA CurveBounded ==
    ASSUME NEW type, NEW h \in Tenths, NEW day, NEW dn \in Weights
    PROVE  Curve(type, h, day, dn) \in Levels
<1>1. PrayerBoost(h) \in 0 .. 300
  <2>1. h \in Nat /\ h <= 239
    BY DEF Tenths
  <2>2. PrayerBoost(h) \in Nat /\ PrayerBoost(h) <= 300
    BY <2>1, PrayerBoostBounded
  <2>3. QED
    BY <2>2
<1>2. CASE type \in {"TAWAF", "SAI", "ENTRANCE"}
  <2> DEFINE factor == 400 + (180 * dn) \div 1000 + PrayerBoost(h)
  <2>1. factor \in 0 .. 880
    <3>1. PICK share \in 0 .. 180 : share = (180 * dn) \div 1000
      BY DEF Weights
    <3>2. PICK boost \in 0 .. 300 : boost = PrayerBoost(h)
      BY <1>1
    <3>3. 400 + share + boost \in 0 .. 880
      OBVIOUS
    <3>4. QED
      BY <3>1, <3>2, <3>3
  <2>2. /\ (factor * 55) \div 100 \in 0 .. 1012
        /\ (factor * 115) \div 100 \in 0 .. 1012
    BY <2>1
  <2>3. Curve(type, h, day, dn) \in {factor, (factor * 55) \div 100, (factor * 115) \div 100}
    BY <1>2 DEF Curve
  <2>4. QED
    BY <2>1, <2>2, <2>3 DEF Levels
<1>3. CASE type = "RITUAL"
  <2>1. PICK near \in 0 .. 45 : near = MaxOf(0, 45 - Abs(h - 120))
    BY DEF MaxOf, Abs, Tenths
  <2>2. 300 + (650 * near) \div 45 \in 0 .. 1012
    OBVIOUS
  <2>3. Curve(type, h, day, dn) \in {20, 100, 300 + (650 * near) \div 45}
    BY <1>3, <2>1 DEF Curve
  <2>4. QED
    BY <2>2, <2>3 DEF Levels
<1>4. CASE type = "ACCOMMODATION"
  BY <1>4 DEF Curve, Weights, Levels
<1>5. CASE type \notin {"TAWAF", "SAI", "ENTRANCE", "RITUAL", "ACCOMMODATION"}
  <2>1. Curve(type, h, day, dn) \in {850, 10, 900, 550, 30, 300}
    BY <1>5 DEF Curve
  <2>2. QED
    BY <2>1 DEF Levels
<1>6. QED
  BY <1>2, <1>3, <1>4, <1>5

LEMMA CurveInRange ==
    ASSUME NEW type, NEW h \in Tenths, NEW day, NEW dn \in DaynightRange(h)
    PROVE  Curve(type, h, day, dn) \in Levels
<1>1. dn \in Weights
  BY DaynightBounded
<1>2. QED
  BY <1>1, CurveBounded

LEMMA LocalHourInDay ==
    ASSUME NEW minute \in Nat
    PROVE  LocalHour(minute) \in Tenths
<1>1. (minute + 180) % 1440 \in 0 .. 1439
  OBVIOUS
<1>2. QED
  BY <1>1 DEF LocalHour, Tenths

\* What occupancy_factor returns, random factor included.
LEMMA FactorsBounded ==
    ASSUME NEW type, NEW minute \in Nat, NEW day
    PROVE  Factors(type, minute, day) \subseteq Swung
<1> DEFINE h == LocalHour(minute)
<1>1. h \in Tenths
  BY LocalHourInDay
<1> HIDE DEF h
<1>2. \A dn \in DaynightRange(h) : Curve(type, h, day, dn) \in Levels
  BY <1>1, CurveInRange
<1>3. \A dn \in DaynightRange(h), swing \in {900, 1100} :
          Share(Curve(type, h, day, dn), swing) \in Swung
  BY <1>2 DEF Share, Levels, Swung
<1>4. QED
  BY <1>3 DEF Factors, h

-----------------------------------------------------------------------------
(***************************************************************************)
(* The event.                                                              *)
(***************************************************************************)
\* A share of a capacity that stays below the plausibility rule.
LEMMA ShareBelowCeiling ==
    ASSUME NEW cap \in Nat, NEW f \in Swung
    PROVE  Share(cap, f) \in Nat /\ Share(cap, f) <= (cap * 3) \div 2
<1>1. cap * f \in Nat /\ cap * f <= cap * 1500
  BY DEF Swung
<1>2. (cap * 1500) \div 1000 = (cap * 3) \div 2
  OBVIOUS
<1>3. \A x, y \in Nat : x <= y => x \div 1000 \in Nat /\ x \div 1000 <= y \div 1000
  OBVIOUS
<1>4. cap * 1500 \in Nat
  OBVIOUS
<1>5. QED
  BY <1>1, <1>2, <1>3, <1>4 DEF Share

\* Nobody leaves a zone who is not there, and the flow is a small share.
LEMMA FlowBounded ==
    ASSUME NEW occupancy \in Nat, NEW rate \in {10, 40}, NEW most \in BOOLEAN
    PROVE  /\ Flow(occupancy, rate, most).entries \in Nat
           /\ Flow(occupancy, rate, most).exits \in Nat
           /\ occupancy <= MaxOccupancy => /\ Flow(occupancy, rate, most).entries <= MaxFlow
                                           /\ Flow(occupancy, rate, most).exits <= MaxFlow
<1> DEFINE churn == MaxOf(1, Share(occupancy, rate))
<1>1. churn \in Nat /\ (occupancy <= MaxOccupancy => churn <= 3600)
  BY DEF MaxOf, Share, MaxOccupancy
<1> HIDE DEF churn
<1>2. /\ Flow(occupancy, rate, most).entries = churn + (IF most THEN churn \div 2 ELSE 0)
      /\ Flow(occupancy, rate, most).exits = MaxOf(0, churn - (IF most THEN churn \div 3 ELSE 0))
  BY DEF Flow, churn
<1>3. QED
  BY <1>1, <1>2 DEF MaxOf, MaxFlow

\* An event as the producer builds it.
Sound(e, minute) ==
    /\ DOMAIN e = Fields
    /\ \A f \in Texts \cup {"event_time", "sensor_status"} : e[f].type = "string"
    /\ \A f \in Counts : e[f].type = "number" /\ e[f].val \in Nat
    /\ e["zone_id"].val \in Zones
    /\ e["sensor_status"].val \in SensorStatuses
    /\ e["event_time"].val = minute
    /\ e["occupancy_estimate"].val <= Ceiling(e["zone_id"].val)
    /\ e["occupancy_estimate"].val <= MaxOccupancy =>
          e["entries"].val <= MaxFlow /\ e["exits"].val <= MaxFlow

LEMMA OccupancyBelowCeiling ==
    ASSUME NEW z \in Zones, NEW f \in Swung
    PROVE  Share(Capacity[z], f) \in Nat /\ Share(Capacity[z], f) <= Ceiling(z)
<1>1. Capacity[z] \in Nat
  BY ZonesAssumption
<1>2. QED
  BY <1>1, ShareBelowCeiling DEF Ceiling

LEMMA BuiltIsSound ==
    ASSUME NEW z \in Zones, NEW minute \in Nat, NEW day, NEW e \in BuildEvent(z, minute, day)
    PROVE  Sound(e, minute)
<1>0. \A f \in Factors(ZoneType[z], minute, day) :
          Share(Capacity[z], f) \in Nat /\ Share(Capacity[z], f) <= Ceiling(z)
  <2>1. Factors(ZoneType[z], minute, day) \subseteq Swung
    BY FactorsBounded
  <2>2. QED
    BY <2>1, OccupancyBelowCeiling
<1>1. PICK f \in Factors(ZoneType[z], minute, day), rate \in {10, 40}, most \in BOOLEAN,
           status \in {"OK", "DEGRADED"} : e = Event(z, minute, f, rate, most, status)
  BY DEF BuildEvent
<1> DEFINE occupancy == Share(Capacity[z], f)
<1>2. occupancy \in Nat /\ occupancy <= Ceiling(z)
  BY <1>0
<1>3. /\ Flow(occupancy, rate, most).entries \in Nat
      /\ Flow(occupancy, rate, most).exits \in Nat
      /\ occupancy <= MaxOccupancy => /\ Flow(occupancy, rate, most).entries <= MaxFlow
                                      /\ Flow(occupancy, rate, most).exits <= MaxFlow
  BY <1>2, FlowBounded
<1> HIDE DEF occupancy
<1>4. e = [event_id |-> Text("uuid4"), zone_id |-> Text(z), gate_id |-> Text("G"),
           event_time |-> Text(minute), entries |-> Num(Flow(occupancy, rate, most).entries),
           exits |-> Num(Flow(occupancy, rate, most).exits), occupancy_estimate |-> Num(occupancy),
           sensor_status |-> Text(status), schema_version |-> Text("1.0")]
  BY <1>1 DEF Event, occupancy
<1>5. QED
  BY <1>1, <1>2, <1>3, <1>4 DEF Sound, Fields, Texts, Counts, SensorStatuses, Text, Num

-----------------------------------------------------------------------------
(***************************************************************************)
(* The contract.                                                           *)
(***************************************************************************)
\* What FieldErrors holds against one field of a payload.
Fails(e, f, type, now) ==
    \/ type = "missing" /\ f \notin DOMAIN e
    \/ type = "extra_forbidden"
    \/ WrongType(e, f, type)
    \/ WrongValue(e, f, type, now)

LEMMA ErrorsAreFailures ==
    ASSUME NEW e, NEW now
    PROVE  /\ \A r \in FieldErrors(e, now) : r \in Rules(e) /\ Fails(e, r[1], r[2], now)
           /\ \A f, type : <<f, type>> \in Rules(e) /\ Fails(e, f, type, now)
                             => <<f, type>> \in FieldErrors(e, now)
BY DEF FieldErrors, Fails

\* A rule is a field and an error type.
LEMMA RulesArePairs ==
    ASSUME NEW e, NEW r \in Rules(e)
    PROVE  /\ r = <<r[1], r[2]>>
           /\ \/ r[1] \in Required /\ r[2] = "missing"
              \/ r[1] \in DOMAIN e \ Fields /\ r[2] = "extra_forbidden"
              \/ r[1] \in Texts /\ r[2] = "string_type"
              \/ r[1] \in Counts /\ r[2] \in {"int_type", "greater_than_equal"}
              \/ r[1] = "event_time" /\ r[2] \in {"datetime_type", "value_error"}
              \/ r[1] = "sensor_status" /\ r[2] = "literal_error"
              \/ r[1] = "zone_id" /\ r[2] = "value_error"
BY DEF Rules

\* A field that is as it was built fails no rule but the clock's.
LEMMA SoundFieldsPass ==
    ASSUME NEW e, NEW minute \in Nat, NEW now \in Nat, Sound(e, minute),
           NEW g, NEW r \in FieldErrors(g, now),
           r[1] \in Fields, r[1] \in DOMAIN g, g[r[1]] = e[r[1]]
    PROVE  r = <<"event_time", "value_error">> /\ Ahead(minute, now)
<1>1. r \in Rules(g) /\ Fails(g, r[1], r[2], now)
  BY ErrorsAreFailures
<1>2. QED
  BY <1>1, RulesArePairs
     DEF Fails, WrongType, WrongValue, IsA, Sound, Fields, Texts, Counts, Ahead

\* A sound event is refused by a clock it is ahead of, and for that only.
LEMMA SoundIsAccepted ==
    ASSUME NEW e, NEW minute \in Nat, NEW now \in Nat, Sound(e, minute)
    PROVE  Violations(Object(e), now) =
               IF Ahead(minute, now) THEN {<<"event_time", "value_error">>} ELSE {}
<1>1. \A r \in FieldErrors(e, now) :
          r = <<"event_time", "value_error">> /\ Ahead(minute, now)
  <2> TAKE r \in FieldErrors(e, now)
  <2>1. r[1] \in Fields /\ r[1] \in DOMAIN e
    BY ErrorsAreFailures, RulesArePairs DEF Sound, Fields, Required, Texts, Counts
  <2>2. QED
    BY <2>1, SoundFieldsPass
<1>2. Ahead(minute, now) => <<"event_time", "value_error">> \in FieldErrors(e, now)
  <2>1. <<"event_time", "value_error">> \in Rules(e)
    BY DEF Rules
  <2>2. Ahead(minute, now) => Fails(e, "event_time", "value_error", now)
    BY DEF Fails, WrongValue, IsA, Sound, Fields, Texts, Counts
  <2>3. QED
    BY <2>1, <2>2, ErrorsAreFailures
<1>3. FieldErrors(e, now) =
          IF Ahead(minute, now) THEN {<<"event_time", "value_error">>} ELSE {}
  BY <1>1, <1>2
<1>4. ~ OverCapacity(e)
  BY ZonesAssumption DEF OverCapacity, Sound, Ceiling, Counts
<1>5. QED
  BY <1>3, <1>4 DEF Violations, Object

-----------------------------------------------------------------------------
(***************************************************************************)
(* The producer.                                                           *)
(***************************************************************************)
LEMMA QuotientIsNatural ==
    ASSUME NEW n \in Nat, NEW d \in Nat \ {0}
    PROVE  n \div d \in Nat
OBVIOUS

LEMMA ZonesInTurn ==
    /\ Len(zone_ids) \in Nat \ {0}
    /\ \A i \in 1 .. Len(zone_ids) : zone_ids[i] \in Zones
BY ProducerAssumption

\* What holds of the producer's variables: a message at hand is a sound event.
ProducerInv ==
    /\ events \in Nat \ {0}
    /\ tick \in Nat /\ place \in Nat \ {0} /\ sent \in Nat
    /\ at \in {"loop", "produce", "done"}
    /\ kind \in CORRUPTION_TYPES \cup {"none"}
    /\ at = "produce" => Sound(event, Minute)

LEMMA MinuteIsNatural ==
    ASSUME events \in Nat \ {0}, tick \in Nat
    PROVE  Minute \in Nat
<1>1. events \div Len(zone_ids) \in Nat
  BY QuotientIsNatural, ZonesInTurn
<1>2. ticks \in Nat \ {0}
  BY <1>1 DEF ticks, MaxOf
<1>3. tick * SimDays * 1440 \in Nat
  BY ProducerAssumption
<1>4. QED
  BY <1>2, <1>3, QuotientIsNatural DEF Minute

THEOREM ProducerInvariant == ProducerSpec => []ProducerInv
<1>1. ProducerInit => ProducerInv
  BY ProducerAssumption DEF ProducerInit, ProducerInv
<1>2. ProducerInv /\ [ProducerNext]_producerVars => ProducerInv'
  <2> SUFFICES ASSUME ProducerInv, [ProducerNext]_producerVars
               PROVE  ProducerInv'
    OBVIOUS
  <2>1. CASE Build
    <3>1. zone_ids[place] \in Zones
      BY <2>1, ZonesInTurn DEF Build, ProducerInv
    <3>2. Minute \in Nat /\ Minute' = Minute
      BY <2>1, MinuteIsNatural DEF ProducerInv, Build, Minute, ticks
    <3>3. Sound(event', Minute)
      BY <2>1, <3>1, <3>2, BuiltIsSound DEF Build
    <3>4. Sound(event, Minute)'
      BY <3>2, <3>3 DEF Sound
    <3>5. QED
      BY <2>1, <3>4 DEF Build, ProducerInv
  <2>2. CASE Produce
    BY <2>2 DEF Produce, ProducerInv
  <2>3. CASE EndTick
    BY <2>3 DEF EndTick, ProducerInv
  <2>4. CASE UNCHANGED producerVars
    <3>1. Minute' = Minute
      BY <2>4 DEF producerVars, Minute, ticks
    <3>2. QED
      BY <2>4, <3>1 DEF producerVars, ProducerInv
  <2>5. QED
    BY <2>1, <2>2, <2>3, <2>4 DEF ProducerNext
<1>3. QED
  BY <1>1, <1>2, PTL DEF ProducerSpec

(***************************************************************************)
(* What occupancy_producer.py builds, consumer.py takes: no zone, hour,    *)
(* day or capacity makes an event that is not corrupted fail the contract, *)
(* other than by a clock it is ahead of.                                   *)
(***************************************************************************)
THEOREM GeneratedEventsAreAccepted == ProducerSpec => []GeneratedIsAccepted
<1>1. ProducerInv => GeneratedIsAccepted
  <2> SUFFICES ASSUME ProducerInv, at = "produce", kind = "none", NEW now \in Clocks
               PROVE  Violations(Payload, now) =
                          IF Due(now) THEN {} ELSE {<<"event_time", "value_error">>}
    BY DEF GeneratedIsAccepted
  <2>1. Minute \in Nat /\ now \in Nat
    BY MinuteIsNatural, ProducerAssumption DEF ProducerInv
  <2>2. Sound(event, Minute) /\ Payload = Object(event)
    BY DEF ProducerInv, Payload
  <2>3. Ahead(Minute, now) <=> ~ Due(now)
    BY <2>1 DEF Ahead, Due, FUTURE_TOLERANCE
  <2>4. QED
    BY <2>1, <2>2, <2>3, SoundIsAccepted
<1>2. QED
  BY <1>1, ProducerInvariant, PTL

-----------------------------------------------------------------------------
(***************************************************************************)
(* The corruptions.                                                        *)
(***************************************************************************)
\* `g` is `e` but for one field.
DiffersAt(g, e, field) ==
    /\ Fields \ {field} \subseteq DOMAIN g
    /\ DOMAIN g \subseteq Fields \cup {field}
    /\ \A f \in Fields \ {field} : g[f] = e[f]

\* Read by a clock past the event, only the field that differs is refused.
LEMMA ErrorsAreWhereItDiffers ==
    ASSUME NEW e, NEW minute \in Nat, NEW now \in Nat, Sound(e, minute),
           ~ Ahead(minute, now), NEW g, NEW field, DiffersAt(g, e, field),
           NEW r \in FieldErrors(g, now)
    PROVE  r[1] = field
<1> SUFFICES ASSUME r[1] # field
             PROVE  FALSE
  OBVIOUS
<1>1. r[1] \in Fields /\ r[1] \in DOMAIN g
  BY ErrorsAreFailures, RulesArePairs
     DEF DiffersAt, Fields, Required, Texts, Counts
<1>2. g[r[1]] = e[r[1]]
  BY <1>1 DEF DiffersAt
<1>3. QED
  BY <1>1, <1>2, SoundFieldsPass

\* A rule that fails at the field that differs, and no other there, is the one.
LEMMA OnlyRule ==
    ASSUME NEW e, NEW minute \in Nat, NEW now \in Nat, Sound(e, minute),
           ~ Ahead(minute, now), NEW g, NEW field, DiffersAt(g, e, field), NEW type,
           <<field, type>> \in Rules(g), Fails(g, field, type, now),
           \A t : <<field, t>> \in Rules(g) /\ Fails(g, field, t, now) => t = type
    PROVE  Violations(Object(g), now) = {<<field, type>>}
<1>1. <<field, type>> \in FieldErrors(g, now)
  BY ErrorsAreFailures
<1>2. \A r \in FieldErrors(g, now) : r = <<field, type>>
  <2> TAKE r \in FieldErrors(g, now)
  <2>1. r[1] = field
    BY ErrorsAreWhereItDiffers
  <2>2. r = <<r[1], r[2]>> /\ r \in Rules(g) /\ Fails(g, r[1], r[2], now)
    BY ErrorsAreFailures, RulesArePairs
  <2>3. QED
    BY <2>1, <2>2
<1>3. FieldErrors(g, now) = {<<field, type>>}
  BY <1>1, <1>2
<1>4. QED
  BY <1>3 DEF Violations, Object

\* One field given another value: the event differs there, and has that value.
LEMMA ChangedDiffers ==
    ASSUME NEW e, NEW minute, Sound(e, minute), NEW field \in Fields, NEW v
    PROVE  /\ DiffersAt([e EXCEPT ![field] = v], e, field)
           /\ field \in DOMAIN [e EXCEPT ![field] = v]
           /\ [e EXCEPT ![field] = v][field] = v
BY DEF DiffersAt, Sound

LEMMA NegativeEntriesRule ==
    ASSUME NEW e, NEW minute \in Nat, NEW now \in Nat, Sound(e, minute), ~ Ahead(minute, now)
    PROVE  Violations(Corrupted(e, "negative_entries"), now) = {RuleOf("negative_entries")}
<1> DEFINE g == [e EXCEPT !.entries = Num(-42)]
<1>1. DiffersAt(g, e, "entries") /\ "entries" \in DOMAIN g /\ g["entries"] = Num(-42)
  BY ChangedDiffers DEF Fields, Counts
<1>2. Corrupted(e, "negative_entries") = Object(g)
  BY DEF Corrupted
<1> HIDE DEF g
<1>3. /\ <<"entries", "greater_than_equal">> \in Rules(g)
      /\ Fails(g, "entries", "greater_than_equal", now)
  BY <1>1 DEF Rules, Counts, Fails, WrongValue, IsA, Num
<1>4. \A t : <<"entries", t>> \in Rules(g) /\ Fails(g, "entries", t, now) => t = "greater_than_equal"
  BY <1>1, RulesArePairs DEF Fails, WrongValue, WrongType, IsA, Num, Fields, Counts, Texts
<1>5. QED
  BY <1>1, <1>2, <1>3, <1>4, OnlyRule DEF RuleOf

LEMMA UnknownZoneRule ==
    ASSUME NEW e, NEW minute \in Nat, NEW now \in Nat, Sound(e, minute), ~ Ahead(minute, now)
    PROVE  Violations(Corrupted(e, "unknown_zone"), now) = {RuleOf("unknown_zone")}
<1> DEFINE g == [e EXCEPT !.zone_id = Text("MATAF_99")]
<1>1. DiffersAt(g, e, "zone_id") /\ "zone_id" \in DOMAIN g /\ g["zone_id"] = Text("MATAF_99")
  BY ChangedDiffers DEF Fields, Counts, Texts
<1>2. Corrupted(e, "unknown_zone") = Object(g)
  BY DEF Corrupted
<1> HIDE DEF g
<1>3. /\ <<"zone_id", "value_error">> \in Rules(g)
      /\ Fails(g, "zone_id", "value_error", now)
  BY <1>1, ReferenceAssumption
     DEF Rules, Texts, Counts, Fails, WrongType, WrongValue, IsA, Text
<1>4. \A t : <<"zone_id", t>> \in Rules(g) /\ Fails(g, "zone_id", t, now) => t = "value_error"
  BY <1>1, RulesArePairs
     DEF Fails, WrongType, WrongValue, IsA, Fields, Texts, Counts, Text
<1>5. QED
  BY <1>1, <1>2, <1>3, <1>4, OnlyRule DEF RuleOf

LEMMA FutureTimestampRule ==
    ASSUME NEW e, NEW minute \in Nat, NEW now \in Nat, Sound(e, minute), ~ Ahead(minute, now),
           now + FUTURE_TOLERANCE < Wall + 3 * 1440
    PROVE  Violations(Corrupted(e, "future_timestamp"), now) = {RuleOf("future_timestamp")}
<1> DEFINE g == [e EXCEPT !.event_time = Text(Wall + 3 * 1440)]
<1>1. DiffersAt(g, e, "event_time") /\ "event_time" \in DOMAIN g /\ g["event_time"] = Text(Wall + 3 * 1440)
  BY ChangedDiffers DEF Fields, Counts, Texts
<1>2. Corrupted(e, "future_timestamp") = Object(g)
  BY DEF Corrupted
<1> HIDE DEF g
<1>3. /\ <<"event_time", "value_error">> \in Rules(g)
      /\ Fails(g, "event_time", "value_error", now)
  BY <1>1, EventAssumption
     DEF Rules, Texts, Counts, Fails, WrongType, WrongValue, IsA, Text, Ahead, FUTURE_TOLERANCE
<1>4. \A t : <<"event_time", t>> \in Rules(g) /\ Fails(g, "event_time", t, now) => t = "value_error"
  BY <1>1, RulesArePairs
     DEF Fails, WrongType, WrongValue, IsA, Fields, Texts, Counts, Text, Ahead, FUTURE_TOLERANCE
<1>5. QED
  BY <1>1, <1>2, <1>3, <1>4, OnlyRule DEF RuleOf

LEMMA StringForIntRule ==
    ASSUME NEW e, NEW minute \in Nat, NEW now \in Nat, Sound(e, minute), ~ Ahead(minute, now)
    PROVE  Violations(Corrupted(e, "string_for_int"), now) = {RuleOf("string_for_int")}
<1> DEFINE g == [e EXCEPT !.entries = Text("1500")]
<1>1. DiffersAt(g, e, "entries") /\ "entries" \in DOMAIN g /\ g["entries"] = Text("1500")
  BY ChangedDiffers DEF Fields, Counts, Texts
<1>2. Corrupted(e, "string_for_int") = Object(g)
  BY DEF Corrupted
<1> HIDE DEF g
<1>3. /\ <<"entries", "int_type">> \in Rules(g)
      /\ Fails(g, "entries", "int_type", now)
  BY <1>1
     DEF Rules, Texts, Counts, Fails, WrongType, WrongValue, IsA, Text
<1>4. \A t : <<"entries", t>> \in Rules(g) /\ Fails(g, "entries", t, now) => t = "int_type"
  BY <1>1, RulesArePairs
     DEF Fails, WrongType, WrongValue, IsA, Fields, Texts, Counts, Text
<1>5. QED
  BY <1>1, <1>2, <1>3, <1>4, OnlyRule DEF RuleOf

LEMMA BadSensorStatusRule ==
    ASSUME NEW e, NEW minute \in Nat, NEW now \in Nat, Sound(e, minute), ~ Ahead(minute, now)
    PROVE  Violations(Corrupted(e, "bad_sensor_status"), now) = {RuleOf("bad_sensor_status")}
<1> DEFINE g == [e EXCEPT !.sensor_status = Text("BROKEN")]
<1>1. DiffersAt(g, e, "sensor_status") /\ "sensor_status" \in DOMAIN g /\ g["sensor_status"] = Text("BROKEN")
  BY ChangedDiffers DEF Fields, Counts, Texts
<1>2. Corrupted(e, "bad_sensor_status") = Object(g)
  BY DEF Corrupted
<1> HIDE DEF g
<1>3. /\ <<"sensor_status", "literal_error">> \in Rules(g)
      /\ Fails(g, "sensor_status", "literal_error", now)
  BY <1>1
     DEF Rules, Texts, Counts, Fails, WrongType, WrongValue, IsA, Text, SensorStatuses
<1>4. \A t : <<"sensor_status", t>> \in Rules(g) /\ Fails(g, "sensor_status", t, now) => t = "literal_error"
  BY <1>1, RulesArePairs
     DEF Fails, WrongType, WrongValue, IsA, Fields, Texts, Counts, Text, SensorStatuses
<1>5. QED
  BY <1>1, <1>2, <1>3, <1>4, OnlyRule DEF RuleOf

LEMMA NullZoneIdRule ==
    ASSUME NEW e, NEW minute \in Nat, NEW now \in Nat, Sound(e, minute), ~ Ahead(minute, now)
    PROVE  Violations(Corrupted(e, "null_zone_id"), now) = {RuleOf("null_zone_id")}
<1> DEFINE g == [e EXCEPT !.zone_id = Null]
<1>1. DiffersAt(g, e, "zone_id") /\ "zone_id" \in DOMAIN g /\ g["zone_id"] = Null
  BY ChangedDiffers DEF Fields, Counts, Texts
<1>2. Corrupted(e, "null_zone_id") = Object(g)
  BY DEF Corrupted
<1> HIDE DEF g
<1>3. /\ <<"zone_id", "string_type">> \in Rules(g)
      /\ Fails(g, "zone_id", "string_type", now)
  BY <1>1
     DEF Rules, Texts, Counts, Fails, WrongType, WrongValue, IsA, Null
<1>4. \A t : <<"zone_id", t>> \in Rules(g) /\ Fails(g, "zone_id", t, now) => t = "string_type"
  BY <1>1, RulesArePairs
     DEF Fails, WrongType, WrongValue, IsA, Fields, Texts, Counts, Null
<1>5. QED
  BY <1>1, <1>2, <1>3, <1>4, OnlyRule DEF RuleOf

LEMMA MissingEventIdRule ==
    ASSUME NEW e, NEW minute \in Nat, NEW now \in Nat, Sound(e, minute), ~ Ahead(minute, now)
    PROVE  Violations(Corrupted(e, "missing_event_id"), now) = {RuleOf("missing_event_id")}
<1> DEFINE g == [f \in DOMAIN e \ {"event_id"} |-> e[f]]
<1>1. DiffersAt(g, e, "event_id") /\ "event_id" \notin DOMAIN g
  BY DEF DiffersAt, Sound
<1>2. Corrupted(e, "missing_event_id") = Object(g)
  BY DEF Corrupted
<1> HIDE DEF g
<1>3. <<"event_id", "missing">> \in Rules(g) /\ Fails(g, "event_id", "missing", now)
  BY <1>1 DEF Rules, Required, Fields, Texts, Fails
<1>4. \A t : <<"event_id", t>> \in Rules(g) /\ Fails(g, "event_id", t, now) => t = "missing"
  BY <1>1, RulesArePairs DEF Fails, WrongType, WrongValue, IsA, Fields, Texts, Counts
<1>5. QED
  BY <1>1, <1>2, <1>3, <1>4, OnlyRule DEF RuleOf

LEMMA ExtraFieldRule ==
    ASSUME NEW e, NEW minute \in Nat, NEW now \in Nat, Sound(e, minute), ~ Ahead(minute, now)
    PROVE  Violations(Corrupted(e, "extra_field"), now) = {RuleOf("extra_field")}
<1> DEFINE g == [f \in DOMAIN e \cup {"undeclared_column"} |->
                    IF f \in DOMAIN e THEN e[f] ELSE Text("surprise")]
<1>1. DiffersAt(g, e, "undeclared_column") /\ "undeclared_column" \in DOMAIN g \ Fields
  BY DEF DiffersAt, Sound, Fields, Texts, Counts
<1>2. Corrupted(e, "extra_field") = Object(g)
  BY DEF Corrupted
<1> HIDE DEF g
<1>3. /\ <<"undeclared_column", "extra_forbidden">> \in Rules(g)
      /\ Fails(g, "undeclared_column", "extra_forbidden", now)
  BY <1>1 DEF Rules, Fails
<1>4. \A t : <<"undeclared_column", t>> \in Rules(g) => t = "extra_forbidden"
  BY <1>1, RulesArePairs DEF Required, Fields, Texts, Counts
<1>5. QED
  BY <1>1, <1>2, <1>3, <1>4, OnlyRule DEF RuleOf

LEMMA OverCapacityRule ==
    ASSUME NEW e, NEW minute \in Nat, NEW now \in Nat, Sound(e, minute), ~ Ahead(minute, now)
    PROVE  Violations(Corrupted(e, "over_capacity"), now) = {RuleOf("over_capacity")}
<1> DEFINE g == [e EXCEPT !.occupancy_estimate = Num(999999)]
<1>1. /\ DiffersAt(g, e, "occupancy_estimate")
      /\ "occupancy_estimate" \in DOMAIN g /\ g["occupancy_estimate"] = Num(999999)
  BY ChangedDiffers DEF Fields, Counts
<1>2. Corrupted(e, "over_capacity") = Object(g)
  BY DEF Corrupted
<1> HIDE DEF g
<1>3. FieldErrors(g, now) = {}
  <2> SUFFICES ASSUME NEW r \in FieldErrors(g, now)
               PROVE  FALSE
    OBVIOUS
  <2>1. r[1] = "occupancy_estimate"
    BY <1>1, ErrorsAreWhereItDiffers
  <2>2. r \in Rules(g) /\ Fails(g, "occupancy_estimate", r[2], now)
    BY <2>1, ErrorsAreFailures
  <2>3. r[2] \in {"missing", "int_type", "greater_than_equal"}
    BY <1>1, <2>1, <2>2, RulesArePairs DEF Fields, Texts, Counts
  <2>4. QED
    BY <1>1, <2>2, <2>3 DEF Fails, WrongType, WrongValue, IsA, Num
<1>4. OverCapacity(g)
  <2>1. g["zone_id"].val \in Zones
    BY <1>1 DEF DiffersAt, Fields, Texts, Sound
  <2>2. Ceiling(g["zone_id"].val) <= 90000
    BY <2>1, ZonesAssumption, ReferenceAssumption DEF Ceiling
  <2>3. Ceiling(g["zone_id"].val) \in Nat
    BY <2>1, ZonesAssumption DEF Ceiling
  <2>4. QED
    BY <1>1, <2>2, <2>3 DEF OverCapacity, Num
<1>5. QED
  BY <1>2, <1>3, <1>4 DEF Violations, Object, RuleOf

(***************************************************************************)
(* "Each corruption violates exactly one contract rule"                    *)
(* (occupancy_producer.py:162), for every zone table that ReferenceAssump- *)
(* tion admits, and every event, hour and clock past the event.            *)
(***************************************************************************)
THEOREM CorruptionsAreRefusedByTheirRule == ProducerSpec => []OneRulePerCorruption
<1>1. ProducerInv => OneRulePerCorruption
  <2> SUFFICES ASSUME ProducerInv, at = "produce", kind # "none",
                      NEW now \in Clocks, Due(now), now + FUTURE_TOLERANCE < Wall + 3 * 1440
               PROVE  Violations(Payload, now) = {RuleOf(kind)}
    BY DEF OneRulePerCorruption
  <2>1. Minute \in Nat /\ now \in Nat
    BY MinuteIsNatural, ProducerAssumption DEF ProducerInv
  <2>2. /\ Sound(event, Minute) /\ Payload = Corrupted(event, kind)
        /\ kind \in CORRUPTION_TYPES
    BY DEF ProducerInv, Payload
  <2>3. ~ Ahead(Minute, now)
    BY <2>1 DEF Ahead, Due, FUTURE_TOLERANCE
  <2>4. CASE kind = "malformed_json"
    BY <2>2, <2>4 DEF Corrupted, Violations, Truncated, RuleOf
  <2>5. CASE kind \in {"over_capacity", "negative_entries", "unknown_zone", "future_timestamp",
                       "string_for_int"}
    BY <2>1, <2>2, <2>3, <2>5, OverCapacityRule, NegativeEntriesRule, UnknownZoneRule,
       FutureTimestampRule, StringForIntRule
  <2>6. CASE kind \in {"bad_sensor_status", "missing_event_id", "extra_field", "null_zone_id"}
    BY <2>1, <2>2, <2>3, <2>6, BadSensorStatusRule, MissingEventIdRule, ExtraFieldRule,
       NullZoneIdRule
  <2>7. QED
    BY <2>2, <2>4, <2>5, <2>6 DEF CORRUPTION_TYPES
<1>2. QED
  BY <1>1, ProducerInvariant, PTL

-----------------------------------------------------------------------------
(***************************************************************************)
(* The suites.                                                             *)
(***************************************************************************)
LEMMA CorruptedDiffers ==
    ASSUME NEW e, NEW minute, Sound(e, minute),
           NEW k \in CORRUPTION_TYPES \ {"future_timestamp", "malformed_json"}
    PROVE  \E g, field : /\ Corrupted(e, k) = Object(g)
                         /\ DiffersAt(g, e, field)
                         /\ field # "event_time"
<1>1. CASE k = "missing_event_id"
  <2> DEFINE g == [f \in DOMAIN e \ {"event_id"} |-> e[f]]
  <2>1. DiffersAt(g, e, "event_id")
    BY DEF DiffersAt, Sound
  <2>2. Corrupted(e, "missing_event_id") = Object(g)
    BY DEF Corrupted
  <2> HIDE DEF g
  <2>3. QED
    BY <1>1, <2>1, <2>2
<1>2. CASE k = "extra_field"
  <2> DEFINE g == [f \in DOMAIN e \cup {"undeclared_column"} |->
                      IF f \in DOMAIN e THEN e[f] ELSE Text("surprise")]
  <2>1. DiffersAt(g, e, "undeclared_column")
    BY DEF DiffersAt, Sound, Fields, Texts, Counts
  <2>2. Corrupted(e, "extra_field") = Object(g)
    BY DEF Corrupted
  <2> HIDE DEF g
  <2>3. QED
    BY <1>2, <2>1, <2>2
<1>3. CASE k \in {"over_capacity", "negative_entries", "unknown_zone", "string_for_int",
                  "bad_sensor_status", "null_zone_id"}
  <2> DEFINE g(field, v) == [e EXCEPT ![field] = v]
  <2>1. \A field \in Fields : \A v : DiffersAt(g(field, v), e, field)
    BY ChangedDiffers
  <2>2. Corrupted(e, "over_capacity") = Object(g("occupancy_estimate", Num(999999)))
    BY DEF Corrupted
  <2>3. Corrupted(e, "negative_entries") = Object(g("entries", Num(-42)))
    BY DEF Corrupted
  <2>4. Corrupted(e, "unknown_zone") = Object(g("zone_id", Text("MATAF_99")))
    BY DEF Corrupted
  <2>5. Corrupted(e, "string_for_int") = Object(g("entries", Text("1500")))
    BY DEF Corrupted
  <2>6. Corrupted(e, "bad_sensor_status") = Object(g("sensor_status", Text("BROKEN")))
    BY DEF Corrupted
  <2>7. Corrupted(e, "null_zone_id") = Object(g("zone_id", Null))
    BY DEF Corrupted
  <2> HIDE DEF g
  <2>8. {"occupancy_estimate", "entries", "zone_id", "sensor_status"} \subseteq Fields
    BY DEF Fields, Texts, Counts
  <2>9. QED
    BY <1>3, <2>1, <2>2, <2>3, <2>4, <2>5, <2>6, <2>7, <2>8
<1>4. QED
  BY <1>1, <1>2, <1>3 DEF CORRUPTION_TYPES

\* A clock that the event is ahead of refuses it, whatever else is wrong with it.
LEMMA AheadIsRefused ==
    ASSUME NEW e, NEW minute, NEW now, Sound(e, minute), Ahead(minute, now),
           NEW g, NEW field, DiffersAt(g, e, field), field # "event_time"
    PROVE  ~ Accepts(Object(g), now)
<1>1. "event_time" \in DOMAIN g /\ g["event_time"] = e["event_time"]
  BY DEF DiffersAt, Fields
<1>2. <<"event_time", "value_error">> \in Rules(g) /\ Fails(g, "event_time", "value_error", now)
  BY <1>1 DEF Rules, Fails, WrongValue, IsA, Sound
<1>3. FieldErrors(g, now) # {}
  BY <1>2, ErrorsAreFailures
<1>4. QED
  BY <1>3 DEF Accepts, Violations, Object

\* The only corruption a clock can let through is a time that has come.
LEMMA OnlyFutureIsEverAccepted ==
    ASSUME NEW e, NEW minute \in Nat, NEW now \in Nat, Sound(e, minute),
           NEW k \in CORRUPTION_TYPES, Accepts(Corrupted(e, k), now)
    PROVE  k = "future_timestamp"
<1> SUFFICES ASSUME k # "future_timestamp" PROVE FALSE
  OBVIOUS
<1>1. CASE k = "malformed_json"
  <2>1. ~ Corrupted(e, "malformed_json").json
    BY DEF Corrupted, Truncated
  <2>2. QED
    BY <1>1, <2>1 DEF Accepts, Violations
<1>2. CASE k # "malformed_json"
  <2>1. ~ Ahead(minute, now)
    <3>1. PICK g, field : Corrupted(e, k) = Object(g) /\ DiffersAt(g, e, field) /\ field # "event_time"
      BY <1>2, CorruptedDiffers
    <3>2. QED
      BY <3>1, AheadIsRefused
  <2>2. CASE k \in {"over_capacity", "negative_entries", "unknown_zone", "string_for_int"}
    BY <2>1, <2>2, OverCapacityRule, NegativeEntriesRule, UnknownZoneRule, StringForIntRule
       DEF Accepts
  <2>3. CASE k \in {"bad_sensor_status", "missing_event_id", "extra_field", "null_zone_id"}
    BY <2>1, <2>3, BadSensorStatusRule, MissingEventIdRule, ExtraFieldRule, NullZoneIdRule
       DEF Accepts
  <2>4. QED
    BY <1>2, <2>2, <2>3 DEF CORRUPTION_TYPES
<1>3. QED
  BY <1>1, <1>2

LEMMA QuotientBounded ==
    ASSUME NEW n \in Nat, NEW d \in Nat \ {0}, n <= d * 20000
    PROVE  n \div d \in Nat /\ n \div d <= 20000
BY SMT

\* utilization_pct of an occupancy within the plausibility rule.
LEMMA UtilizationBounded ==
    ASSUME NEW occupancy \in Nat, NEW cap \in Nat \ {0}, occupancy <= (cap * 3) \div 2
    PROVE  Rounded(occupancy * 10000, cap) \in Nat /\ Rounded(occupancy * 10000, cap) <= 20000
<1>1. 2 * occupancy <= 3 * cap
  BY SMT
<1>2. PICK n \in Nat : n = 2 * (occupancy * 10000) + cap
  BY SMT
<1>3. PICK d \in Nat \ {0} : d = 2 * cap
  BY SMT
<1>4. n <= d * 20000
  BY SMT, <1>1, <1>2, <1>3
<1>5. n \div d \in Nat /\ n \div d <= 20000
  BY SMT, <1>4, QuotientBounded
<1>6. QED
  BY SMT, <1>2, <1>3, <1>5 DEF Rounded

\* What a sound event has in the columns the suites read meets them.
LEMMA SoundMeetsSuites ==
    ASSUME NEW e, NEW minute, Sound(e, minute), NEW g,
           \A f \in Counts \cup {"zone_id", "sensor_status"} : g[f] = e[f]
    PROVE  MeetsBronzeSuite(g) /\ MeetsGoldSuite(g)
<1>1. /\ g["zone_id"].val \in Zones
      /\ g["sensor_status"].val \in SensorStatuses
      /\ g["occupancy_estimate"].val \in Nat
      /\ g["occupancy_estimate"].val <= Ceiling(g["zone_id"].val)
      /\ g["entries"].val \in Nat /\ g["exits"].val \in Nat
      /\ g["occupancy_estimate"].val <= MaxOccupancy =>
            g["entries"].val <= MaxFlow /\ g["exits"].val <= MaxFlow
  BY SMT DEF Sound, Counts
<1>2. PICK cap \in Nat \ {0} : cap = Capacity[g["zone_id"].val] /\ cap <= 60000
  BY SMT, <1>1, ZonesAssumption, ReferenceAssumption
<1>3. PICK occupancy \in Nat : occupancy = g["occupancy_estimate"].val
  BY <1>1
<1>4. occupancy <= (cap * 3) \div 2
  BY SMT, <1>1, <1>2, <1>3 DEF Ceiling
<1>5. occupancy <= MaxOccupancy /\ MaxOccupancy \in Nat /\ MaxFlow \in Nat
  BY SMT, <1>2, <1>4 DEF MaxOccupancy, MaxFlow
<1>6. MeetsBronzeSuite(g)
  BY SMT, <1>1, <1>3, <1>5 DEF MeetsBronzeSuite
<1>7. Rounded(occupancy * 10000, cap) \in Nat /\ Rounded(occupancy * 10000, cap) <= MaxUtilization
  BY SMT, <1>4, UtilizationBounded DEF MaxUtilization
<1>8. Utilization(g) = Rounded(occupancy * 10000, cap) /\ MaxUtilization \in Nat
  BY SMT, <1>2, <1>3 DEF Utilization, MaxUtilization
<1>9. QED
  BY SMT, <1>6, <1>7, <1>8 DEF MeetsGoldSuite

(***************************************************************************)
(* "What GE sees is a volume shortfall" (README.md:199): of this producer, *)
(* corruptions included, for every zone table ReferenceAssumption admits,  *)
(* a row that passed the contract meets the bronze and the gold suite.     *)
(***************************************************************************)
THEOREM AcceptedEventsMeetTheSuites == ProducerSpec => []AcceptedMeetsEverySuite
<1>1. ProducerInv => AcceptedMeetsEverySuite
  <2> SUFFICES ASSUME ProducerInv, at = "produce", NEW now \in Clocks, Accepts(Payload, now)
               PROVE  MeetsBronzeSuite(Payload.fields) /\ MeetsGoldSuite(Payload.fields)
    BY DEF AcceptedMeetsEverySuite
  <2>1. Minute \in Nat /\ now \in Nat /\ Sound(event, Minute)
    BY MinuteIsNatural, ProducerAssumption DEF ProducerInv
  <2>2. CASE kind = "none"
    BY <2>1, <2>2, SoundMeetsSuites DEF Payload, Object
  <2>3. CASE kind # "none"
    <3>1. Payload = Corrupted(event, kind) /\ kind \in CORRUPTION_TYPES
      BY <2>3 DEF Payload, ProducerInv
    <3>2. kind = "future_timestamp"
      BY <2>1, <3>1, OnlyFutureIsEverAccepted
    <3> DEFINE g == [event EXCEPT !.event_time = Text(Wall + 3 * 1440)]
    <3>3. Payload.fields = g
      BY <3>1, <3>2 DEF Corrupted, Object
    <3>4. \A f \in Counts \cup {"zone_id", "sensor_status"} : g[f] = event[f]
      BY <2>1 DEF Sound, Counts, Fields, Texts
    <3>5. QED
      BY <2>1, <3>3, <3>4, SoundMeetsSuites
  <2>4. QED
    BY <2>2, <2>3
<1>2. QED
  BY <1>1, ProducerInvariant, PTL
-----------------------------------------------------------------------------
(***************************************************************************)
(* The request producer, the second stage of the task.                     *)
(***************************************************************************)
\* No duration is longer.
Span == Now \div 4

LEMMA DurationsFit ==
    /\ Span \in Nat /\ 4 * Span <= Now
    /\ \A m \in Minutes : m \in Nat /\ 1 <= m /\ m <= Span
<1>1. Now \in Nat
  BY ClockAssumption
<1>2. Span \in Nat /\ 4 * Span <= Now
  BY <1>1 DEF Span
<1>3. ASSUME NEW m \in Minutes PROVE m \in Nat /\ 1 <= m /\ m <= Span
  <2>1. m \in Nat \ {0} /\ 4 * m <= Now
    BY RequestAssumption, ClockAssumption
  <2>2. QED
    BY <1>1, <2>1 DEF Span
<1>4. QED
  BY <1>2, <1>3

RequestShape ==
    [status_index : 0 .. 4, cancelled : BOOLEAN, updated_at : Nat,
     resolved_at : SUBSET Nat, crew_id : {R!None, {"crew"}}]

\* A Request object that advances have made: it has a crew from DISPATCHED on
\* and a resolution at RESOLVED, is cancelled before that or not at all, and
\* each step took at most a span.
SoundRequest(q) ==
    /\ q \in RequestShape
    /\ q.cancelled => q.status_index < 4
    /\ q.updated_at <= (IF q.cancelled THEN q.status_index + 1 ELSE q.status_index) * Span
    /\ q.status_index >= 2 => q.crew_id = {"crew"}
    /\ q.status_index = 4 => q.resolved_at # {}

LEMMA NewIsSound ==
    /\ SoundRequest(R!NewRequest)
    /\ ~ R!Terminal(R!NewRequest)
BY DurationsFit DEF SoundRequest, RequestShape, R!NewRequest, R!Terminal, R!None, R!LastStep, R!LIFECYCLE

(* An advance keeps a request sound, and makes it younger. *)
LEMMA AdvancedIsSoundAndLater ==
    ASSUME NEW q, SoundRequest(q), ~ R!Terminal(q), NEW d \in R!Draws
    PROVE  /\ SoundRequest(R!Advanced(q, d))
           /\ q.updated_at < R!Advanced(q, d).updated_at
<1> DEFINE i == q.status_index
           u == q.updated_at
           bound == (i + 1) * Span
<1>1. /\ q \in RequestShape
      /\ i \in 0 .. 3 /\ ~ q.cancelled
      /\ u \in Nat /\ u <= i * Span
      /\ i >= 2 => q.crew_id = {"crew"}
  BY DEF SoundRequest, RequestShape, R!Terminal, R!LastStep, R!LIFECYCLE
<1>2. /\ d.response \in Nat /\ 1 <= d.response /\ d.response <= Span
      /\ d.resolution \in Nat /\ 1 <= d.resolution /\ d.resolution <= Span
      /\ d.delay \in Nat /\ 1 <= d.delay /\ d.delay <= Span
  BY DurationsFit DEF R!Draws
<1> HIDE DEF bound
<1>3. CASE d.cancel = i + 1
  <2> DEFINE n == [q EXCEPT !.cancelled = TRUE, !.updated_at = u + d.delay]
  <2>1. R!Advanced(q, d) = n
    BY <1>3 DEF R!Advanced, R!Cancelled
  <2>2. u + d.delay \in Nat /\ u < u + d.delay /\ u + d.delay <= bound
    BY <1>1, <1>2, DurationsFit DEF bound
  <2>3. /\ n.status_index = i /\ n.cancelled /\ n.updated_at = u + d.delay
        /\ n.resolved_at = q.resolved_at /\ n.crew_id = q.crew_id
        /\ n \in RequestShape
    BY <1>1, <2>2 DEF RequestShape
  <2> HIDE DEF n
  <2>4. SoundRequest(n)
    BY <1>1, <2>2, <2>3 DEF SoundRequest, bound
  <2>5. QED
    BY <2>1, <2>2, <2>3, <2>4
<1>4. CASE d.cancel # i + 1
  <2> DEFINE n == R!Progressed(q, d)
             status == R!LIFECYCLE[i + 2]
             solved == R!MaxOf(d.resolution, u + 1)
             later == CASE status = "ACKNOWLEDGED" -> d.response
                        [] status = "RESOLVED"     -> solved
                        [] OTHER                   -> u + d.delay
  <2>1. R!Advanced(q, d) = n
    BY <1>4 DEF R!Advanced
  <2>2. solved \in Nat /\ u < solved
    BY <1>1, <1>2 DEF R!MaxOf
  <2>3. /\ i = 0 => status = "ACKNOWLEDGED"
        /\ i = 1 => status = "DISPATCHED"
        /\ i = 2 => status = "ON_SITE"
        /\ i = 3 => status = "RESOLVED"
    BY <1>1 DEF R!LIFECYCLE
  <2>4. i + 1 + 1 = i + 2
    BY <1>1
  <2> HIDE DEF status, solved
  <2>5. later \in Nat /\ u < later /\ later <= bound
    <3>1. CASE i = 0
      BY <1>1, <1>2, <2>3, <3>1, DurationsFit DEF bound
    <3>2. CASE i = 1 \/ i = 2
      BY <1>1, <1>2, <2>3, <3>2, DurationsFit DEF bound
    <3>3. CASE i = 3
      <4>1. solved <= 4 * Span
        BY <1>1, <1>2, <3>3, DurationsFit DEF R!MaxOf, solved
      <4>2. QED
        BY <1>1, <2>2, <2>3, <3>3, <4>1 DEF bound
    <3>4. QED
      BY <1>1, <3>1, <3>2, <3>3
  <2>6. n = [q EXCEPT !.status_index = i + 1,
                      !.crew_id = IF status = "DISPATCHED" THEN {"crew"} ELSE q.crew_id,
                      !.resolved_at = IF status = "RESOLVED" THEN {solved} ELSE q.resolved_at,
                      !.updated_at = later]
    BY <2>4 DEF R!Progressed, status, solved
  <2> HIDE DEF n, later
  <2>7. /\ n.status_index = i + 1 /\ ~ n.cancelled /\ n.updated_at = later
        /\ n.resolved_at = IF status = "RESOLVED" THEN {solved} ELSE q.resolved_at
        /\ n.crew_id = IF status = "DISPATCHED" THEN {"crew"} ELSE q.crew_id
    BY <1>1, <2>6 DEF RequestShape
  <2>8. n \in RequestShape
    <3>1. i + 1 \in 0 .. 4 /\ {solved} \in SUBSET Nat
      BY <1>1, <2>2
    <3>2. QED
      BY <1>1, <2>5, <2>6, <3>1 DEF RequestShape
  <2>9. n.status_index >= 2 => n.crew_id = {"crew"}
    BY <1>1, <2>3, <2>7
  <2>10. ASSUME n.status_index = 4 PROVE n.resolved_at # {}
    <3>1. status = "RESOLVED"
      BY <1>1, <2>3, <2>7, <2>10
    <3>2. n.resolved_at = {solved}
      BY <2>7, <3>1
    <3>3. QED
      BY <3>2
  <2>11. u < n.updated_at /\ n.updated_at <= bound
    BY <2>5, <2>7
  <2>12. n.status_index = i + 1 /\ n.cancelled = FALSE
    BY <1>1, <2>7, <2>8 DEF RequestShape
  <2>13. SoundRequest(n)
    BY <2>8, <2>9, <2>10, <2>11, <2>12 DEF SoundRequest, bound
  <2>14. QED
    BY <2>1, <2>11, <2>13
<1>5. QED
  BY <1>3, <1>4

(* The contract accepts what a sound request sends. *)
LEMMA SoundRequestIsAccepted ==
    ASSUME NEW q, SoundRequest(q)
    PROVE  R!Accepts(R!ToEvent(q), Now, 0)
<1> DEFINE e == R!ToEvent(q)
<1>1. q.updated_at \in Nat /\ q.updated_at <= Now
  <2>1. q.updated_at \in Nat /\ q.status_index \in 0 .. 4 /\ (q.cancelled => q.status_index < 4)
    BY DEF SoundRequest, RequestShape
  <2>2. q.updated_at <= 4 * Span
    <3>1. CASE q.cancelled
      BY <2>1, <3>1, DurationsFit DEF SoundRequest
    <3>2. CASE ~ q.cancelled
      BY <2>1, <3>2, DurationsFit DEF SoundRequest
    <3>3. QED
      BY <3>1, <3>2
  <2>3. QED
    BY <2>1, <2>2, DurationsFit, ClockAssumption
<1>2. /\ R!StatusOf(q) \in R!Statuses
      /\ R!StatusOf(q) = "RESOLVED" => q.status_index = 4
      /\ R!StatusOf(q) \in R!CREW_REQUIRED_STATUSES => q.status_index >= 2
  BY DEF SoundRequest, RequestShape, R!StatusOf, R!LIFECYCLE, R!Statuses,
         R!CREW_REQUIRED_STATUSES
<1>3. R!WellFormed(e)
  BY <1>2 DEF R!WellFormed, R!ToEvent
<1>4. R!LifecycleConsistent(e, Now, 0)
  <2>1. e.updated_at >= e.reported_at /\ e.updated_at <= Now + 0
    BY <1>1, ClockAssumption DEF R!ToEvent
  <2>2. e.status = "RESOLVED" =>
            e.resolved_at # R!None /\ \A t \in e.resolved_at : t >= e.reported_at
    <3>1. q.status_index = 4 => q.resolved_at # {} /\ \A t \in q.resolved_at : t \in Nat
      BY DEF SoundRequest, RequestShape
    <3>2. QED
      BY <1>2, <3>1 DEF R!ToEvent, R!None
  <2>3. e.status \in R!CREW_REQUIRED_STATUSES => e.crew_id # R!None
    <3>1. {"crew"} # {}
      OBVIOUS
    <3>2. QED
      BY <1>2, <3>1 DEF SoundRequest, R!ToEvent, R!None
  <2>4. QED
    BY <2>1, <2>2, <2>3 DEF R!LifecycleConsistent
<1>5. QED
  BY <1>3, <1>4 DEF R!Accepts

(* The contract refuses every corruption of it. *)
LEMMA CorruptedRequestIsRefused ==
    ASSUME NEW q, NEW type \in R!CORRUPTION_TYPES
    PROVE  ~ R!Accepts(R!Corrupted(R!ToEvent(q), type), Now, 0)
<1> USE DEF R!Accepts, R!WellFormed, R!LifecycleConsistent, R!Corrupted, R!ToEvent
<1>1. CASE type = "resolved_before_reported"
  <2>1. ~ (-2 >= 0)
    OBVIOUS
  <2>2. QED
    BY <1>1, <2>1
<1>2. CASE type = "resolved_without_crew"
  BY <1>2 DEF R!None, R!CREW_REQUIRED_STATUSES
<1>3. CASE type = "updated_before_reported"
  BY <1>3
<1>4. CASE type \in {"bad_priority", "unknown_zone", "bad_category", "bad_language"}
  BY <1>4
<1>5. CASE type \in {"missing_request_id", "extra_field", "malformed_json"}
  BY <1>5
<1>6. QED
  BY <1>1, <1>2, <1>3, <1>4, <1>5 DEF R!CORRUPTION_TYPES

-----------------------------------------------------------------------------
\* What sound requests send.
SoundMessages == {R!ToEvent(q) : q \in {p \in RequestShape : SoundRequest(p)}}

\* The messages are sound, those of one request younger and younger, and none
\* of them younger than the request is.
TopicInv ==
    /\ topic \in Seq(R!Requests \X SoundMessages)
    /\ \A i \in 1 .. Len(topic) : topic[i][2].updated_at <= object[topic[i][1]].updated_at
    /\ \A i, j \in 1 .. Len(topic) :
          i < j /\ topic[i][1] = topic[j][1] => topic[i][2].updated_at < topic[j][2].updated_at

\* Once the requests are constructed: as they came from the constructor, until
\* the first pass begins.
ObjectInv ==
    /\ draw \in [R!Requests -> R!Draws]
    /\ DOMAIN object = R!Requests
    /\ \A r \in R!Requests : SoundRequest(object[r])
    /\ phase = "report" => \A r \in R!Requests : object[r] = R!NewRequest

\* A list that names each request at most once, and only such as go on.
Advancing(list) ==
    /\ list \in Seq(R!Requests)
    /\ \A i, j \in 1 .. Len(list) : list[i] = list[j] => i = j
    /\ phase \in {"report", "advance"} =>
          \A i \in 1 .. Len(list) : ~ R!Terminal(object[list[i]])

\* A pass comes to each request once, and leaves to the next pass none that it
\* has yet to come to.
PassInv ==
    /\ Advancing(pass) /\ Advancing(open)
    /\ \A i \in 1 .. Len(pass), j \in 1 .. Len(open) : pass[i] # open[j]
    /\ phase = "report" =>
          /\ open = <<>>
          /\ \A i \in 1 .. Len(pass), j \in 1 .. Len(topic) : topic[j][1] # pass[i]

RequestInv ==
    /\ phase \in {"start", "report", "advance", "done"}
    /\ phase = "start" => topic = <<>> /\ pass = <<>> /\ open = <<>>
    /\ phase # "start" => TopicInv /\ ObjectInv /\ PassInv

(* Sending a state that is sound and later than any sent before keeps the  *)
(* topic in order.                                                         *)
LEMMA EmitKeepsTopic ==
    ASSUME TopicInv, NEW r \in R!Requests, NEW q, SoundRequest(q), R!Emit(r, q),
           q.updated_at <= object'[r].updated_at,
           \A i \in 1 .. Len(topic) : topic[i][1] = r => topic[i][2].updated_at < q.updated_at,
           \A s \in R!Requests : s # r => object'[s] = object[s],
           object[r].updated_at <= object'[r].updated_at,
           \A s \in R!Requests : object[s].updated_at \in Nat /\ object'[s].updated_at \in Nat
    PROVE  TopicInv'
<1> DEFINE m == R!ToEvent(q)
           n == Len(topic)
<1>1. q \in RequestShape /\ m \in SoundMessages /\ m.updated_at = q.updated_at
  BY DEF SoundRequest, SoundMessages, R!ToEvent
<1>2. topic \in Seq(R!Requests \X SoundMessages) /\ n \in Nat
  BY DEF TopicInv
<1>3. topic' = Append(topic, <<r, m>>)
  BY DEF R!Emit
<1>4. \A p \in SoundMessages : p.updated_at \in Nat
  BY DEF SoundMessages, RequestShape, R!ToEvent
<1>5. /\ topic' \in Seq(R!Requests \X SoundMessages)
      /\ Len(topic') = n + 1
      /\ \A i \in 1 .. n : topic'[i] = topic[i]
      /\ topic'[n + 1] = <<r, m>>
  BY <1>1, <1>2, <1>3
<1>6. \A i \in 1 .. n : topic[i][1] \in R!Requests /\ topic[i][2].updated_at \in Nat
  <2> SUFFICES ASSUME NEW i \in 1 .. n
               PROVE  topic[i][1] \in R!Requests /\ topic[i][2].updated_at \in Nat
    OBVIOUS
  <2>1. topic[i] \in R!Requests \X SoundMessages
    BY <1>2
  <2>2. QED
    BY <1>4, <2>1
<1> HIDE DEF m, n
<1>7. ASSUME NEW i \in 1 .. n + 1
      PROVE  topic'[i][2].updated_at <= object'[topic'[i][1]].updated_at
  <2>1. CASE i = n + 1
    BY <1>1, <1>5, <2>1
  <2>2. CASE i \in 1 .. n
    <3>1. topic[i][2].updated_at <= object[topic[i][1]].updated_at
      BY <2>2 DEF TopicInv, n
    <3>2. object[topic[i][1]].updated_at <= object'[topic[i][1]].updated_at
      BY <1>6, <2>2
    <3>3. topic[i][2].updated_at <= object'[topic[i][1]].updated_at
      BY <1>6, <2>2, <3>1, <3>2
    <3>4. QED
      BY <1>5, <2>2, <3>3
  <2>3. QED
    BY <1>2, <2>1, <2>2
<1>8. ASSUME NEW i \in 1 .. n + 1, NEW j \in 1 .. n + 1, i < j, topic'[i][1] = topic'[j][1]
      PROVE  topic'[i][2].updated_at < topic'[j][2].updated_at
  <2>1. i \in 1 .. n
    BY <1>2, <1>8
  <2>2. CASE j = n + 1
    BY <1>1, <1>5, <1>8, <2>1, <2>2 DEF n
  <2>3. CASE j \in 1 .. n
    BY <1>5, <1>8, <2>1, <2>3 DEF TopicInv, n
  <2>4. QED
    BY <1>2, <2>2, <2>3
<1>9. QED
  BY <1>5, <1>7, <1>8 DEF TopicInv

(* A pass over all requests comes to each once. *)
LEMMA AllRequestsOnce ==
    /\ R!AllRequests \in Seq(R!Requests)
    /\ Len(R!AllRequests) = NRequests
    /\ \A i \in 1 .. NRequests : R!AllRequests[i] = i
<1>1. NRequests \in Nat
  BY RequestAssumption
<1>2. QED
  BY <1>1 DEF R!AllRequests, R!Requests

(* The head and the tail of a list that is not empty. *)
LEMMA HeadAndTail ==
    ASSUME NEW S, NEW list \in Seq(S), list # <<>>
    PROVE  /\ Head(list) \in S /\ Head(list) = list[1]
           /\ Tail(list) \in Seq(S)
           /\ Len(list) \in Nat \ {0}
           /\ Len(Tail(list)) = Len(list) - 1
           /\ \A i \in 1 .. Len(list) - 1 : Tail(list)[i] = list[i + 1]
OBVIOUS

(* The requests are constructed. *)
LEMMA StartKeepsInv ==
    ASSUME RequestInv, R!Start
    PROVE  RequestInv'
<1>1. phase = "start" /\ topic' = <<>> /\ open' = <<>> /\ phase' = "report" /\ pass' = R!AllRequests
  BY DEF R!Start, RequestInv
<1>2. /\ draw' \in [R!Requests -> R!Draws]
      /\ object' = [r \in R!Requests |-> R!NewRequest]
  BY DEF R!Start
<1>3. TopicInv'
  BY <1>1 DEF TopicInv
<1>4. ObjectInv'
  BY <1>1, <1>2, NewIsSound DEF ObjectInv
<1>5. PassInv'
  <2>1. \A i \in 1 .. Len(pass') : ~ R!Terminal(object'[pass'[i]])
    BY <1>1, <1>2, NewIsSound, AllRequestsOnce DEF R!Requests
  <2>2. /\ pass' \in Seq(R!Requests)
        /\ \A i, j \in 1 .. Len(pass') : pass'[i] = pass'[j] => i = j
    BY <1>1, AllRequestsOnce
  <2>3. Advancing(pass)'
    BY <2>1, <2>2 DEF Advancing
  <2>4. Advancing(open)'
    BY <1>1 DEF Advancing
  <2>5. QED
    BY <1>1, <2>3, <2>4 DEF PassInv
<1>6. QED
  BY <1>1, <1>3, <1>4, <1>5 DEF RequestInv

(* The next request reports: it has sent nothing yet. *)
LEMMA ReportKeepsInv ==
    ASSUME RequestInv, R!Report
    PROVE  RequestInv'
<1> DEFINE r == Head(pass)
<1>1. /\ phase = "report" /\ phase' = "report" /\ pass # <<>>
      /\ R!Emit(r, object[r]) /\ pass' = Tail(pass)
      /\ draw' = draw /\ object' = object /\ open' = open
  BY DEF R!Report
<1>2. TopicInv /\ ObjectInv /\ PassInv
  BY <1>1 DEF RequestInv
<1>3. pass \in Seq(R!Requests)
  BY <1>2 DEF PassInv, Advancing
<1>4. /\ r \in R!Requests /\ r = pass[1]
      /\ pass' \in Seq(R!Requests)
      /\ Len(pass) \in Nat \ {0} /\ Len(pass') = Len(pass) - 1
      /\ \A i \in 1 .. Len(pass) - 1 : pass'[i] = pass[i + 1]
  BY <1>1, <1>3, HeadAndTail
<1> HIDE DEF r
<1>5. \A i \in 1 .. Len(topic) : topic[i][1] # r
  BY <1>1, <1>2, <1>4 DEF PassInv
<1>6. \A s \in R!Requests : object[s].updated_at \in Nat
  BY <1>2 DEF ObjectInv, SoundRequest, RequestShape
<1>7. SoundRequest(object[r])
  BY <1>2, <1>4 DEF ObjectInv
<1>8. TopicInv'
  BY <1>1, <1>2, <1>4, <1>5, <1>6, <1>7, EmitKeepsTopic
<1>9. ObjectInv'
  BY <1>1, <1>2 DEF ObjectInv
<1>10. PassInv'
  <2>1. Advancing(pass)'
    BY <1>1, <1>2, <1>4 DEF PassInv, Advancing
  <2>2. Advancing(open)'
    BY <1>1, <1>2 DEF PassInv, Advancing
  <2>3. topic \in Seq(R!Requests \X SoundMessages)
    BY <1>2 DEF TopicInv
  <2>4. /\ Len(topic) \in Nat
        /\ Len(topic') = Len(topic) + 1
        /\ \A j \in 1 .. Len(topic) : topic'[j] = topic[j]
        /\ topic'[Len(topic) + 1][1] = r
    BY <1>1, <2>3 DEF R!Emit
  <2>5. ASSUME NEW i \in 1 .. Len(pass'), NEW j \in 1 .. Len(topic')
        PROVE  topic'[j][1] # pass'[i]
    <3>1. i + 1 \in 1 .. Len(pass) /\ 1 \in 1 .. Len(pass) /\ i + 1 # 1 /\ pass'[i] = pass[i + 1]
      BY <1>4
    <3>2. CASE j = Len(topic) + 1
      <4>1. pass[i + 1] # pass[1]
        BY <1>2, <3>1 DEF PassInv, Advancing
      <4>2. QED
        BY <1>4, <2>4, <3>1, <3>2, <4>1
    <3>3. CASE j \in 1 .. Len(topic)
      <4>1. topic[j][1] # pass[i + 1]
        BY <1>1, <1>2, <3>1, <3>3 DEF PassInv
      <4>2. QED
        BY <2>4, <3>1, <3>3, <4>1
    <3>4. QED
      BY <2>4, <3>2, <3>3
  <2>6. open' = <<>>
    BY <1>1, <1>2 DEF PassInv
  <2>7. QED
    BY <2>1, <2>2, <2>5, <2>6 DEF PassInv
<1>11. QED
  BY <1>1, <1>8, <1>9, <1>10 DEF RequestInv

(* The passes begin, with every request as it was constructed. *)
LEMMA ReportsDoneKeepsInv ==
    ASSUME RequestInv, R!ReportsDone
    PROVE  RequestInv'
<1>1. /\ phase = "report" /\ phase' \in {"advance", "done"} /\ pass' = R!AllRequests
      /\ draw' = draw /\ object' = object /\ open' = open /\ topic' = topic
  BY DEF R!ReportsDone
<1>2. TopicInv /\ ObjectInv /\ PassInv
  BY <1>1 DEF RequestInv
<1>3. TopicInv' /\ ObjectInv'
  BY <1>1, <1>2 DEF TopicInv, ObjectInv
<1>4. open' = <<>>
  BY <1>1, <1>2 DEF PassInv
<1>5. Advancing(pass)'
  <2>1. \A i \in 1 .. Len(pass') : ~ R!Terminal(object'[pass'[i]])
    BY <1>1, <1>2, NewIsSound, AllRequestsOnce DEF R!Requests, ObjectInv
  <2>2. /\ pass' \in Seq(R!Requests)
        /\ \A i, j \in 1 .. Len(pass') : pass'[i] = pass'[j] => i = j
    BY <1>1, AllRequestsOnce
  <2>3. QED
    BY <2>1, <2>2 DEF Advancing
<1>6. Advancing(open)'
  BY <1>4 DEF Advancing
<1>7. PassInv'
  BY <1>1, <1>4, <1>5, <1>6 DEF PassInv
<1>8. QED
  BY <1>1, <1>3, <1>7 DEF RequestInv

(* A request takes one step and sends it; it stays in the round unless that *)
(* was its last.                                                           *)
LEMMA AdvanceKeepsInv ==
    ASSUME RequestInv, R!AdvanceNext
    PROVE  RequestInv'
<1> DEFINE r == Head(pass)
           q == R!Advanced(object[r], draw[r])
<1>1. /\ phase = "advance" /\ phase' = "advance" /\ pass # <<>>
      /\ object' = [object EXCEPT ![r] = q]
      /\ R!Emit(r, q)
      /\ open' = IF R!Terminal(q) THEN open ELSE Append(open, r)
      /\ pass' = Tail(pass)
      /\ draw' = draw
  BY DEF R!AdvanceNext
<1>2. TopicInv /\ ObjectInv /\ PassInv
  BY <1>1 DEF RequestInv
<1>3. pass \in Seq(R!Requests) /\ open \in Seq(R!Requests)
  BY <1>2 DEF PassInv, Advancing
<1>4. /\ r \in R!Requests /\ r = pass[1]
      /\ pass' \in Seq(R!Requests)
      /\ Len(pass) \in Nat \ {0} /\ Len(pass') = Len(pass) - 1
      /\ \A i \in 1 .. Len(pass) - 1 : pass'[i] = pass[i + 1]
  BY <1>1, <1>3, HeadAndTail
<1>5. SoundRequest(object[r]) /\ ~ R!Terminal(object[r]) /\ draw[r] \in R!Draws
  <2>1. ~ R!Terminal(object[pass[1]])
    BY <1>1, <1>2, <1>4 DEF PassInv, Advancing
  <2>2. QED
    BY <1>2, <1>4, <2>1 DEF ObjectInv
<1>6. SoundRequest(q) /\ object[r].updated_at < q.updated_at
  BY <1>5, AdvancedIsSoundAndLater
<1> HIDE DEF r, q
<1>7. /\ object'[r] = q
      /\ \A s \in R!Requests : s # r => object'[s] = object[s]
      /\ DOMAIN object' = R!Requests
  BY <1>1, <1>2, <1>4 DEF ObjectInv
<1>8. \A s \in R!Requests : SoundRequest(object'[s])
  BY <1>2, <1>6, <1>7 DEF ObjectInv
<1>9. \A s \in R!Requests : object[s].updated_at \in Nat /\ object'[s].updated_at \in Nat
  BY <1>2, <1>8 DEF ObjectInv, SoundRequest, RequestShape
<1>10. TopicInv'
  <2>1. \A i \in 1 .. Len(topic) : topic[i][1] = r => topic[i][2].updated_at < q.updated_at
    <3> SUFFICES ASSUME NEW i \in 1 .. Len(topic), topic[i][1] = r
                 PROVE  topic[i][2].updated_at < q.updated_at
      OBVIOUS
    <3>1. topic[i][2].updated_at <= object[r].updated_at
      BY <1>2 DEF TopicInv
    <3>2. topic[i] \in R!Requests \X SoundMessages
      BY <1>2 DEF TopicInv
    <3>3. topic[i][2].updated_at \in Nat
      BY <3>2 DEF SoundMessages, RequestShape, R!ToEvent
    <3>4. q.updated_at \in Nat /\ object[r].updated_at \in Nat
      BY <1>4, <1>7, <1>9
    <3>5. QED
      BY <1>6, <3>1, <3>3, <3>4
  <2>2. object[r].updated_at <= object'[r].updated_at /\ q.updated_at <= object'[r].updated_at
    BY <1>4, <1>6, <1>7, <1>9
  <2>3. QED
    BY <1>1, <1>2, <1>4, <1>6, <1>7, <1>9, <2>1, <2>2, EmitKeepsTopic
<1>11. ObjectInv'
  BY <1>1, <1>2, <1>7, <1>8 DEF ObjectInv
<1>12. /\ Len(open) \in Nat
       /\ \A i \in 1 .. Len(open) : open[i] \in R!Requests /\ open[i] # r /\ ~ R!Terminal(object[open[i]])
       /\ \A i \in 1 .. Len(pass) - 1 :
             pass[i + 1] \in R!Requests /\ pass[i + 1] # r /\ ~ R!Terminal(object[pass[i + 1]])
  <2>1. ASSUME NEW i \in 1 .. Len(open)
        PROVE  open[i] \in R!Requests /\ open[i] # r /\ ~ R!Terminal(object[open[i]])
    BY <1>1, <1>2, <1>3, <1>4 DEF PassInv, Advancing
  <2>2. ASSUME NEW i \in 1 .. Len(pass) - 1
        PROVE  pass[i + 1] \in R!Requests /\ pass[i + 1] # r /\ ~ R!Terminal(object[pass[i + 1]])
    <3>1. i + 1 \in 1 .. Len(pass) /\ 1 \in 1 .. Len(pass) /\ i + 1 # 1
      BY <1>4
    <3>2. QED
      BY <1>1, <1>2, <1>3, <1>4, <3>1 DEF PassInv, Advancing
  <2>3. QED
    BY <1>3, <2>1, <2>2
<1>13. Advancing(pass)'
  <2>1. \A i \in 1 .. Len(pass') : ~ R!Terminal(object'[pass'[i]])
    BY <1>4, <1>7, <1>12
  <2>2. \A i, j \in 1 .. Len(pass') : pass'[i] = pass'[j] => i = j
    BY <1>2, <1>4 DEF PassInv, Advancing
  <2>3. QED
    BY <1>4, <2>1, <2>2 DEF Advancing
<1>14. CASE R!Terminal(q)
  <2>1. open' = open
    BY <1>1, <1>14
  <2>2. Advancing(open)'
    <3>1. \A i \in 1 .. Len(open') : ~ R!Terminal(object'[open'[i]])
      BY <1>7, <1>12, <2>1
    <3>2. QED
      BY <1>2, <2>1, <3>1 DEF PassInv, Advancing
  <2>3. \A i \in 1 .. Len(pass'), j \in 1 .. Len(open') : pass'[i] # open'[j]
    BY <1>2, <1>4, <2>1 DEF PassInv
  <2>4. PassInv'
    BY <1>1, <1>13, <2>2, <2>3 DEF PassInv
  <2>5. QED
    BY <1>1, <1>10, <1>11, <2>4 DEF RequestInv
<1>15. CASE ~ R!Terminal(q)
  <2> DEFINE n == Len(open)
  <2>1. open' = Append(open, r)
    BY <1>1, <1>15
  <2>2. /\ open' \in Seq(R!Requests) /\ Len(open') = n + 1 /\ n \in Nat
        /\ \A i \in 1 .. n : open'[i] = open[i]
        /\ open'[n + 1] = r
    BY <1>3, <1>4, <2>1
  <2>3. \A i \in 1 .. n : open'[i] # r /\ ~ R!Terminal(object'[open'[i]])
    BY <1>7, <1>12, <2>2
  <2> HIDE DEF n
  <2>4. \A i \in 1 .. n + 1 : ~ R!Terminal(object'[open'[i]])
    BY <1>7, <1>15, <2>2, <2>3
  <2>5. ASSUME NEW i \in 1 .. n + 1, NEW j \in 1 .. n + 1, open'[i] = open'[j]
        PROVE  i = j
    <3>1. CASE i \in 1 .. n /\ j \in 1 .. n
      BY <1>2, <2>2, <2>5, <3>1 DEF PassInv, Advancing, n
    <3>2. CASE i = n + 1 \/ j = n + 1
      BY <2>2, <2>3, <2>5, <3>2
    <3>3. QED
      BY <2>2, <3>1, <3>2
  <2>6. Advancing(open)'
    BY <2>2, <2>4, <2>5 DEF Advancing
  <2>7. ASSUME NEW i \in 1 .. Len(pass'), NEW j \in 1 .. n + 1
        PROVE  pass'[i] # open'[j]
    <3>1. i \in 1 .. Len(pass) - 1 /\ i + 1 \in 1 .. Len(pass) /\ pass'[i] = pass[i + 1]
      BY <1>4
    <3>2. CASE j = n + 1
      BY <1>12, <2>2, <3>1, <3>2
    <3>3. CASE j \in 1 .. n
      BY <1>2, <2>2, <3>1, <3>3 DEF PassInv, n
    <3>4. QED
      BY <2>2, <3>2, <3>3
  <2>8. PassInv'
    BY <1>1, <1>13, <2>2, <2>6, <2>7 DEF PassInv
  <2>9. QED
    BY <1>1, <1>10, <1>11, <2>8 DEF RequestInv
<1>16. QED
  BY <1>14, <1>15

(* What is left of a pass goes to the next one. *)
LEMMA SkipRestKeepsInv ==
    ASSUME RequestInv, R!SkipRest
    PROVE  RequestInv'
<1>1. /\ phase = "advance" /\ phase' = "advance"
      /\ open' = open \o pass /\ pass' = <<>>
      /\ draw' = draw /\ object' = object /\ topic' = topic
  BY DEF R!SkipRest
<1>2. TopicInv /\ ObjectInv /\ PassInv
  BY <1>1 DEF RequestInv
<1>3. TopicInv' /\ ObjectInv'
  BY <1>1, <1>2 DEF TopicInv, ObjectInv
<1>4. pass \in Seq(R!Requests) /\ open \in Seq(R!Requests)
  BY <1>2 DEF PassInv, Advancing
<1> DEFINE n == Len(open)
           m == Len(pass)
<1>5. /\ n \in Nat /\ m \in Nat
      /\ open' \in Seq(R!Requests) /\ Len(open') = n + m
      /\ \A i \in 1 .. n : open'[i] = open[i]
      /\ \A i \in n + 1 .. n + m : open'[i] = pass[i - n] /\ i - n \in 1 .. m
  BY <1>1, <1>4
<1> HIDE DEF n, m
<1>6. \A i \in 1 .. n : \A j \in n + 1 .. n + m : open'[i] # open'[j]
  BY <1>2, <1>5 DEF PassInv, n, m
<1>7. ASSUME NEW i \in 1 .. n + m, NEW j \in 1 .. n + m, open'[i] = open'[j]
      PROVE  i = j
  <2>1. CASE i \in 1 .. n /\ j \in 1 .. n
    BY <1>2, <1>5, <1>7, <2>1 DEF PassInv, Advancing, n
  <2>2. CASE i \in n + 1 .. n + m /\ j \in n + 1 .. n + m
    <3>1. pass[i - n] = pass[j - n] /\ i - n \in 1 .. m /\ j - n \in 1 .. m
      BY <1>5, <1>7, <2>2
    <3>2. i - n = j - n
      BY <1>2, <3>1 DEF PassInv, Advancing, m
    <3>3. QED
      BY <1>5, <3>2
  <2>3. QED
    BY <1>5, <1>6, <1>7, <2>1, <2>2
<1>8. ASSUME NEW i \in 1 .. n + m
      PROVE  ~ R!Terminal(object'[open'[i]])
  <2>1. CASE i \in 1 .. n
    BY <1>1, <1>2, <1>5, <2>1 DEF PassInv, Advancing, n
  <2>2. CASE i \in n + 1 .. n + m
    BY <1>1, <1>2, <1>5, <2>2 DEF PassInv, Advancing, m
  <2>3. QED
    BY <1>5, <2>1, <2>2
<1>9. Advancing(open)'
  BY <1>5, <1>7, <1>8 DEF Advancing
<1>10. Advancing(pass)'
  BY <1>1 DEF Advancing
<1>11. PassInv'
  BY <1>1, <1>9, <1>10 DEF PassInv
<1>12. QED
  BY <1>1, <1>3, <1>11 DEF RequestInv

(* The next pass goes over the requests still open. *)
LEMMA PassDoneKeepsInv ==
    ASSUME RequestInv, R!PassDone
    PROVE  RequestInv'
<1>1. /\ phase = "advance" /\ phase' \in {"advance", "done"}
      /\ pass' = open /\ open' = <<>>
      /\ draw' = draw /\ object' = object /\ topic' = topic
  BY DEF R!PassDone
<1>2. TopicInv /\ ObjectInv /\ PassInv
  BY <1>1 DEF RequestInv
<1>3. TopicInv' /\ ObjectInv'
  BY <1>1, <1>2 DEF TopicInv, ObjectInv
<1>4. Advancing(pass)' /\ Advancing(open)'
  BY <1>1, <1>2 DEF PassInv, Advancing
<1>5. PassInv'
  BY <1>1, <1>4 DEF PassInv
<1>6. QED
  BY <1>1, <1>3, <1>5 DEF RequestInv

(* The initial state satisfies the invariant. *)
LEMMA RequestInitInv == Init => RequestInv
BY DEF Init, R!Init, RequestInv

(* Every step of the task preserves it. *)
LEMMA RequestNextInv == RequestInv /\ [Next]_vars => RequestInv'
<1> SUFFICES ASSUME RequestInv, [Next]_vars PROVE RequestInv'
  OBVIOUS
<1>1. CASE Requests
  BY <1>1, StartKeepsInv, ReportKeepsInv, ReportsDoneKeepsInv, AdvanceKeepsInv,
     SkipRestKeepsInv, PassDoneKeepsInv DEF Requests, R!Next
<1>2. CASE UNCHANGED requestVars
  BY <1>2 DEF requestVars, RequestInv, TopicInv, ObjectInv, PassInv, Advancing
<1>3. QED
  BY <1>1, <1>2 DEF Next, Occupancy, vars

(* The invariant of the request producer holds of every behaviour. *)
THEOREM RequestInvariant == Spec => []RequestInv
BY RequestInitInv, RequestNextInv, PTL DEF Spec

(***************************************************************************)
(* "the same request_id appears several times with a rising updated_at"    *)
(* (service_request_producer.py), whatever the seed makes of the requests. *)
(***************************************************************************)
THEOREM UpdatesRise == Spec => []UpdatedAtRises
<1>1. RequestInv => UpdatedAtRises
  <2> SUFFICES ASSUME RequestInv, NEW r \in R!Requests,
                      NEW i \in R!SentOf(r), NEW j \in R!SentOf(r), i < j
               PROVE  topic[i][2].updated_at < topic[j][2].updated_at
    BY DEF UpdatedAtRises, R!UpdatedAtRises
  <2>1. topic # <<>>
    BY DEF R!SentOf
  <2>2. TopicInv
    BY <2>1 DEF RequestInv
  <2>3. i \in 1 .. Len(topic) /\ j \in 1 .. Len(topic) /\ topic[i][1] = topic[j][1]
    BY <2>2 DEF TopicInv, R!SentOf
  <2>4. QED
    BY <2>2, <2>3 DEF TopicInv
<1>2. QED
  BY <1>1, RequestInvariant, PTL

(***************************************************************************)
(* The contract of stream B accepts what the request producer makes, and   *)
(* refuses every corruption of it, whatever state that falls on.           *)
(***************************************************************************)
THEOREM RequestsAreSeparated == Spec => []ContractSeparates
<1>1. RequestInv => ContractSeparates
  <2> SUFFICES ASSUME RequestInv, NEW i \in DOMAIN topic
               PROVE  /\ R!Accepts(topic[i][2], Now, 0)
                      /\ \A type \in R!CORRUPTION_TYPES :
                            ~ R!Accepts(R!Corrupted(topic[i][2], type), Now, 0)
    BY DEF ContractSeparates, R!ContractSeparates
  <2>1. TopicInv
    BY DEF RequestInv
  <2>2. topic[i] \in R!Requests \X SoundMessages
    BY <2>1 DEF TopicInv
  <2>3. PICK q : SoundRequest(q) /\ topic[i][2] = R!ToEvent(q)
    BY <2>2 DEF SoundMessages
  <2>4. QED
    BY <2>3, SoundRequestIsAccepted, CorruptedRequestIsRefused
<1>2. QED
  BY <1>1, RequestInvariant, PTL

-----------------------------------------------------------------------------
(***************************************************************************)
(* The task produce_test_events implements both of its stages: what it does *)
(* to the variables of each is what that producer alone may do.            *)
(***************************************************************************)
THEOREM TaskRunsBothProducers == Spec => ProducerSpec /\ R!Spec
<1>1. Init => ProducerInit /\ R!Init
  BY DEF Init
<1>2. [Next]_vars => [ProducerNext]_producerVars /\ [R!Next]_(R!vars)
  BY DEF Next, Occupancy, Requests, vars, requestVars, R!vars
<1>3. QED
  BY <1>1, <1>2, PTL DEF Spec, ProducerSpec, R!Spec

(***************************************************************************)
(* So the three statements about the messages of the occupancy producer    *)
(* hold of the task too.                                                   *)
(***************************************************************************)
THEOREM TaskSendsAsStated ==
    Spec => [](GeneratedIsAccepted /\ OneRulePerCorruption /\ AcceptedMeetsEverySuite)
BY TaskRunsBothProducers, GeneratedEventsAreAccepted, CorruptionsAreRefusedByTheirRule,
   AcceptedEventsMeetTheSuites, PTL
=============================================================================
