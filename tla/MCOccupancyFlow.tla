-------------------------- MODULE MCOccupancyFlow --------------------------
(* Two readings of one zone-hour, the second ahead of the clock, and one cut short. *)
EXTENDS OccupancyFlow

Reading(minute, occupancy, status) ==
    Object([event_id |-> Text("uuid4"), zone_id |-> Text("MATAF_01"), gate_id |-> Text("G"),
            event_time |-> Text(minute), entries |-> Num(7), exits |-> Num(5),
            occupancy_estimate |-> Num(occupancy), sensor_status |-> Text(status)])

MCZones    == {"MATAF_01"}
MCCapacity == [z \in MCZones |-> 48000]
MCPayload  == <<Reading(0, 45000, "OK"), Truncated, Reading(10, 41000, "DEGRADED")>>
=============================================================================
