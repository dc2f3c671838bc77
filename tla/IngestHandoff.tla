--------------------------- MODULE IngestHandoff ---------------------------
(* Ingest implements Handoff: the mapping, and the properties it gives. *)
EXTENDS Ingest

Arrived == Below(end)
Stored  == {r \in Records : bronze[r] > 0 \/ quarantine[r] > 0}
Acked   == Below(committed)

H == INSTANCE Handoff WITH
        Items <- Records, arrived <- Arrived, landed <- Stored, acked <- Acked

(***************************************************************************)
(* Through every crash, rebalance and refusal, `consume` only writes what  *)
(* the topic holds and only commits what it wrote: it is a Handoff.        *)
(***************************************************************************)
ImplementsHandoff == H!HSpec

(***************************************************************************)
(* Every record a producer wrote is committed in the end, given finitely   *)
(* many faults and no record that bronze cannot hold.                      *)
(***************************************************************************)
EveryRecordIsCommitted == H!EveryArrivalAcked

=============================================================================
