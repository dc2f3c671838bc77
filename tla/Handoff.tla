------------------------------ MODULE Handoff ------------------------------
(***************************************************************************)
(* What the bronze ingestion promises, without its batches, buffers,       *)
(* offsets and processes: records arrive, they are put on durable storage, *)
(* and only what is already there is acknowledged to the sender.           *)
(* ("At-least-once, not exactly-once", src/ingestion/consumer.py.)         *)
(***************************************************************************)
CONSTANT Items

VARIABLES
    arrived,    \* items handed over by the sender
    landed,     \* items on durable storage
    acked       \* items the sender may forget

hvars == <<arrived, landed, acked>>

HInit == arrived = {} /\ landed = {} /\ acked = {}

Arrive ==
    /\ \E i \in Items \ arrived : arrived' = arrived \cup {i}
    /\ UNCHANGED <<landed, acked>>

\* Any arrived items reach storage together; landing twice changes nothing.
Land ==
    /\ \E S \in SUBSET arrived : landed' = landed \cup S
    /\ UNCHANGED <<arrived, acked>>

\* Only what landed is acknowledged, and never un-acknowledged.
Ack ==
    /\ \E S \in SUBSET landed : acked' = acked \cup S
    /\ UNCHANGED <<arrived, landed>>

HNext == Arrive \/ Land \/ Ack

HSpec == HInit /\ [][HNext]_hvars

(* Every item that arrives is acknowledged in the end. *)
EveryArrivalAcked == \A i \in Items : i \in arrived ~> i \in acked

=============================================================================
