----------------------------- MODULE RequestFlow -----------------------------
(***************************************************************************)
(* The request stream end to end: runs of the producer, the contract in    *)
(* front of bronze, and the builds of silver_service_requests.             *)
(*                                                                         *)
(* The ids come from the seeded random numbers, so every run of the        *)
(* producer uses the same request_ids, and the same event_ids as long as   *)
(* it draws the same numbers.  The constructors draw before anything       *)
(* depends on the corruption rate; whether an event is corrupted decides   *)
(* how many numbers are drawn after it.  A `variant` is one such           *)
(* continuation of the seed: runs at one corruption rate share it.         *)
(***************************************************************************)
EXTENDS RequestObject, SilverRequests

CONSTANTS
    Variants,       \* continuations of the seed that runs may take
    MaxRuns         \* bound: runs of the producer

\* An event_id is the k-th message of a request in a variant.
Messages == Requests \X Variants \X (0 .. LastStep)

ASSUME FlowAssumption ==
    /\ MaxRuns \in Nat
    /\ Variants # {}
    /\ Events = Messages

\* No request goes on for longer than four of its durations.
ASSUME TimeAssumption == \A m \in Minutes : 4 * m <= MaxTime

VARIABLES
    draw,       \* request -> variant -> the numbers drawn
    runs,       \* runs of the producer that have started
    variant,    \* the variant of the present run
    sent,       \* request -> messages this run has sent of it
    status      \* event -> its status, as its draws make it, like `updated`

producerVars == <<draw, runs, variant, sent>>
flowVars     == <<producerVars, status, vars>>

DrawOf(e) == draw[e[1]][e[2]]

\* Messages a request has in all.
Length(d) == IF d.cancel = 0 THEN LastStep + 1 ELSE d.cancel + 1

\* The request as event e shows it; past the last message, as that shows it.
Shown(e) == State(DrawOf(e), IF e[3] < Length(DrawOf(e)) THEN e[3] ELSE Length(DrawOf(e)) - 1)

\* The numbers the constructors draw are the same in every variant.
SharedByVariants(f) ==
    \A v, w \in Variants : f[v].response = f[w].response /\ f[v].resolution = f[w].resolution

FlowInit ==
    /\ draw \in [Requests -> {f \in [Variants -> Draws] : SharedByVariants(f)}]
    /\ runs = 1
    /\ variant \in Variants
    /\ sent = [r \in Requests |-> 0]
    /\ request = [e \in Events |-> e[1]]
    /\ updated = [e \in Events |-> Shown(e).updated_at]
    /\ status = [e \in Events |-> StatusOf(Shown(e))]
    /\ EmptyTables

\* The run sends the next message of r, and the contract accepts it.
SendAccepted(r) ==
    /\ sent[r] < Length(draw[r][variant])
    /\ sent' = [sent EXCEPT ![r] = @ + 1]
    /\ UNCHANGED <<draw, runs, variant, status>>
    /\ Ingest(<<r, variant, sent[r]>>)

\* The next message of r is corrupted: it goes to the quarantine.
SendCorrupted(r) ==
    /\ sent[r] < Length(draw[r][variant])
    /\ sent' = [sent EXCEPT ![r] = @ + 1]
    /\ UNCHANGED <<draw, runs, variant, status, vars>>

\* The producer is run again, from the beginning, whatever the last run came to.
NewRun ==
    /\ runs < MaxRuns
    /\ runs' = runs + 1
    /\ variant' \in Variants
    /\ sent' = [r \in Requests |-> 0]
    /\ UNCHANGED <<draw, status, vars>>

Build ==
    /\ UNCHANGED <<producerVars, status>>
    /\ BuildRead \/ FirstLoad \/ Merge \/ Crash

FlowNext ==
    \/ \E r \in Requests : SendAccepted(r) \/ SendCorrupted(r)
    \/ NewRun
    \/ Build

FlowSpec == FlowInit /\ [][FlowNext]_flowVars

-----------------------------------------------------------------------------
(***************************************************************************)
(* Silver shows the furthest state of each request that the contract let   *)
(* through, over all the runs that were read: corrupted events are skipped,*)
(* repeated events count once.                                             *)
(***************************************************************************)
SilverShowsFurthestState ==
    \A e \in EventsOf(built) : \E d \in silver : d[1] = e[1] /\ d[3] >= e[3]

(***************************************************************************)
(* A request silver shows as RESOLVED or CANCELLED stays so: a further run *)
(* of the producer brings the same request_ids only "with further          *)
(* lifecycle progress" (seeded_id).  It holds for runs that share one      *)
(* corruption rate, that is, for one variant.                              *)
(***************************************************************************)
TerminalIsFinal ==
    [][\A e \in silver : status[e] \in {"RESOLVED", "CANCELLED"} => e \in silver']_flowVars

=============================================================================
