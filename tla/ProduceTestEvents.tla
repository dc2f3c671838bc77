------------------------- MODULE ProduceTestEvents -------------------------
(***************************************************************************)
(* The task produce_test_events of dags/hajj_ops_pipeline.py: it runs the  *)
(* occupancy producer to its end, and then the request producer.           *)
(***************************************************************************)
EXTENDS OccupancyProducer

CONSTANTS NRequests, MaxBudget, Minutes, Now    \* of the request producer

ASSUME RequestAssumption ==
    /\ {NRequests, MaxBudget} \subseteq Nat \ {0}
    /\ Minutes \subseteq Nat \ {0}

\* The clock the contract reads is after every timestamp: no request goes on
\* for longer than four of its durations.
ASSUME ClockAssumption ==
    /\ Now \in Nat
    /\ \A m \in Minutes : 4 * m <= Now

VARIABLES budget, draw, object, phase, pass, open, topic

requestVars == <<budget, draw, object, phase, pass, open, topic>>
vars == <<producerVars, requestVars>>

R == INSTANCE RequestLifecycle

Init == ProducerInit /\ R!Init

Occupancy == ProducerNext /\ UNCHANGED requestVars

\* _run_stage returned with exit code 0: the second stage runs.
Requests == at = "done" /\ R!Next /\ UNCHANGED producerVars

Next == Occupancy \/ Requests

Spec == Init /\ [][Next]_vars

\* Both stages are loops that never wait.
FairSpec == Spec /\ WF_vars(Next)

-----------------------------------------------------------------------------
(***************************************************************************)
(* What RequestLifecycle states of the events of the second stage: the     *)
(* contract accepts each and refuses each corruption of it, and            *)
(* updated_at rises along a request.                                       *)
(***************************************************************************)
ContractSeparates == R!ContractSeparates
UpdatedAtRises    == R!UpdatedAtRises

(***************************************************************************)
(* The task ends.  The occupancy producer has sent its budget up to an     *)
(* incomplete round, the same number for every zone unless the budget is   *)
(* less than one round; the request producer has spent its budget or       *)
(* brought every request to its end.                                       *)
(***************************************************************************)
EndsWithReason ==
    <>[](/\ at = "done"
         /\ events - Len(zone_ids) < sent /\ sent <= events
         /\ events >= Len(zone_ids) => sent % Len(zone_ids) = 0
         /\ R!EndedWithReason)
=============================================================================
