-------------------------- MODULE RequestLifecycle --------------------------
(***************************************************************************)
(* src/ingestion/producers/service_request_producer.py: the requests are   *)
(* created up front, then advanced round-robin through their lifecycle,    *)
(* one message per state change, until all are terminal or the budget of   *)
(* messages is spent.                                                      *)
(*                                                                         *)
(* What the seed makes of each request is fixed at the start.              *)
(***************************************************************************)
EXTENDS RequestObject, FiniteSets

CONSTANTS
    NRequests,      \* --requests
    MaxBudget,      \* bound: --events is in 1 .. MaxBudget
    Now             \* the consumer's clock, after every timestamp

Requests == 1 .. NRequests

-----------------------------------------------------------------------------
VARIABLES
    budget,     \* --events
    draw,       \* request -> what the seed makes of it
    object,     \* request -> its Request object
    phase,      \* "start", "report", "advance" or "done"
    pass,       \* requests this pass has not come to yet
    open,       \* still_open: requests for the next pass
    topic       \* what was sent: <<request, event>>, before any corruption

vars == <<budget, draw, object, phase, pass, open, topic>>

AllRequests == [i \in 1 .. NRequests |-> i]

Init ==
    /\ budget = 0
    /\ draw = <<>>
    /\ object = <<>>
    /\ phase = "start"
    /\ pass = <<>>
    /\ open = <<>>
    /\ topic = <<>>

\* The arguments are read and the requests constructed.
Start ==
    /\ phase = "start"
    /\ budget' \in 1 .. MaxBudget
    /\ draw' \in [Requests -> Draws]
    /\ object' = [r \in Requests |-> NewRequest]
    /\ phase' = "report"
    /\ pass' = AllRequests
    /\ UNCHANGED <<open, topic>>

\* emit.  Beyond the random numbers it uses up, corrupting a payload changes
\* nothing in the producer, and a full local queue only makes it wait.
Emit(r, q) == topic' = Append(topic, <<r, ToEvent(q)>>)

\* The initial REPORTED of the next request.
Report ==
    /\ phase = "report"
    /\ pass # <<>>
    /\ Len(topic) < budget
    /\ Emit(Head(pass), object[Head(pass)])
    /\ pass' = Tail(pass)
    /\ UNCHANGED <<budget, draw, object, phase, open>>

\* All are reported, or the budget is spent: the passes begin, over all of them.
ReportsDone ==
    /\ phase = "report"
    /\ pass = <<>> \/ Len(topic) >= budget
    /\ phase' = IF Len(topic) < budget THEN "advance" ELSE "done"
    /\ pass' = AllRequests
    /\ UNCHANGED <<budget, draw, object, open, topic>>

\* The next request of a pass takes one step and sends it.
AdvanceNext ==
    /\ phase = "advance"
    /\ pass # <<>>
    /\ Len(topic) < budget
    /\ LET r == Head(pass)
           q == Advanced(object[r], draw[r])
       IN  /\ object' = [object EXCEPT ![r] = q]
           /\ Emit(r, q)
           /\ open' = IF Terminal(q) THEN open ELSE Append(open, r)
    /\ pass' = Tail(pass)
    /\ UNCHANGED <<budget, draw, phase>>

\* The budget ran out within the pass: the rest stays open as it is.
SkipRest ==
    /\ phase = "advance"
    /\ pass # <<>>
    /\ Len(topic) >= budget
    /\ open' = open \o pass
    /\ pass' = <<>>
    /\ UNCHANGED <<budget, draw, object, phase, topic>>

\* A pass is over: the next one goes over the requests still open.
PassDone ==
    /\ phase = "advance"
    /\ pass = <<>>
    /\ pass' = open
    /\ open' = <<>>
    /\ phase' = IF open # <<>> /\ Len(topic) < budget THEN "advance" ELSE "done"
    /\ UNCHANGED <<budget, draw, object, topic>>

Next == Start \/ Report \/ ReportsDone \/ AdvanceNext \/ SkipRest \/ PassDone

Spec == Init /\ [][Next]_vars

-----------------------------------------------------------------------------
SentOf(r) == {i \in DOMAIN topic : topic[i][1] = r}

(***************************************************************************)
(* The contract separates the two: it accepts every event as the lifecycle *)
(* makes it, at every state and for every draw of durations, and it        *)
(* refuses every kind of corruption, whatever state it falls on.           *)
(***************************************************************************)
ContractSeparates ==
    \A i \in DOMAIN topic :
        /\ Accepts(topic[i][2], Now, 0)
        /\ \A type \in CORRUPTION_TYPES : ~ Accepts(Corrupted(topic[i][2], type), Now, 0)

(***************************************************************************)
(* "the same request_id appears several times with a rising updated_at":   *)
(* of two messages of one request the later one has the larger updated_at, *)
(* which is what lets updated_at alone decide between them in silver.      *)
(***************************************************************************)
UpdatedAtRises ==
    \A r \in Requests : \A i, j \in SentOf(r) :
        i < j => topic[i][2].updated_at < topic[j][2].updated_at

(***************************************************************************)
(* The producer ends, and it ends only with every request terminal or the  *)
(* budget spent.                                                           *)
(***************************************************************************)
EndedWithReason ==
    phase = "done" /\ (Len(topic) = budget \/ \A r \in Requests : Terminal(object[r]))

=============================================================================
